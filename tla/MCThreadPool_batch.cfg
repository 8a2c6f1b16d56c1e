SPECIFICATION Spec
CONSTANTS
  main = main
  c1 = c1
  w1 = w1
  w2 = w2
  w3 = w3
  j1 = j1
  j2 = j2
  j3 = j3
  None = None
  Main = main
  Workers <- ThreeWorkers
  ThreadCount = 3
  Clients <- TwoClients
  Jobs <- ThreeJobs
  ClientCalls <- AddWait
  JobCalls <- NoCalls
  LateSubmit = FALSE
  HasCallback = TRUE
  Spurious = TRUE
SYMMETRY Interchangeable
INVARIANTS OnCompleteOncePerBatch
