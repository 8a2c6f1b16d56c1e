SPECIFICATION StrongFairSpec
CONSTANTS
  main = main
  c1 = c1
  w1 = w1
  w2 = w2
  w3 = w3
  j1 = j1
  j2 = j2
  j3 = j3
  None = None
  Main = main
  Workers <- TwoWorkers
  ThreadCount = 2
  Clients <- OneClient
  Jobs <- TwoJobs
  ClientCalls <- AllCalls
  JobCalls <- AddClear
  LateSubmit = TRUE
  HasCallback = FALSE
  Spurious = FALSE
PROPERTIES WaitReturns
