SPECIFICATION FairSpec
CONSTANTS
  a = a
  b = b
  c = c
  d = d
  w1 = w1
  w2 = w2
  r1 = r1
  None = None
  Torn = Torn
  Tasks <- Alone
  Inputs <- AloneInputs
  VoidTasks <- Nobody
  Waiters <- TwoWaiters
  WaitsFor <- BothForOne
  Readers <- Nobody
  Reads <- NoFunction
  MayThrow <- Nobody
  NotSet <- Nobody
  RerunFinished <- Nobody
  MaxReruns = 0
  MaxSpurious = 1
PROPERTIES WaitReturns
CHECK_DEADLOCK FALSE
