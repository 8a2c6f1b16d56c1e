SPECIFICATION FairSpec
CONSTANTS
  a = a
  b = b
  c = c
  d = d
  None = None
  Main = "main"
  Tasks <- Diamond
  Inputs <- DiamondInputs
  ThreadCount = 1
  MaxRounds = 2
  TaskCancels = TRUE
  OverlappingRuns = TRUE
INVARIANTS ExecutorInv BlockedOnStarted NoOrphan
PROPERTIES ImplementsDataflow CallsReturn
CHECK_DEADLOCK FALSE
