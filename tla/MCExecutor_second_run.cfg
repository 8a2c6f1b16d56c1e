SPECIFICATION Spec
CONSTANTS
  a = a
  b = b
  c = c
  d = d
  None = None
  Main = "main"
  Tasks <- Pair
  Inputs <- PairInputs
  ThreadCount = 2
  MaxRounds = 2
  TaskCancels = FALSE
  OverlappingRuns = FALSE
INVARIANTS DependenciesFirst
CHECK_DEADLOCK FALSE
