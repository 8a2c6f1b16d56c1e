SPECIFICATION FairSpec
CONSTANTS
  a = a
  b = b
  c = c
  x = x
  y = y
  None = None
  Tasks <- Chain
  Inputs <- ChainInputs
  Executors <- XY
  ThreadCount = 1
  MaxRounds = 2
  MaxMoves = 2
  TaskCancels = TRUE
INVARIANTS ExecutorsInv EverythingHasOneOwner SleeperIsWoken
PROPERTIES WaitCoversMoves PoolsAreJobPools CallsReturn
CHECK_DEADLOCK FALSE
