SPECIFICATION FairSpec
CONSTANTS
  a = a
  b = b
  c = c
  d = d
  None = None
  Nodes <- MCNodes
  Arity <- MCArity
  TaskLists <- MCTaskLists
  MaxComputations = 2
INVARIANTS ReachabilityInv ReachabilityIsDepth SortedIsTopological RecursionIsBounded
PROPERTIES EvaluatedOnce ComputationEnds
