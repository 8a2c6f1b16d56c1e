SPECIFICATION FairSpec
CONSTANTS
  a = a
  b = b
  c = c
  d = d
  w1 = w1
  w2 = w2
  r1 = r1
  None = None
  Torn = Torn
  Tasks <- Diamond
  Inputs <- DiamondInputs
  VoidTasks <- VoidC
  Waiters <- OneWaiter
  WaitsFor <- ForD
  Readers <- OneReader
  Reads <- FirstOfD
  MayThrow <- AAndD
  NotSet <- JustA
  RerunFinished <- JustD
  MaxReruns = 1
  MaxSpurious = 1
INVARIANTS TaskInv NoLostWakeup ArgsAreResults DurationsAreKnown ReadsAreResults
PROPERTIES ImplementsDataflow TasksComplete WaitReturns
CHECK_DEADLOCK FALSE
