SPECIFICATION InprocSpec
CONSTANTS
  MaxJobs = 1
  MaxSlots = 1
  MaxNew = 4
  FlushEvery = 1
  PipeCap = 1
  PendingCap = 1
INVARIANT CallsInOrder
CHECK_DEADLOCK FALSE
