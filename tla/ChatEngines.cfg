SPECIFICATION ChatSpec
CONSTANTS
  MaxJobs = 2
  MaxSlots = 2
  MaxNew = 3
  FlushEvery = 1
  PipeCap = 1
  PendingCap = 1
  MaxRelaunches = 2
  MaxPieces = 2
  LineCap = 2
  BatchSize = 2
  EventCap = 1
  MaxEmbeds = 2
  InputLists <- Lists
  MaxInputs = 3
  MaxSeqs = 2
  Context = 3
CONSTRAINT Instance
INVARIANTS ChatTypeOK FreeSlotsEmpty DoneAfterText FatalSeenUnhealthy AnswersFaithful
PROPERTIES EveryJobAnswered WedgeSeen SwapNeedsCrashes LostCallsReturn
CHECK_DEADLOCK FALSE
