SPECIFICATION Spec
CONSTANTS
  MaxCalls = 3
  RequestIds = {1, 2}
  FrameCap = 1
  MaxRestarts = 1
  ReplayCap = 1
  ReplayWindow = 1
  MaxClock = 2
  MaxConsecutive = 2
CONSTRAINT Instance
INVARIANTS TypeOK AnswerOwn AdvertisedIsPinned HangsParked ReplaysAreOld
PROPERTIES RefusalJustified EveryCallReturns MuteWithdrawn StopReturns
CHECK_DEADLOCK FALSE
