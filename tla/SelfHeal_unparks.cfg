SPECIFICATION Spec
CONSTANTS
  MaxRestarts = 2
  MinInterval = 2
  Window = 4
  MaxDelay = 1
  DiskMayFail = FALSE
  Threshold = 2
  StreakBound = 3
  MaxQuarantine = 2
PROPERTIES
  ConfirmedDeadStaysParked
