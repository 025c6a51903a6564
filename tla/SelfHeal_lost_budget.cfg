SPECIFICATION Spec
CONSTANTS
  MaxRestarts = 2
  MinInterval = 2
  Window = 4
  MaxDelay = 1
  DiskMayFail = TRUE
  Threshold = 2
  StreakBound = 3
  MaxQuarantine = 2
PROPERTIES
  RefinesBudget
