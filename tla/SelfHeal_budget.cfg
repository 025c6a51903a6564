SPECIFICATION FairSpec
CONSTANTS
  MaxRestarts = 2
  MinInterval = 2
  Window = 4
  MaxDelay = 1
  DiskMayFail = FALSE
  Threshold = 2
  StreakBound = 3
  MaxQuarantine = 2
INVARIANTS
  TypeOK
PROPERTIES
  RefinesBudget
  NeverDarkForever
  StreakNoticed
