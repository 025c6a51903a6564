SPECIFICATION FairSpec
CONSTANTS
  MaxRestarts = 3
  MinInterval = 2
  Window = 6
  MaxDelay = 0
  DiskMayFail = FALSE
  MaxEngineRestarts = 5
  SettleChecks = 2
  MaxSettleChecks = 12
INVARIANTS
  TypeOK
PROPERTIES
  RefinesBudget
  FailedBackendRelaunched
  DownWithdrawn
  DownNotThrashed
