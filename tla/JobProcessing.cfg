SPECIFICATION Spec
CONSTANTS
  MaxEvents = 3
  ChannelCap = 2
  CoalesceMax = 2
  MaxTokens = 2
  RequestTimeout = 4
  NodeDeadline = 6
  UploadMargin = 1
  HttpTimeout = 3
  RetryBase = 1
  RetryMax = 2
  JobTimeout = 9
  MaxDelay = 1
  MaxLinger = 1
  NoOrder = NoOrder
INVARIANTS
  TypeOK
  ServedAsReserved
  OneOutcome
  StreamAccounts
  HealthSignalTrue
  NoLateCompletion
PROPERTIES
  EveryJobReported
CHECK_DEADLOCK FALSE
