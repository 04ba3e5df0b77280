SPECIFICATION FairSpec
CONSTANTS
    StopPolls = 1
    StartPolls = 2
    AllowStockRetry = TRUE
    MaxCrashes = 1
INVARIANTS
    EnvApplied
    CeInMetadataEnv
    UnwrapOnFreshCopy
PROPERTY RequestReturns
CHECK_DEADLOCK FALSE
