SPECIFICATION ChainFairSpec
CONSTANTS
    StableNeeded = 2
    PollLimit = 3
    WeaverAttempts = 2
    Limit <- MCLimit
    Grace = 1
    MaxRestarts = 2
    MaxCrashes = 2
INVARIANT ChainOrder
PROPERTIES
    VerifyBeginsUp
    HookReturns
CHECK_DEADLOCK FALSE
