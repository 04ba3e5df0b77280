SPECIFICATION FairSpec
CONSTANTS
    List <- MCList
    Blocks = 2
    ForkMayFail = TRUE
INVARIANTS
    SuccessIsComplete
    FailureLeavesNoArchive
PROPERTIES
    CancelHeeded
    Returns
CHECK_DEADLOCK FALSE
