CONSTANTS
    Words <- MCWords
    RecoveryFstab <- MCRecoveryFstab
    FlagsFile <- MCFlagsFile
    VendorFstabs <- MCVendorFstabs
    Uncertain = {"odm", "userdata", "rannki"}
    FstabIn = {"vendor"}
    Profiles <- MCProfiles
SPECIFICATION FairSpec
INVARIANTS
    PointersLive
    VendorDecides
    LogicalIsMapped
    StoragesApart
PROPERTIES
    StartupEnds
CHECK_DEADLOCK FALSE
