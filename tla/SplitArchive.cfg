SPECIFICATION ArchiveFairSpec
CONSTANTS
    MaxArchive = 1
    BackupLast = 2
    RestoreLast = 1
    MaxCores = 2
    MaxItems = 3
    MaxTotal = 4
INVARIANTS
    DivisionFits
    RestoredIsSaved
PROPERTY WorkEnds
CHECK_DEADLOCK FALSE
