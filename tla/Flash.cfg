SPECIFICATION Spec
CONSTANTS
    Zips = {"rom", "ota", "theme"}
    Kind <- MCKind
    Ozip = {"ota"}
    Asks <- MCAsks
    QueueSize = 2
    Booted = "A"
    Repacks = {"kernel", "ramdisk"}
    MaxOps = 2
    MaxCrashes = 1
INVARIANT InstalledAsQueued
PROPERTIES ReflashedIsBackup BothSlotsFlashed
