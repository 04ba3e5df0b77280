SPECIFICATION Spec
CONSTANTS
    p1 = p1
    i1 = i1
    i2 = i2
    OsKey = os
    TmpPath = tmp
    None = None
    MaxCrashes = 1
    KeyPaths <- OnePath
    Inodes <- TwoStores
SYMMETRY TwoStoresSymmetry
INVARIANTS
    KeysComplete
    DestroyedStaysDestroyed
PROPERTY ImplementsAtomicStore
CHECK_DEADLOCK FALSE
