CONSTANTS
    LastUser = 1
    Devices <- MCDevices
    MaxList = 6
    MaxNest = 3
    MaxRestarts = 2
SPECIFICATION FairSpec
INVARIANTS
    ScriptsOnOpenData
    FlagsTrue
PROPERTIES
    AllDecryptedIsTrue
    KnownCredentialReturns
CHECK_DEADLOCK FALSE
