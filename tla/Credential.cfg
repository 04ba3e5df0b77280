SPECIFICATION FairSpec
CONSTANTS
    Users = {"owner", "second", "guest"}
    Owner = "owner"
    Passwords = {"pin", "pattern"}
    Credential <- MCCredentialOf
    Keeper <- MCKeeper
    Devices = {"neo8", "nezha"}
    Layouts = {"spblob", "direct", "legacy"}
    Warmup = 2
    MaxPolls = 4
    MaxFailures = 3
    MaxEntries = 3
    MaxCrashes = 1
INVARIANT OnlyWrongCounts
PROPERTIES RightOpens EntryEnds
CHECK_DEADLOCK FALSE
