SPECIFICATION FairSpec
CONSTANTS
    Processes = {"p1", "p2"}
    Secrets <- OneSecret
    Count = 3
    Needs <- Independent
    Builds <- Releases
    Newest = "new"
    Checksum <- Sums
    Settings <- Binds
    Proper <- Contained
    Claims = {"c1"}
    Forms = {"acme", "bolt"}
    MaxTrouble = 2
CHECK_DEADLOCK FALSE
INVARIANT ServedWhole
INVARIANT KeysAgree
INVARIANT OneInstallation
PROPERTY Settles
