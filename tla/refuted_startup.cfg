\* Each of these is refuted: leave the one of interest.
SPECIFICATION Spec
CONSTANTS
    Processes = {"p1", "p2"}
    Secrets <- OneSecret
    Count = 3
    Needs <- Independent
    Builds <- Releases
    Newest = "new"
    Checksum <- Sums
    Settings <- Binds
    Proper <- Contained
    Claims = {"c1", "c2"}
    Forms = {"acme", "bolt"}
    MaxTrouble = 1
CHECK_DEADLOCK FALSE
INVARIANT OneOrganization
\* INVARIANT OneSetOfKeys
