CONSTANTS
    People = {"ann", "bob"}
    Browsers = {"ann"}
    MaxSession = 3
    MaxChallenge = 2
    MaxRequests = 2
    Settings <- Deployments
    Strays <- Others
    Permissions <- Mays
    Patient = TRUE
    AccountLimit = 1
    AddressLimit = 2
    Window = 2
    ChallengeLife = 1
    MaxTrouble = 1
SPECIFICATION Spec
CHECK_DEADLOCK FALSE
INVARIANT OneEntryPerRefusal
