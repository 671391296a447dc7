SPECIFICATION DeliverySpec
CONSTANTS
    Envelopes <- Stamped
    Verifiers = {v1, v2}
    MaxValidity = 2
    MaxFutureSkew = 1
    Limit = 1
    PruneEvery = 2
    Faults = {"restart", "writeError", "rewriteError"}
    MaxTime = 3
    MaxLines = 4
    Orders <- Asked
    SigningKeys = {"current", "retired"}
    AcceptedKeys = {"current"}
    Host = "here"
    AgentCatalogue <- Older
    Samples <- Values1
    Encoding <- Bytes
    Ahead = 1
    MaxSigned = 2
    MaxDamaged = 1
SYMMETRY Symmetry
CHECK_DEADLOCK FALSE
INVARIANT TypeOK
INVARIANT MapIsInTheFile
INVARIANT LiveNonceIsKnown
INVARIANT PerformedWasSigned
INVARIANT AcceptedAtMostOnce
