\* Each of these is refuted: leave the one of interest.
SPECIFICATION Spec
CONSTANTS
    Envelopes <- Stream
    Verifiers = {v1, v2}
    MaxValidity = 4
    MaxFutureSkew = 1
    Limit = 2
    PruneEvery = 3
    Faults = {"restart", "tornWrite"}
    MaxTime = 6
    MaxLines = 9
SYMMETRY Symmetry
CHECK_DEADLOCK FALSE
INVARIANT LiveNonceIsKnown
\* INVARIANT AcceptedOnce
\* INVARIANT FileIsBounded
