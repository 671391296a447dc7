\* Each of these is refuted: leave the one of interest.
SPECIFICATION BothRegimes
CONSTANTS
    Keys = {k1, k2, k3}
    Absent = Absent
    Torn = Torn
    Commands = {c1, c2}
    MinOverlap = 1
    Overlap = 2
    Faults = {"crash"}
    MaxTime = 5
    ShortTime = 5
SYMMETRY Symmetry
CHECK_DEADLOCK FALSE
PROPERTY HalfRotatedStaysRefused
\* INVARIANT OutgoingOnDisk
\* PROPERTY RotationOverwritesNothing
