SPECIFICATION BothRegimes
CONSTANTS
    Keys = {k1, k2, k3, k4}
    Absent = Absent
    Torn = Torn
    Commands = {c1, c2}
    MinOverlap = 1
    Overlap = 2
    Faults = {"crash", "slow", "force"}
    MaxTime = 12
    ShortTime = 8
SYMMETRY Symmetry
CHECK_DEADLOCK FALSE
INVARIANT TypeOK
INVARIANT RetiredInTime
INVARIANT OneCommandKeepsOutgoing
