SPECIFICATION AuditSpec
CONSTANTS
    Processes = {p1, p2, p3}
    Overlapping = TRUE
    Failures = FALSE
    MaxRequests = 1
    MaxRuns = 2
    MaxDamage = 0
SYMMETRY Symmetry
CHECK_DEADLOCK FALSE
INVARIANT NoFalseAlarm
