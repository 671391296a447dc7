SPECIFICATION AuditSpec
CONSTANTS
    Processes = {p1, p2, p3}
    Overlapping = FALSE
    Failures = TRUE
    MaxRequests = 2
    MaxRuns = 3
    MaxDamage = 2
SYMMETRY Symmetry
CHECK_DEADLOCK FALSE
INVARIANT NoFalseAlarm
INVARIANT CleanRunVouches
