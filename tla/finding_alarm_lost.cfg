SPECIFICATION AuditSpec
CONSTANTS
    Processes = {p1, p2}
    Overlapping = FALSE
    Failures = TRUE
    MaxRequests = 2
    MaxRuns = 3
    MaxDamage = 1
SYMMETRY Symmetry
CHECK_DEADLOCK FALSE
INVARIANT AlarmIsRaised
