SPECIFICATION AuditSpec
CONSTANTS
    Processes = {p1, p2}
    Overlapping = FALSE
    Failures = FALSE
    MaxRequests = 3
    MaxRuns = 2
    MaxDamage = 1
SYMMETRY Symmetry
CHECK_DEADLOCK FALSE
INVARIANT CleanRunKeepsHead
