\* Each of these is refuted: leave the one of interest.
SPECIFICATION Spec
CONSTANTS
    Accounts = {a1}
    Addresses = {d1}
    Limit <- Tight
    WindowMs = 2
    Transactions = {t1, t2}
    Clearing = FALSE
    Pruning = TRUE
    MaxTime = 4
SYMMETRY Symmetry
CHECK_DEADLOCK FALSE
INVARIANT CounterAlwaysAnswers
\* INVARIANT RefusalNamesARelease
\* INVARIANT NoDeadlock
