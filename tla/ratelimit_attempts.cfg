SPECIFICATION Spec
CONSTANTS
    Accounts = {a1}
    Addresses = {d1}
    Limit <- Tight
    WindowMs = 2
    Transactions = {t1, t2, t3}
    Clearing = TRUE
    Pruning = TRUE
    MaxTime = 4
SYMMETRY Symmetry
CHECK_DEADLOCK FALSE
INVARIANT WithinBudget
INVARIANT CountsEveryAttempt
INVARIANT AttemptsNeverDeadlock
