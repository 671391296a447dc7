SPECIFICATION BothRegimes
CONSTANTS
    Users = {u1}
    NoUser = NoUser
    Sids = {s1, s2, s3}
    NoSession = NoSession
    Requests = {r1, r2}
    GrantSets <- AllOrNothing
    ReauthActions = {}
    ReauthWindow = 1
    Lifetime = 1
    Entry = {"signIn", "rotate"}
    MaxTime = 0
    MaxPassword = 1
SYMMETRY Symmetry
CHECK_DEADLOCK FALSE
INVARIANT OneLiveSuccessor
