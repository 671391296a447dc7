SPECIFICATION BothRegimes
CONSTANTS
    Users = {u1, u2}
    NoUser = NoUser
    Sids = {s1, s2}
    NoSession = NoSession
    Requests = {r1, r2}
    GrantSets <- AllOrNothing
    ReauthActions = {"revoke_sessions"}
    ReauthWindow = 1
    Lifetime = 1
    Entry = {"signIn", "rotate", "signOut", "reauthenticate", "revokeOne", "revokeAll", "setOwn", "reset", "crash", "grants", "standing"}
    MaxTime = 1
    MaxPassword = 1
SYMMETRY Symmetry
CHECK_DEADLOCK FALSE
INVARIANT TypeOK
INVARIANT SuccessorMeansEnded
INVARIANT PresentedIdentifierIsDead
PROPERTY OwnPasswordChangeRevokesFirst
PROPERTY RevocationEndsWhatItFound
PROPERTY ImplementsLedger
