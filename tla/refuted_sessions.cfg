\* Each of these is refuted: leave the one of interest.
SPECIFICATION BothRegimes
CONSTANTS
    Users = {u1, u2}
    NoUser = NoUser
    Sids = {s1, s2, s3}
    NoSession = NoSession
    Requests = {r1, r2}
    GrantSets <- AllOrNothing
    ReauthActions = {"revoke_sessions"}
    ReauthWindow = 1
    Lifetime = 2
    Entry = {"signIn", "rotate", "signOut", "revokeAll", "setOwn", "reset"}
    MaxTime = 1
    MaxPassword = 1
SYMMETRY Symmetry
CHECK_DEADLOCK FALSE
INVARIANT FreshnessIsProved
\* PROPERTY EndIsRecordedOnce
\* PROPERTY NoSessionLeftBehind
\* PROPERTY OldPasswordSessionsDie
\* PROPERTY DeniedResetChangesNothing
