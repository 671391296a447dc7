SPECIFICATION BothRegimes
CONSTANTS
    Users = {u1}
    NoUser = NoUser
    Challenges = {c1, c2}
    NoChallenge = NoChallenge
    Sids = {s1, s2}
    NoSession = NoSession
    Requests = {r1, r2}
    CodeCount = 1
    ChallengeLife = 2
    Entry = {"signIn", "self", "challenge", "verify", "reset", "policy", "removal", "crash"}
    MaxSecrets = 2
    MaxTime = 3
    ShortTime = 2
    FewSids = 2
SYMMETRY Symmetry
CHECK_DEADLOCK FALSE
INVARIANT TypeOK
INVARIANT OneSessionPerChallenge
INVARIANT AcceptedIsSpent
INVARIANT RecoveryCodeOpensOnce
INVARIANT OneRequestResetEndsSessions
