\* Each of these is refuted: leave the one of interest.
SPECIFICATION BothRegimes
CONSTANTS
    Users = {u1}
    NoUser = NoUser
    Challenges = {c1, c2, c3}
    NoChallenge = NoChallenge
    Sids = {s1, s2, s3}
    NoSession = NoSession
    Requests = {r1, r2}
    CodeCount = 1
    ChallengeLife = 2
    Entry = {"signIn", "self", "challenge", "verify", "reset"}
    MaxSecrets = 2
    MaxTime = 3
    ShortTime = 3
    FewSids = 3
SYMMETRY Symmetry
CHECK_DEADLOCK FALSE
PROPERTY ChallengeNeverReplaces
\* PROPERTY ConfirmedIsProved
\* PROPERTY CodeAcceptedOnce
\* INVARIANT ResetEndsItsSessions
\* PROPERTY ReplacedFactorWasPassed
