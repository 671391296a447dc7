------------------------------ MODULE TwoFactor ------------------------------
(***************************************************************************)
(* The second factor of one organization: src/src/repo/two_factor.ts, the  *)
(* flows of src/src/auth/two_factor.ts, the accepted window of             *)
(* src/src/auth/totp.ts and the tables of migration 12.                    *)
(*                                                                         *)
(* A password alone yields a challenge, and a challenge is exchanged for a *)
(* session by a code.  Every flow is several transactions: the secret is   *)
(* read in one, the code is verified against it outside of any, and what   *)
(* was verified is written in another.  A transaction that acts on a       *)
(* challenge locks its row first (lockChallenge): here a request whose pc  *)
(* is in LockingPCs is in the middle of such a transaction.                *)
(*                                                                         *)
(* Time is counted in TOTP periods, so the clock is the counter of a code. *)
(***************************************************************************)
EXTENDS Naturals, FiniteSets

CONSTANTS
    Users,          \* people of this organization
    NoUser,         \* "nobody"
    Challenges,     \* challenge tokens a CSPRNG may mint (token = row)
    NoChallenge,    \* a request of a signed-in person
    Sids,           \* session identifiers
    NoSession,      \* "no session"
    Requests,       \* requests in flight at once
    CodeCount,      \* RECOVERY_CODE_COUNT
    ChallengeLife,  \* CHALLENGE_LIFETIME_MS, in periods
    Entry,          \* bound: the entry points and outside changes in play
    MaxSecrets,     \* bound on the number of secrets ever minted
    MaxTime         \* bound on the clock

EntryPoints == {"signIn", "self", "challenge", "verify", "reset", "policy",
                "removal", "crash"}

ASSUME TwoFactorAssumption ==
    /\ NoUser \notin Users /\ NoChallenge \notin Challenges /\ NoSession \notin Sids
    /\ CodeCount \in Nat /\ ChallengeLife \in Nat
    /\ Entry \subseteq EntryPoints
    /\ MaxSecrets \in Nat /\ MaxTime \in Nat

VARIABLES
    policy,     \* organization_security_policies.two_factor_required
    members,    \* memberships
    enrolment,  \* two_factor_enrolments, one row per person
    codes,      \* two_factor_recovery_codes whose used_at is null
    challenge,  \* two_factor_challenges
    session,    \* the sessions these flows mint
    secrets,    \* how many secrets have been minted; a secret is a number
    now,        \* the TOTP counter of the moment
    accepted,   \* history: <<secret, step>> of every code ever accepted
    cleared,    \* history: secrets a completed administrative reset cleared
    req         \* the requests in flight

vars == <<policy, members, enrolment, codes, challenge, session, secrets, now,
          accepted, cleared, req>>

-----------------------------------------------------------------------------
(* Rows and requests *)

NoEnrolment == [state |-> "none", secret |-> 0, used |-> 0]
Enrolment == [state : {"none", "pending", "confirmed"}, secret : Nat, used : Nat]

(* The codes issued when a secret is confirmed; the generation is the       *)
(* secret's number.                                                         *)
CodesOf(g) == {g} \X (1..CodeCount)
RecoveryCode == Nat \X (1..CodeCount)

Challenge == [user : Users \cup {NoUser}, expires : Nat,
              state : {"unissued", "open", "consumed"}]
NoChallengeRow == [user |-> NoUser, expires |-> 0, state |-> "unissued"]

Session == [user : Users \cup {NoUser}, state : {"unissued", "live", "ended"},
            passed : Nat,                       \* history: secret presented
            by : Challenges \cup {NoChallenge}, \* history: what was exchanged
            code : RecoveryCode \cup {<<>>}]    \* history: .. and for which code
NoSessionRow == [user |-> NoUser, state |-> "unissued", passed |-> 0,
                 by |-> NoChallenge, code |-> <<>>]

PCs == {"idle", "demand", "owes", "mint", "self", "enrolWrite", "confirmWrite",
        "redeem", "spend", "resetRevoke"}
LockingPCs == {"enrolWrite", "spend"}

Request == [pc : PCs, user : Users \cup {NoUser},
            ch : Challenges \cup {NoChallenge},
            sess : Sids \cup {NoSession},
            secret : Nat,                   \* the secret that was read
            step : Nat,                     \* the code's counter, or 0
            code : RecoveryCode \cup {<<>>},
            required : BOOLEAN]             \* the policy that was read

Idle == [pc |-> "idle", user |-> NoUser, ch |-> NoChallenge, sess |-> NoSession,
         secret |-> 0, step |-> 0, code |-> <<>>, required |-> FALSE]

TypeOK ==
    /\ policy \in BOOLEAN
    /\ members \subseteq Users
    /\ enrolment \in [Users -> Enrolment]
    /\ codes \in [Users -> SUBSET RecoveryCode]
    /\ challenge \in [Challenges -> Challenge]
    /\ session \in [Sids -> Session]
    /\ secrets \in Nat /\ now \in Nat \ {0}
    /\ accepted \subseteq Nat \X Nat
    /\ cleared \subseteq Nat
    /\ req \in [Requests -> Request]

Init ==
    /\ policy \in BOOLEAN
    /\ members = Users
    /\ enrolment = [u \in Users |-> NoEnrolment]
    /\ codes = [u \in Users |-> {}]
    /\ challenge = [c \in Challenges |-> NoChallengeRow]
    /\ session = [s \in Sids |-> NoSessionRow]
    /\ secrets = 0
    /\ now = 2
    /\ accepted = {}
    /\ cleared = {}
    /\ req = [r \in Requests |-> Idle]

-----------------------------------------------------------------------------
(* Views, locks and the accepted window *)

Confirmed(u) == enrolment[u].state = "confirmed"

LiveChallenge(c) == challenge[c].state = "open" /\ challenge[c].expires > now

LiveSession(s) == session[s].state = "live"

At(r, pc) == req[r].pc = pc

(* The row lock of a challenge is free for r.  A signed-in person's request *)
(* needs none.                                                              *)
Unlocked(r, c) ==
    c # NoChallenge =>
        \A q \in Requests \ {r} : ~(req[q].pc \in LockingPCs /\ req[q].ch = c)

(* resolveSubject: the lock, then the liveness view.                        *)
Resolved(r, c) ==
    /\ Unlocked(r, c)
    /\ c # NoChallenge => LiveChallenge(c)

(* verifyTotp accepts the code of any step this close to now.  A code is    *)
(* named by its secret and its step: what totpCode computes from the two    *)
(* tells them apart.                                                        *)
Window == {now - 1, now, now + 1}

Become(r, q) == req' = [req EXCEPT ![r] = q]
Return(r) == Become(r, Idle)

Consumed(c) ==
    IF c = NoChallenge THEN challenge
    ELSE [challenge EXCEPT ![c].state = "consumed"]

(* INSERT .. ON CONFLICT DO UPDATE: pending, whatever was there.            *)
Pending(u, n) == [state |-> "pending", secret |-> n, used |-> 0]

-----------------------------------------------------------------------------
(* Signing in, as far as the second factor decides it *)

(* demandFor reads the policy in one transaction ..                         *)
SignIn(r, u) ==
    /\ "signIn" \in Entry
    /\ At(r, "idle")
    /\ u \in members
    /\ Become(r, [Idle EXCEPT !.pc = "demand", !.user = u, !.required = policy])
    /\ UNCHANGED <<policy, members, enrolment, codes, challenge, session, secrets,
                   now, accepted, cleared>>

(* .. and the enrolment in the next: enrolled, or required, owes a factor.  *)
Demand(r) ==
    /\ At(r, "demand")
    /\ Become(r, [req[r] EXCEPT !.pc = IF Confirmed(req[r].user) \/ req[r].required
                                       THEN "owes" ELSE "mint"])
    /\ UNCHANGED <<policy, members, enrolment, codes, challenge, session, secrets,
                   now, accepted, cleared>>

(* fault: an expiry computed in the wrong direction *)
IssueExpired(r) ==
    /\ At(r, "owes")
    /\ \E c \in Challenges :
         /\ challenge[c].state = "unissued"
         /\ challenge' = [challenge EXCEPT ![c] =
                            [user |-> req[r].user,
                             expires |-> now - ChallengeLife - 3,
                             state |-> "open"]]
    /\ Return(r)
    /\ UNCHANGED <<policy, members, enrolment, codes, session, secrets, now,
                   accepted, cleared>>

(* issueChallenge; somebody removed meanwhile gets none.                    *)
IssueChallenge(r) ==
    /\ At(r, "owes")
    /\ IF req[r].user \in members
       THEN \E c \in Challenges :
              /\ challenge[c].state = "unissued"
              /\ challenge' = [challenge EXCEPT ![c] =
                                 [user |-> req[r].user,
                                  expires |-> now + ChallengeLife,
                                  state |-> "open"]]
       ELSE UNCHANGED challenge
    /\ Return(r)
    /\ UNCHANGED <<policy, members, enrolment, codes, session, secrets, now,
                   accepted, cleared>>

(* fault: a failed insert is retried until a session is there twice *)
MintTwice(r) ==
    /\ At(r, "mint")
    /\ req[r].user \in members
    /\ \E s \in Sids :
         /\ session[s].state = "unissued"
         /\ session' = [session EXCEPT ![s] =
                          [user |-> req[r].user, state |-> "live",
                           passed |-> req[r].secret, by |-> req[r].ch,
                           code |-> req[r].code]]
    /\ (Return(r) \/ UNCHANGED req)
    /\ UNCHANGED <<policy, members, enrolment, codes, challenge, secrets, now,
                   accepted, cleared>>

(* mintSessionFor, or signIn's own startSession when nothing is owed.       *)
Mint(r) ==
    /\ At(r, "mint")
    /\ IF req[r].user \in members
       THEN \E s \in Sids :
              /\ session[s].state = "unissued"
              /\ session' = [session EXCEPT ![s] =
                               [user |-> req[r].user, state |-> "live",
                                passed |-> req[r].secret, by |-> req[r].ch,
                                code |-> req[r].code]]
       ELSE UNCHANGED session
    /\ Return(r)
    /\ UNCHANGED <<policy, members, enrolment, codes, challenge, secrets, now,
                   accepted, cleared>>

-----------------------------------------------------------------------------
(* Enrolling *)

(* A signed-in person's request: it acts for the session's holder.          *)
Validate(r, s) ==
    /\ "self" \in Entry
    /\ At(r, "idle")
    /\ LiveSession(s)
    /\ Become(r, [Idle EXCEPT !.pc = "self", !.user = session[s].user, !.sess = s])
    /\ UNCHANGED <<policy, members, enrolment, codes, challenge, session, secrets,
                   now, accepted, cleared>>

Enrols(u) ==
    /\ secrets < MaxSecrets
    /\ secrets' = secrets + 1
    /\ enrolment' = IF u \in members
                    THEN [enrolment EXCEPT ![u] = Pending(u, secrets + 1)]
                    ELSE enrolment

(* startEnrolment for the signed-in person replaces whatever is there.      *)
BeginSelf(r) ==
    /\ At(r, "self")
    /\ Enrols(req[r].user)
    /\ Return(r)
    /\ UNCHANGED <<policy, members, codes, challenge, session, now, accepted, cleared>>

(* startEnrolment for a challenge: the confirmed enrolment is looked for in *)
(* one statement, and the row is written by the next.                       *)
Begin(r, c) ==
    /\ "challenge" \in Entry
    /\ At(r, "idle")
    /\ Resolved(r, c)
    /\ ~Confirmed(challenge[c].user)
    /\ Become(r, [Idle EXCEPT !.pc = "enrolWrite", !.user = challenge[c].user, !.ch = c])
    /\ UNCHANGED <<policy, members, enrolment, codes, challenge, session, secrets,
                   now, accepted, cleared>>

BeginWrite(r) ==
    /\ At(r, "enrolWrite")
    /\ Enrols(req[r].user)
    /\ Return(r)
    /\ UNCHANGED <<policy, members, codes, challenge, session, now, accepted, cleared>>

(* The person a confirmation is for, and the challenge it will consume.     *)
Subject(r, c) == IF c = NoChallenge THEN req[r].user ELSE challenge[c].user
MayConfirm(r, c) ==
    IF c = NoChallenge THEN At(r, "self")
    ELSE "challenge" \in Entry /\ At(r, "idle") /\ Resolved(r, c)

(* confirmEnrolment: findPendingEnrolment, then the code is verified        *)
(* against the secret that was read.  A refused code changes nothing.       *)
Confirm(r, c, step) ==
    /\ MayConfirm(r, c)
    /\ enrolment[Subject(r, c)].state = "pending"
    /\ step \in Window
    /\ Become(r, [req[r] EXCEPT !.pc = "confirmWrite", !.user = Subject(r, c),
                                !.ch = c, !.secret = enrolment[Subject(r, c)].secret,
                                !.step = step])
    /\ UNCHANGED <<policy, members, enrolment, codes, challenge, session, secrets,
                   now, accepted, cleared>>

(* fault: the confirming code's counter is not recorded *)
ConfirmForgetsStep(r) ==
    LET u == req[r].user
        n == enrolment[u].secret IN
    /\ At(r, "confirmWrite")
    /\ Resolved(r, req[r].ch) /\ enrolment[u].state = "pending"
    /\ enrolment' = [enrolment EXCEPT ![u] = [@ EXCEPT !.state = "confirmed"]]
    /\ codes' = [codes EXCEPT ![u] = CodesOf(n)]
    /\ challenge' = Consumed(req[r].ch)
    /\ accepted' = accepted \cup {<<req[r].secret, req[r].step>>}
    /\ Become(r, IF req[r].ch = NoChallenge THEN Idle ELSE [req[r] EXCEPT !.pc = "mint"])
    /\ UNCHANGED <<policy, members, session, secrets, now, cleared>>

(* The write is not pinned to the secret that was read: it confirms         *)
(* whatever is pending now, replaces the codes and consumes the challenge.  *)
ConfirmWrite(r) ==
    LET u == req[r].user
        n == enrolment[u].secret IN
    /\ At(r, "confirmWrite")
    /\ Resolved(r, req[r].ch) /\ enrolment[u].state = "pending"
    /\ enrolment' = [enrolment EXCEPT ![u] =
                       [@ EXCEPT !.state = "confirmed", !.used = req[r].step]]
    /\ codes' = [codes EXCEPT ![u] = CodesOf(n)]
    /\ challenge' = Consumed(req[r].ch)
    /\ accepted' = accepted \cup {<<req[r].secret, req[r].step>>}
    /\ Become(r, IF req[r].ch = NoChallenge THEN Idle ELSE [req[r] EXCEPT !.pc = "mint"])
    /\ UNCHANGED <<policy, members, session, secrets, now, cleared>>

ConfirmRefused(r) ==
    /\ At(r, "confirmWrite")
    /\ Unlocked(r, req[r].ch)
    /\ ~Resolved(r, req[r].ch) \/ enrolment[req[r].user].state # "pending"
    /\ Return(r)
    /\ UNCHANGED <<policy, members, enrolment, codes, challenge, session, secrets,
                   now, accepted, cleared>>

-----------------------------------------------------------------------------
(* Verifying *)

(* verifySecondFactor: the confirmed enrolment behind the challenge is read *)
(* and the code judged against it: a TOTP code, or else a recovery code.    *)
Verify(r, c, step, code) ==
    LET u == challenge[c].user IN
    /\ "verify" \in Entry
    /\ At(r, "idle")
    /\ Resolved(r, c)
    /\ Confirmed(u)
    /\ IF code = <<>> THEN step \in Window ELSE step = 0 /\ code \in codes[u]
    /\ Become(r, [Idle EXCEPT !.pc = "redeem", !.user = u, !.ch = c, !.step = step,
                              !.code = code,
                              !.secret = IF code = <<>> THEN enrolment[u].secret
                                                        ELSE code[1]])
    /\ UNCHANGED <<policy, members, enrolment, codes, challenge, session, secrets,
                   now, accepted, cleared>>

(* redeemChallenge: lock, liveness, enrolled; then the factor and the       *)
(* challenge are spent.                                                     *)
Redeem(r) ==
    /\ At(r, "redeem")
    /\ Unlocked(r, req[r].ch)
    /\ Become(r, IF LiveChallenge(req[r].ch) /\ Confirmed(req[r].user)
                 THEN [req[r] EXCEPT !.pc = "spend"] ELSE Idle)
    /\ UNCHANGED <<policy, members, enrolment, codes, challenge, session, secrets,
                   now, accepted, cleared>>

(* fault: the update asks for a code that was issued, not for an unspent one *)
CodeIssued(r) ==
    LET e == enrolment[req[r].user] IN
    IF req[r].code = <<>> THEN e.state = "confirmed" /\ e.used < req[r].step
    ELSE req[r].code \in CodesOf(e.secret)

(* spendFactor's guards: the counter moves forward, the code is unspent.    *)
CodeSpendable(r) ==
    LET e == enrolment[req[r].user] IN
    IF req[r].code = <<>> THEN e.state = "confirmed" /\ e.used < req[r].step
    ELSE req[r].code \in codes[req[r].user]

Spend(r) ==
    LET u == req[r].user IN
    /\ At(r, "spend")
    /\ CodeSpendable(r)
    /\ IF req[r].code = <<>>
       THEN /\ enrolment' = [enrolment EXCEPT ![u] = [@ EXCEPT !.used = req[r].step]]
            /\ accepted' = accepted \cup {<<req[r].secret, req[r].step>>}
            /\ UNCHANGED codes
       ELSE /\ codes' = [codes EXCEPT ![u] = @ \ {req[r].code}]
            /\ UNCHANGED <<enrolment, accepted>>
    /\ challenge' = Consumed(req[r].ch)
    /\ Become(r, [req[r] EXCEPT !.pc = "mint"])
    /\ UNCHANGED <<policy, members, session, secrets, now, cleared>>

(* A replayed or spent code leaves the factor and the challenge intact.     *)
SpendRefused(r) ==
    /\ At(r, "spend")
    /\ ~CodeSpendable(r)
    /\ Return(r)
    /\ UNCHANGED <<policy, members, enrolment, codes, challenge, session, secrets,
                   now, accepted, cleared>>

-----------------------------------------------------------------------------
(* Administration and the rest of the world *)

(* resetMemberSecondFactor, by somebody who holds member.reset_two_factor:  *)
(* the rows go in one transaction ..                                        *)
Reset(r, u) ==
    /\ "reset" \in Entry
    /\ At(r, "idle")
    /\ Become(r, [Idle EXCEPT !.pc = "resetRevoke", !.user = u,
                              !.secret = IF u \in members
                                         THEN enrolment[u].secret ELSE 0])
    /\ IF u \in members
       THEN /\ enrolment' = [enrolment EXCEPT ![u] = NoEnrolment]
            /\ codes' = [codes EXCEPT ![u] = {}]
       ELSE UNCHANGED <<enrolment, codes>>
    /\ UNCHANGED <<policy, members, challenge, session, secrets, now, accepted, cleared>>

(* fault: only the session the factor is enrolled from ends *)
ResetRevokeNothing(r) ==
    /\ At(r, "resetRevoke")
    /\ cleared' = cleared \cup {req[r].secret}
    /\ Return(r)
    /\ UNCHANGED <<policy, members, enrolment, codes, challenge, session, secrets,
                   now, accepted>>

(* .. and the sessions in the next (revokeSessionsOfUser; Sessions.tla has  *)
(* its interleavings).                                                      *)
ResetRevoke(r) ==
    /\ At(r, "resetRevoke")
    /\ session' = [s \in Sids |->
                     IF LiveSession(s) /\ session[s].user = req[r].user
                     THEN [session[s] EXCEPT !.state = "ended"] ELSE session[s]]
    /\ cleared' = IF req[r].secret = 0 THEN cleared ELSE cleared \cup {req[r].secret}
    /\ Return(r)
    /\ UNCHANGED <<policy, members, enrolment, codes, challenge, secrets, now, accepted>>

(* setTwoFactorPolicy, by somebody who holds the permission.                *)
SetPolicy(required) ==
    /\ "policy" \in Entry
    /\ policy' = required
    /\ UNCHANGED <<members, enrolment, codes, challenge, session, secrets, now,
                   accepted, cleared, req>>

RemoveMember(u) ==
    /\ "removal" \in Entry
    /\ members' = members \ {u}
    /\ UNCHANGED <<policy, enrolment, codes, challenge, session, secrets, now,
                   accepted, cleared, req>>

Tick ==
    /\ now < MaxTime
    /\ now' = now + 1
    /\ UNCHANGED <<policy, members, enrolment, codes, challenge, session, secrets,
                   accepted, cleared, req>>

(* The process dies; an open transaction rolls back.                        *)
Crash(r) ==
    /\ "crash" \in Entry
    /\ ~At(r, "idle")
    /\ Return(r)
    /\ UNCHANGED <<policy, members, enrolment, codes, challenge, session, secrets,
                   now, accepted, cleared>>

SignInStep(r) ==
    \/ \E u \in Users : SignIn(r, u)
    \/ Demand(r) \/ IssueChallenge(r) \/ Mint(r)

EnrolStep(r) ==
    \/ \E s \in Sids : Validate(r, s)
    \/ BeginSelf(r) \/ BeginWrite(r)
    \/ \E c \in Challenges : Begin(r, c)
    \/ \E c \in Challenges \cup {NoChallenge}, step \in Window : Confirm(r, c, step)
    \/ ConfirmWrite(r) \/ ConfirmRefused(r)

VerifyStep(r) ==
    \/ \E c \in Challenges, step \in Window : Verify(r, c, step, <<>>)
    \/ \E c \in Challenges : \E code \in UNION {codes[u] : u \in Users} :
          Verify(r, c, 0, code)
    \/ Redeem(r) \/ Spend(r) \/ SpendRefused(r)

ResetStep(r) == (\E u \in Users : Reset(r, u)) \/ ResetRevoke(r)

World ==
    \/ \E required \in BOOLEAN : SetPolicy(required)
    \/ \E u \in Users : RemoveMember(u)
    \/ Tick
    \/ \E r \in Requests : Crash(r)

Next ==
    \/ \E r \in Requests : SignInStep(r) \/ EnrolStep(r) \/ VerifyStep(r) \/ ResetStep(r)
    \/ World

Spec == Init /\ [][Next]_vars
-----------------------------------------------------------------------------
(* Properties of every interleaving *)

(* A challenge is good for one session: it yields at most one, only once it *)
(* is consumed, and a mint still in flight is the only one it will yield.   *)
OneSessionPerChallenge ==
    /\ \A s \in Sids : session[s].by # NoChallenge =>
          challenge[session[s].by].state = "consumed"
    /\ \A s, t \in Sids :
          s # t /\ session[s].by # NoChallenge => session[s].by # session[t].by
    /\ \A r \in Requests : At(r, "mint") /\ req[r].ch # NoChallenge =>
          /\ challenge[req[r].ch].state = "consumed"
          /\ \A s \in Sids : session[s].by # req[r].ch
          /\ \A q \in Requests \ {r} : At(q, "mint") => req[q].ch # req[r].ch

(* While a secret stays enrolled, no code of it that was accepted, by the   *)
(* confirmation or by a sign-in, is acceptable again (migration 12 note 3). *)
AcceptedIsSpent ==
    \A u \in Users : \A code \in accepted :
        Confirmed(u) /\ code[1] = enrolment[u].secret => code[2] <= enrolment[u].used

(* A recovery code lets its holder in once: no two sessions, started or     *)
(* about to be, were opened by the same code, whichever challenges it came  *)
(* with, and a code that opened one is nobody's to spend any more, whatever *)
(* was enrolled, cleared or issued since (spendFactor: "two concurrent      *)
(* attempts cannot both succeed").                                          *)
Opening == {r \in Requests : At(r, "mint") /\ req[r].code # <<>>}
Opened == {s \in Sids : session[s].code # <<>>}
RecoveryCodeOpensOnce ==
    /\ \A s, t \in Opened : session[s].code = session[t].code => s = t
    /\ \A q, r \in Opening : req[q].code = req[r].code => q = r
    /\ \A s \in Opened, r \in Opening : session[s].code # req[r].code
    /\ \A u \in Users : /\ \A s \in Opened : session[s].code \notin codes[u]
                        /\ \A r \in Opening : req[r].code \notin codes[u]

-----------------------------------------------------------------------------
(* Promises the code's comments make.  All but the last hold when one       *)
(* request runs at a time; the last does not even then.                     *)

(* "A challenge may not replace a confirmed enrolment."                     *)
ChallengeNeverReplaces ==
    [][\A r \in Requests : BeginWrite(r) => ~Confirmed(req[r].user)]_vars

(* "The code has to come from the PENDING secret, which is what makes this  *)
(* a proof": what is confirmed is what was proved.                          *)
ConfirmsWhatWasProved ==
    \A r \in Requests :
        ConfirmWrite(r) => req[r].secret = enrolment[req[r].user].secret
ConfirmedIsProved == [][ConfirmsWhatWasProved]_vars

(* "A code that has been used is dead": no code is accepted twice.          *)
SpendsFreshCodes ==
    \A r \in Requests :
        /\ At(r, "spend") /\ req[r].code = <<>> /\ req'[r].pc = "mint"
        => <<req[r].secret, req[r].step>> \notin accepted
CodeAcceptedOnce == [][SpendsFreshCodes]_vars

(* A completed reset leaves no live session that passed the factor it       *)
(* cleared.                                                                 *)
ResetEndsItsSessions ==
    \A s \in Sids : LiveSession(s) => session[s].passed \notin cleared

(* "Holding a session already means having passed the factor being          *)
(* replaced."                                                               *)
ReplacedFactorWasPassed ==
    [][\A r \in Requests :
         BeginSelf(r) /\ Confirmed(req[r].user) =>
           session[req[r].sess].passed = enrolment[req[r].user].secret]_vars
=============================================================================
