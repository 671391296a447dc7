-------------------------- MODULE TwoFactorProofs --------------------------
(***************************************************************************)
(* Proofs about TwoFactor.tla, for any people, challenges, identifiers and *)
(* overlapping requests, and any bounds on the clock and the secrets; and  *)
(* about the promise that MCTwoFactor checks where requests do not         *)
(* overlap.                                                                *)
(***************************************************************************)
EXTENDS MCTwoFactor, TLAPS

USE TwoFactorAssumption

-----------------------------------------------------------------------------
(* The invariant *)

(* Rows and requests name the people and challenges they are about.        *)
NamesOf(q) ==
    /\ q.pc \in {"self", "confirmWrite", "redeem", "spend"} => q.user \in Users
    /\ q.pc \in {"redeem", "spend"} => q.ch \in Challenges
    /\ q.pc = "demand" => q.ch = NoChallenge

Named ==
    /\ \A c \in Challenges : challenge[c].state = "open" => challenge[c].user \in Users
    /\ \A s \in Sids : LiveSession(s) => session[s].user \in Users
    /\ \A r \in Requests : NamesOf(req[r])

(* A challenge that is being spent is still open, and by one request: this *)
(* is what its row lock is for.                                            *)
SpendsOpen ==
    \A r \in Requests : At(r, "spend") =>
        /\ challenge[req[r].ch].state = "open"
        /\ \A q \in Requests \ {r} : At(q, "spend") => req[q].ch # req[r].ch

(* A secret is one person's, and so is a code of it that was read and is   *)
(* about to be accepted; once accepted, a code belongs to a secret that is *)
(* confirmed and has counted it, or that nobody is enrolled with any more. *)
Enrolled(u) == enrolment[u].state # "none"
Proves(q) == q.pc = "confirmWrite" \/ (q.pc \in {"redeem", "spend"} /\ q.code = <<>>)
ProvesOwn(q) ==
    Proves(q) => /\ q.secret <= secrets
                 /\ \A u \in Users \ {q.user} : Enrolled(u) => enrolment[u].secret # q.secret

OwnSecrets ==
    /\ \A u \in Users : Enrolled(u) => enrolment[u].secret <= secrets
    /\ \A u, v \in Users : u # v /\ Enrolled(u) /\ Enrolled(v) =>
          enrolment[u].secret # enrolment[v].secret
    /\ \A r \in Requests : ProvesOwn(req[r])
    /\ \A code \in accepted :
          /\ code[1] <= secrets
          /\ \A u \in Users : Enrolled(u) /\ enrolment[u].secret = code[1] =>
                Confirmed(u) /\ code[2] <= enrolment[u].used

IInv == TypeOK /\ Named /\ SpendsOpen /\ OneSessionPerChallenge /\ OwnSecrets

-----------------------------------------------------------------------------
(* Types *)

LEMMA IdleIsRequest == Idle \in Request
  BY DEF Idle, Request, PCs

LEMMA GoesOn ==
    ASSUME NEW q \in Request, NEW pc \in PCs
    PROVE  [q EXCEPT !.pc = pc] \in Request
  BY DEF Request

LEMMA ReturnType ==
    ASSUME TypeOK, NEW r \in Requests, Return(r)
    PROVE  req' \in [Requests -> Request]
  BY IdleIsRequest DEF Return, Become, TypeOK

LEMMA BecomeType ==
    ASSUME TypeOK, NEW r \in Requests, NEW q \in Request, Become(r, q)
    PROVE  req' \in [Requests -> Request]
  BY DEF Become, TypeOK

LEMMA ConsumedType ==
    ASSUME TypeOK, NEW c \in Challenges \cup {NoChallenge}
    PROVE  Consumed(c) \in [Challenges -> Challenge]
<1>1. ASSUME NEW d \in Challenges PROVE [challenge[d] EXCEPT !.state = "consumed"] \in Challenge
  BY DEF TypeOK, Challenge
<1> QED BY <1>1 DEF Consumed, TypeOK

LEMMA EnrolsType ==
    ASSUME TypeOK, NEW u, Enrols(u)
    PROVE  enrolment' \in [Users -> Enrolment] /\ secrets' \in Nat
<1>1. secrets \in Nat /\ Pending(u, secrets + 1) \in Enrolment
  BY DEF TypeOK, Pending, Enrolment
<1> QED BY <1>1 DEF Enrols, TypeOK

LEMMA SignInType ==
    ASSUME TypeOK, NEW r \in Requests, SignInStep(r) PROVE TypeOK'
<1>1. ASSUME NEW u \in Users, SignIn(r, u) PROVE TypeOK'
  <2>1. [Idle EXCEPT !.pc = "demand", !.user = u, !.required = policy] \in Request
    BY DEF TypeOK, Idle, Request, PCs
  <2> QED BY <1>1, <2>1, BecomeType DEF SignIn, TypeOK
<1>2. CASE Demand(r)
  <2> DEFINE pc == IF Confirmed(req[r].user) \/ req[r].required THEN "owes" ELSE "mint"
  <2>1. pc \in PCs /\ req[r] \in Request
    BY DEF PCs, TypeOK
  <2> HIDE DEF pc
  <2>2. [req[r] EXCEPT !.pc = pc] \in Request
    BY <2>1, GoesOn
  <2>3. Become(r, [req[r] EXCEPT !.pc = pc])
    BY <1>2 DEF Demand, pc
  <2> QED BY <1>2, <2>2, <2>3, BecomeType DEF Demand, TypeOK
<1>3. CASE IssueChallenge(r)
  <2>1. req[r].user \in Users \cup {NoUser} /\ now + ChallengeLife \in Nat
    BY DEF TypeOK, Request
  <2>2. challenge' \in [Challenges -> Challenge]
    BY <1>3, <2>1 DEF IssueChallenge, TypeOK, Challenge
  <2> QED BY <1>3, <2>2, ReturnType DEF IssueChallenge, TypeOK
<1>4. CASE Mint(r)
  <2>1. [user |-> req[r].user, state |-> "live", passed |-> req[r].secret, by |-> req[r].ch,
         code |-> req[r].code] \in Session
    BY DEF TypeOK, Request, Session
  <2>2. session' \in [Sids -> Session]
    BY <1>4, <2>1 DEF Mint, TypeOK
  <2> QED BY <1>4, <2>2, ReturnType DEF Mint, TypeOK
<1> QED BY <1>1, <1>2, <1>3, <1>4 DEF SignInStep

(* A request that read a secret to confirm it knows the code's counter.    *)
LEMMA ConfirmReads ==
    ASSUME NEW q \in Request, NEW u \in Users, NEW c \in Challenges \cup {NoChallenge},
           NEW n \in Nat, NEW step \in Nat
    PROVE  [q EXCEPT !.pc = "confirmWrite", !.user = u, !.ch = c, !.secret = n, !.step = step]
           \in Request
<1>1. "confirmWrite" \in PCs
  BY DEF PCs
<1> QED BY <1>1 DEF Request

LEMMA SubjectIsNamed ==
    ASSUME TypeOK, Named, NEW r \in Requests, NEW c \in Challenges \cup {NoChallenge},
           MayConfirm(r, c)
    PROVE  Subject(r, c) \in Users
<1>1. CASE c = NoChallenge
  BY <1>1 DEF MayConfirm, Subject, At, Named, NamesOf
<1>2. CASE c # NoChallenge
  BY <1>2 DEF MayConfirm, Subject, Resolved, LiveChallenge, Named
<1> QED BY <1>1, <1>2

LEMMA EnrolType ==
    ASSUME TypeOK, Named, NEW r \in Requests, EnrolStep(r) PROVE TypeOK'
<1>1. ASSUME NEW s \in Sids, Validate(r, s) PROVE TypeOK'
  <2>1. session[s].user \in Users \cup {NoUser}
    BY DEF TypeOK, Session
  <2>2. [Idle EXCEPT !.pc = "self", !.user = session[s].user, !.sess = s] \in Request
    BY <2>1 DEF Idle, Request, PCs
  <2> QED BY <1>1, <2>2, BecomeType DEF Validate, TypeOK
<1>2. CASE BeginSelf(r)
  BY <1>2, EnrolsType, ReturnType DEF BeginSelf, TypeOK
<1>3. CASE BeginWrite(r)
  BY <1>3, EnrolsType, ReturnType DEF BeginWrite, TypeOK
<1>4. ASSUME NEW c \in Challenges, Begin(r, c) PROVE TypeOK'
  <2>1. challenge[c].user \in Users \cup {NoUser}
    BY DEF TypeOK, Challenge
  <2>2. [Idle EXCEPT !.pc = "enrolWrite", !.user = challenge[c].user, !.ch = c] \in Request
    BY <2>1 DEF Idle, Request, PCs
  <2> QED BY <1>4, <2>2, BecomeType DEF Begin, TypeOK
<1>5. ASSUME NEW c \in Challenges \cup {NoChallenge}, NEW step \in Window, Confirm(r, c, step)
      PROVE  TypeOK'
  <2>1. Subject(r, c) \in Users
    BY <1>5, SubjectIsNamed DEF Confirm
  <2>2. req[r] \in Request /\ enrolment[Subject(r, c)].secret \in Nat /\ step \in Nat
    BY <2>1 DEF TypeOK, Enrolment, Window
  <2>3. [req[r] EXCEPT !.pc = "confirmWrite", !.user = Subject(r, c), !.ch = c,
                       !.secret = enrolment[Subject(r, c)].secret, !.step = step] \in Request
    BY <2>1, <2>2, ConfirmReads
  <2> QED BY <1>5, <2>3, BecomeType DEF Confirm, TypeOK
<1>6. CASE ConfirmWrite(r)
  <2> DEFINE u == req[r].user
             e == [enrolment[u] EXCEPT !.state = "confirmed", !.used = req[r].step]
  <2>1. u \in Users /\ req[r] \in Request
    BY <1>6 DEF ConfirmWrite, At, Named, NamesOf, TypeOK
  <2>2. enrolment[u] \in Enrolment /\ req[r].step \in Nat /\ req[r].secret \in Nat
        /\ req[r].ch \in Challenges \cup {NoChallenge}
    BY <2>1 DEF TypeOK, Request
  <2>3. e \in Enrolment
    BY <2>2 DEF Enrolment
  <2>4. CodesOf(enrolment[u].secret) \in SUBSET RecoveryCode
    BY <2>2 DEF CodesOf, RecoveryCode, Enrolment
  <2>5. challenge' \in [Challenges -> Challenge]
    BY <1>6, <2>2, ConsumedType DEF ConfirmWrite
  <2>6. req' \in [Requests -> Request]
    <3>1. [req[r] EXCEPT !.pc = "mint"] \in Request
      BY <2>1, GoesOn DEF PCs
    <3> QED BY <1>6, <3>1, IdleIsRequest, BecomeType DEF ConfirmWrite
  <2>7. enrolment' \in [Users -> Enrolment] /\ codes' \in [Users -> SUBSET RecoveryCode]
    BY <1>6, <2>1, <2>3, <2>4 DEF ConfirmWrite, TypeOK
  <2>8. accepted' \subseteq Nat \X Nat
    BY <1>6, <2>2 DEF ConfirmWrite, TypeOK
  <2> QED BY <1>6, <2>5, <2>6, <2>7, <2>8 DEF ConfirmWrite, TypeOK
<1>7. CASE ConfirmRefused(r)
  BY <1>7, ReturnType DEF ConfirmRefused, TypeOK
<1> QED BY <1>1, <1>2, <1>3, <1>4, <1>5, <1>6, <1>7 DEF EnrolStep

LEMMA VerifyType ==
    ASSUME TypeOK, Named, NEW r \in Requests, VerifyStep(r) PROVE TypeOK'
<1>1. ASSUME NEW c \in Challenges, NEW step \in Nat, NEW code \in RecoveryCode \cup {<<>>},
             Verify(r, c, step, code)
      PROVE  TypeOK'
  <2> DEFINE u == challenge[c].user
             n == IF code = <<>> THEN enrolment[u].secret ELSE code[1]
  <2>1. u \in Users
    BY <1>1 DEF Verify, Resolved, LiveChallenge, Named, TwoFactorAssumption
  <2>2. n \in Nat
    BY <2>1 DEF TypeOK, Enrolment, RecoveryCode
  <2>3. ASSUME NEW m \in Nat
        PROVE  [Idle EXCEPT !.pc = "redeem", !.user = u, !.ch = c, !.step = step,
                            !.code = code, !.secret = m] \in Request
    <3> HIDE DEF u
    <3> QED BY <2>1 DEF Idle, Request, PCs
  <2>4. Become(r, [Idle EXCEPT !.pc = "redeem", !.user = u, !.ch = c, !.step = step,
                               !.code = code, !.secret = n])
    BY <1>1 DEF Verify
  <2> QED BY <1>1, <2>2, <2>3, <2>4, BecomeType DEF Verify, TypeOK
<1>2. ASSUME NEW c \in Challenges, NEW step \in Window, Verify(r, c, step, <<>>) PROVE TypeOK'
  <2>1. step \in Nat
    BY DEF Window, TypeOK
  <2> QED BY <1>1, <1>2, <2>1
<1>3. ASSUME NEW c \in Challenges, NEW code \in UNION {codes[u] : u \in Users},
             Verify(r, c, 0, code)
      PROVE  TypeOK'
  <2>1. code \in RecoveryCode
    BY DEF TypeOK
  <2> QED BY <1>1, <1>3, <2>1
<1>4. CASE Redeem(r)
  <2>1. [req[r] EXCEPT !.pc = "spend"] \in Request
    BY GoesOn DEF PCs, TypeOK
  <2> QED BY <1>4, <2>1, IdleIsRequest, BecomeType DEF Redeem, TypeOK
<1>5. CASE Spend(r)
  <2> DEFINE u == req[r].user
  <2>1. u \in Users /\ req[r] \in Request
    BY <1>5 DEF Spend, At, Named, NamesOf, TypeOK
  <2>2. enrolment[u] \in Enrolment /\ req[r].step \in Nat /\ req[r].secret \in Nat
        /\ req[r].ch \in Challenges \cup {NoChallenge}
    BY <2>1 DEF TypeOK, Request
  <2>3. [enrolment[u] EXCEPT !.used = req[r].step] \in Enrolment
    BY <2>2 DEF Enrolment
  <2>4. [req[r] EXCEPT !.pc = "mint"] \in Request
    BY <2>1, GoesOn DEF PCs
  <2>5. req' \in [Requests -> Request] /\ challenge' \in [Challenges -> Challenge]
    BY <1>5, <2>2, <2>4, BecomeType, ConsumedType DEF Spend
  <2>6. enrolment' \in [Users -> Enrolment] /\ accepted' \subseteq Nat \X Nat
    BY <1>5, <2>2, <2>3 DEF Spend, TypeOK
  <2>7. codes' \in [Users -> SUBSET RecoveryCode]
    BY <1>5, <2>1 DEF Spend, TypeOK
  <2> QED BY <1>5, <2>5, <2>6, <2>7 DEF Spend, TypeOK
<1>6. CASE SpendRefused(r)
  BY <1>6, ReturnType DEF SpendRefused, TypeOK
<1> QED BY <1>2, <1>3, <1>4, <1>5, <1>6 DEF VerifyStep

LEMMA ResetType ==
    ASSUME TypeOK, NEW r \in Requests, ResetStep(r) PROVE TypeOK'
<1>1. ASSUME NEW u \in Users, Reset(r, u) PROVE TypeOK'
  <2> DEFINE n == IF u \in members THEN enrolment[u].secret ELSE 0
  <2>1. n \in Nat
    BY DEF TypeOK, Enrolment
  <2> HIDE DEF n
  <2>2. [Idle EXCEPT !.pc = "resetRevoke", !.user = u, !.secret = n] \in Request
    BY <2>1 DEF Idle, Request, PCs
  <2>3. Become(r, [Idle EXCEPT !.pc = "resetRevoke", !.user = u, !.secret = n])
    BY <1>1 DEF Reset, n
  <2>4. enrolment' \in [Users -> Enrolment] /\ codes' \in [Users -> SUBSET RecoveryCode]
    BY <1>1 DEF Reset, TypeOK, NoEnrolment, Enrolment
  <2> QED BY <1>1, <2>2, <2>3, <2>4, BecomeType DEF Reset, TypeOK
<1>2. CASE ResetRevoke(r)
  <2>1. ASSUME NEW s \in Sids PROVE [session[s] EXCEPT !.state = "ended"] \in Session
    BY DEF TypeOK, Session
  <2>2. session' \in [Sids -> Session]
    BY <1>2, <2>1 DEF ResetRevoke, TypeOK
  <2>3. cleared' \subseteq Nat
    BY <1>2 DEF ResetRevoke, TypeOK, Request
  <2> QED BY <1>2, <2>2, <2>3, ReturnType DEF ResetRevoke, TypeOK
<1> QED BY <1>1, <1>2 DEF ResetStep

LEMMA WorldType == ASSUME TypeOK, World PROVE TypeOK'
<1>1. ASSUME NEW required \in BOOLEAN, SetPolicy(required) PROVE TypeOK'
  BY <1>1 DEF SetPolicy, TypeOK
<1>2. ASSUME NEW u \in Users, RemoveMember(u) PROVE TypeOK'
  BY <1>2 DEF RemoveMember, TypeOK
<1>3. CASE Tick
  BY <1>3 DEF Tick, TypeOK
<1>4. ASSUME NEW r \in Requests, Crash(r) PROVE TypeOK'
  BY <1>4, ReturnType DEF Crash, TypeOK
<1> QED BY <1>1, <1>2, <1>3, <1>4 DEF World

-----------------------------------------------------------------------------
(* Names *)

LEMMA NamesMove ==
    ASSUME TypeOK, Named, NEW r \in Requests, NEW q, Become(r, q), NamesOf(q)
    PROVE  \A x \in Requests : NamesOf(req'[x])
<1> TAKE x \in Requests
<1>1. req'[x] = IF x = r THEN q ELSE req[x]
  BY DEF Become, TypeOK
<1> QED BY <1>1 DEF Named

LEMMA NamesReturn ==
    ASSUME TypeOK, Named, NEW r \in Requests, Return(r)
    PROVE  \A x \in Requests : NamesOf(req'[x])
<1>1. NamesOf(Idle)
  BY DEF NamesOf, Idle
<1> QED BY <1>1, NamesMove DEF Return

(* What is open stays named, whoever consumes what.                        *)
LEMMA ConsumedIsNamed ==
    ASSUME TypeOK, Named, NEW c, challenge' = Consumed(c)
    PROVE  \A d \in Challenges : challenge'[d].state = "open" =>
              challenge[d].state = "open" /\ challenge'[d] = challenge[d]
<1> TAKE d \in Challenges
<1>1. challenge[d] \in Challenge
  BY DEF TypeOK
<1>2. CASE c = NoChallenge
  BY <1>2 DEF Consumed
<1>3. CASE c # NoChallenge
  <2>1. challenge' = [challenge EXCEPT ![c].state = "consumed"]
    BY <1>3 DEF Consumed
  <2>2. CASE d = c
    <3>1. challenge'[d].state = "consumed"
      BY <1>1, <2>1, <2>2 DEF TypeOK, Challenge
    <3> QED BY <3>1
  <2>3. CASE d # c
    BY <2>1, <2>3 DEF TypeOK
  <2> QED BY <2>2, <2>3
<1> QED BY <1>2, <1>3

LEMMA StepKeepsNamed ==
    ASSUME TypeOK, Named, NEW r \in Requests,
           SignInStep(r) \/ EnrolStep(r) \/ VerifyStep(r) \/ ResetStep(r)
    PROVE  Named'
<1>1. ASSUME NEW u \in Users, SignIn(r, u) PROVE Named'
  <2>1. NamesOf([Idle EXCEPT !.pc = "demand", !.user = u, !.required = policy])
    BY DEF NamesOf, Idle
  <2>2. UNCHANGED <<challenge, session>>
        /\ Become(r, [Idle EXCEPT !.pc = "demand", !.user = u, !.required = policy])
    BY <1>1 DEF SignIn
  <2> QED BY <2>1, <2>2, NamesMove DEF Named, LiveSession
<1>2. CASE Demand(r)
  <2>1. NamesOf([req[r] EXCEPT !.pc = IF Confirmed(req[r].user) \/ req[r].required
                                      THEN "owes" ELSE "mint"])
    BY DEF NamesOf, TypeOK, Request
  <2>2. UNCHANGED <<challenge, session>>
        /\ Become(r, [req[r] EXCEPT !.pc = IF Confirmed(req[r].user) \/ req[r].required
                                           THEN "owes" ELSE "mint"])
    BY <1>2 DEF Demand
  <2> QED BY <2>1, <2>2, NamesMove DEF Named, LiveSession
<1>3. CASE IssueChallenge(r)
  <2>1. Return(r) /\ UNCHANGED session
    BY <1>3 DEF IssueChallenge
  <2>2. \A c \in Challenges : challenge'[c].state = "open" => challenge'[c].user \in Users
    BY <1>3 DEF IssueChallenge, Named, TypeOK
  <2> QED BY <2>1, <2>2, NamesReturn DEF Named, LiveSession
<1>4. CASE Mint(r)
  <2>1. Return(r) /\ UNCHANGED challenge
    BY <1>4 DEF Mint
  <2>2. \A s \in Sids : session'[s].state = "live" => session'[s].user \in Users
    BY <1>4 DEF Mint, Named, TypeOK, LiveSession
  <2> QED BY <2>1, <2>2, NamesReturn DEF Named, LiveSession
<1>5. ASSUME NEW s \in Sids, Validate(r, s) PROVE Named'
  <2>1. NamesOf([Idle EXCEPT !.pc = "self", !.user = session[s].user, !.sess = s])
    BY <1>5 DEF NamesOf, Idle, Validate, Named
  <2>2. UNCHANGED <<challenge, session>>
        /\ Become(r, [Idle EXCEPT !.pc = "self", !.user = session[s].user, !.sess = s])
    BY <1>5 DEF Validate
  <2> QED BY <2>1, <2>2, NamesMove DEF Named, LiveSession
<1>6. CASE BeginSelf(r) \/ BeginWrite(r) \/ ConfirmRefused(r) \/ SpendRefused(r)
  <2>1. Return(r) /\ UNCHANGED <<challenge, session>>
    BY <1>6 DEF BeginSelf, BeginWrite, ConfirmRefused, SpendRefused
  <2> QED BY <2>1, NamesReturn DEF Named, LiveSession
<1>7. ASSUME NEW c \in Challenges, Begin(r, c) PROVE Named'
  <2>1. NamesOf([Idle EXCEPT !.pc = "enrolWrite", !.user = challenge[c].user, !.ch = c])
    BY DEF NamesOf, Idle
  <2>2. UNCHANGED <<challenge, session>>
        /\ Become(r, [Idle EXCEPT !.pc = "enrolWrite", !.user = challenge[c].user, !.ch = c])
    BY <1>7 DEF Begin
  <2> QED BY <2>1, <2>2, NamesMove DEF Named, LiveSession
<1>8. ASSUME NEW c \in Challenges \cup {NoChallenge}, NEW step \in Window, Confirm(r, c, step)
      PROVE  Named'
  <2> DEFINE u == Subject(r, c)
             q == [req[r] EXCEPT !.pc = "confirmWrite", !.user = u, !.ch = c,
                                 !.secret = enrolment[u].secret, !.step = step]
  <2>1. u \in Users
    BY <1>8, SubjectIsNamed DEF Confirm
  <2>2. NamesOf(q)
    <3> HIDE DEF u
    <3> QED BY <2>1 DEF NamesOf, TypeOK, Request
  <2>3. UNCHANGED <<challenge, session>> /\ Become(r, q)
    BY <1>8 DEF Confirm
  <2> HIDE DEF q
  <2> QED BY <2>2, <2>3, NamesMove DEF Named, LiveSession
<1>9. CASE ConfirmWrite(r)
  <2> DEFINE q == IF req[r].ch = NoChallenge THEN Idle ELSE [req[r] EXCEPT !.pc = "mint"]
  <2>1. NamesOf(q)
    BY DEF NamesOf, TypeOK, Request, Idle
  <2>2. UNCHANGED session /\ Become(r, q) /\ challenge' = Consumed(req[r].ch)
    BY <1>9 DEF ConfirmWrite
  <2> HIDE DEF q
  <2> QED BY <2>1, <2>2, NamesMove, ConsumedIsNamed DEF Named, LiveSession
<1>10. ASSUME NEW c \in Challenges, NEW step, NEW code, Verify(r, c, step, code) PROVE Named'
  <2> DEFINE u == challenge[c].user
             n == IF code = <<>> THEN enrolment[u].secret ELSE code[1]
             q == [Idle EXCEPT !.pc = "redeem", !.user = u, !.ch = c, !.step = step,
                               !.code = code, !.secret = n]
  <2>1. u \in Users
    BY <1>10 DEF Verify, Resolved, LiveChallenge, Named, TwoFactorAssumption
  <2>2. NamesOf(q)
    <3> HIDE DEF u, n
    <3> QED BY <2>1 DEF NamesOf, Idle
  <2>3. UNCHANGED <<challenge, session>> /\ Become(r, q)
    BY <1>10 DEF Verify
  <2> HIDE DEF q
  <2> QED BY <2>2, <2>3, NamesMove DEF Named, LiveSession
<1>11. CASE Redeem(r)
  <2> DEFINE q == IF LiveChallenge(req[r].ch) /\ Confirmed(req[r].user)
                  THEN [req[r] EXCEPT !.pc = "spend"] ELSE Idle
  <2>1. NamesOf(q)
    BY <1>11 DEF NamesOf, TypeOK, Request, Idle, Redeem, At, Named
  <2>2. UNCHANGED <<challenge, session>> /\ Become(r, q)
    BY <1>11 DEF Redeem
  <2> HIDE DEF q
  <2> QED BY <2>1, <2>2, NamesMove DEF Named, LiveSession
<1>12. CASE Spend(r)
  <2>1. NamesOf([req[r] EXCEPT !.pc = "mint"])
    BY DEF NamesOf, TypeOK, Request
  <2>2. UNCHANGED session /\ Become(r, [req[r] EXCEPT !.pc = "mint"])
        /\ challenge' = Consumed(req[r].ch)
    BY <1>12 DEF Spend
  <2> QED BY <2>1, <2>2, NamesMove, ConsumedIsNamed DEF Named, LiveSession
<1>13. ASSUME NEW u \in Users, Reset(r, u) PROVE Named'
  <2> DEFINE n == IF u \in members THEN enrolment[u].secret ELSE 0
  <2>1. NamesOf([Idle EXCEPT !.pc = "resetRevoke", !.user = u, !.secret = n])
    BY DEF NamesOf, Idle
  <2>2. UNCHANGED <<challenge, session>>
        /\ Become(r, [Idle EXCEPT !.pc = "resetRevoke", !.user = u, !.secret = n])
    BY <1>13 DEF Reset
  <2> HIDE DEF n
  <2> QED BY <2>1, <2>2, NamesMove DEF Named, LiveSession
<1>14. CASE ResetRevoke(r)
  <2>1. Return(r) /\ UNCHANGED challenge
    BY <1>14 DEF ResetRevoke
  <2>2. ASSUME NEW s \in Sids, session'[s].state = "live" PROVE session'[s].user \in Users
    <3>1. session[s] \in Session
      BY DEF TypeOK
    <3>2. session'[s] = session[s]
      BY <1>14, <2>2, <3>1 DEF ResetRevoke, Session
    <3> QED BY <2>2, <3>2 DEF Named, LiveSession
  <2> QED BY <2>1, <2>2, NamesReturn DEF Named, LiveSession
<1> QED
  BY <1>1, <1>2, <1>3, <1>4, <1>5, <1>6, <1>7, <1>8, <1>9, <1>10, <1>11, <1>12, <1>13, <1>14
  DEF SignInStep, EnrolStep, VerifyStep, ResetStep

LEMMA WorldKeepsNamed == ASSUME TypeOK, Named, World PROVE Named'
<1>1. CASE \E r \in Requests : Crash(r)
  <2>1. PICK r \in Requests : Crash(r)
    BY <1>1
  <2>2. Return(r) /\ UNCHANGED <<challenge, session>>
    BY <2>1 DEF Crash
  <2> QED BY <2>2, NamesReturn DEF Named, LiveSession
<1>2. CASE UNCHANGED <<challenge, session, req>>
  BY <1>2 DEF Named, LiveSession, NamesOf
<1> QED BY <1>1, <1>2 DEF World, SetPolicy, RemoveMember, Tick

-----------------------------------------------------------------------------
(* The exchange of a challenge *)

Exchange == SpendsOpen /\ OneSessionPerChallenge

(* Whoever moves to where nothing is exchanged disturbs no exchange.        *)
LEMMA ApartFromExchange ==
    ASSUME TypeOK, Exchange, NEW r \in Requests, NEW q, Become(r, q),
           UNCHANGED <<challenge, session>>,
           q.pc # "spend", q.pc = "mint" => q.ch = NoChallenge
    PROVE  Exchange'
<1>1. \A x \in Requests : req'[x] = IF x = r THEN q ELSE req[x]
  BY DEF Become, TypeOK
<1>2. SpendsOpen'
  BY <1>1 DEF Exchange, SpendsOpen, At
<1>3. OneSessionPerChallenge'
  BY <1>1 DEF Exchange, OneSessionPerChallenge, At
<1> QED BY <1>2, <1>3 DEF Exchange

LEMMA ReturnIsApart ==
    ASSUME TypeOK, Exchange, NEW r \in Requests, Return(r), UNCHANGED <<challenge, session>>
    PROVE  Exchange'
<1>1. Idle.pc = "idle"
  BY DEF Idle
<1> QED BY <1>1, ApartFromExchange DEF Return

LEMMA ConsumedState ==
    ASSUME TypeOK, NEW c \in Challenges, challenge' = Consumed(c)
    PROVE  \A d \in Challenges :
              challenge'[d].state = IF d = c THEN "consumed" ELSE challenge[d].state
<1>1. c # NoChallenge
  BY DEF TwoFactorAssumption
<1>2. challenge' = [challenge EXCEPT ![c].state = "consumed"]
  BY <1>1 DEF Consumed
<1>3. \A d \in Challenges : challenge[d] \in Challenge
  BY DEF TypeOK
<1> QED BY <1>2, <1>3 DEF TypeOK, Challenge

(* The one step that consumes: the challenge was open, nobody else was at  *)
(* spending it, and nothing had come of it.                                *)
LEMMA ConsumptionIsTheFirst ==
    ASSUME TypeOK, Named, Exchange, NEW r \in Requests, NEW c \in Challenges,
           req[r].ch = c, challenge[c].state = "open",
           \A q \in Requests \ {r} : At(q, "spend") => req[q].ch # c,
           challenge' = Consumed(c), UNCHANGED session,
           Become(r, [req[r] EXCEPT !.pc = "mint"])
    PROVE  Exchange'
<1>1. req[r] \in Request /\ c # NoChallenge
  BY DEF TypeOK, TwoFactorAssumption
<1>2. /\ req'[r].pc = "mint" /\ req'[r].ch = c
      /\ \A x \in Requests \ {r} : req'[x] = req[x]
  BY <1>1 DEF Become, TypeOK, Request
<1>3. \A d \in Challenges :
          challenge'[d].state = IF d = c THEN "consumed" ELSE challenge[d].state
  BY ConsumedState
<1>4. SpendsOpen'
  <2> SUFFICES ASSUME NEW x \in Requests, At(x, "spend")'
               PROVE  /\ challenge'[req'[x].ch].state = "open"
                      /\ \A q \in Requests \ {x} : At(q, "spend")' => req'[q].ch # req'[x].ch
    BY DEF SpendsOpen
  <2>1. x # r /\ req'[x] = req[x] /\ At(x, "spend")
    BY <1>2 DEF At
  <2>2. req[x].ch \in Challenges \ {c} /\ challenge[req[x].ch].state = "open"
    BY <2>1 DEF Exchange, SpendsOpen, Named, NamesOf, At
  <2>3. challenge'[req'[x].ch].state = "open"
    BY <1>3, <2>1, <2>2
  <2>4. ASSUME NEW q \in Requests \ {x}, At(q, "spend")' PROVE req'[q].ch # req'[x].ch
    <3>1. q # r /\ req'[q] = req[q] /\ At(q, "spend")
      BY <1>2, <2>4 DEF At
    <3> QED BY <2>1, <3>1 DEF Exchange, SpendsOpen
  <2> QED BY <2>3, <2>4
<1>5. \A s \in Sids : session[s].by # c
  BY <1>1 DEF Exchange, OneSessionPerChallenge
<1>6. \A q \in Requests : At(q, "mint") => req[q].ch # c
  BY <1>1 DEF Exchange, OneSessionPerChallenge
<1>7. ASSUME NEW s \in Sids, session'[s].by # NoChallenge
      PROVE  challenge'[session'[s].by].state = "consumed"
  <2>1. session[s].by \in Challenges
    BY <1>7 DEF TypeOK, Session
  <2> QED BY <1>3, <1>7, <2>1 DEF Exchange, OneSessionPerChallenge
<1>8. ASSUME NEW s \in Sids, NEW t \in Sids, s # t, session'[s].by # NoChallenge
      PROVE  session'[s].by # session'[t].by
  BY <1>8 DEF Exchange, OneSessionPerChallenge
<1>9. ASSUME NEW x \in Requests, At(x, "mint")', req'[x].ch # NoChallenge
      PROVE  /\ challenge'[req'[x].ch].state = "consumed"
             /\ \A s \in Sids : session'[s].by # req'[x].ch
             /\ \A q \in Requests \ {x} : At(q, "mint")' => req'[q].ch # req'[x].ch
  <2>1. CASE x = r
    BY <1>2, <1>3, <1>5, <1>6, <2>1 DEF At
  <2>2. CASE x # r
    <3>1. req'[x] = req[x] /\ At(x, "mint") /\ req[x].ch \in Challenges
      BY <1>2, <1>9, <2>2 DEF At, TypeOK, Request
    <3>2. /\ challenge[req[x].ch].state = "consumed"
          /\ \A s \in Sids : session[s].by # req[x].ch
          /\ \A q \in Requests \ {x} : At(q, "mint") => req[q].ch # req[x].ch
      BY <1>9, <3>1 DEF Exchange, OneSessionPerChallenge
    <3>3. ASSUME NEW q \in Requests \ {x}, At(q, "mint")' PROVE req'[q].ch # req'[x].ch
      BY <1>2, <1>6, <3>1, <3>2, <3>3 DEF At
    <3> QED BY <1>3, <3>1, <3>2, <3>3
  <2> QED BY <2>1, <2>2
<1> QED BY <1>4, <1>7, <1>8, <1>9 DEF Exchange, OneSessionPerChallenge

LEMMA SignInExchange ==
    ASSUME TypeOK, Named, Exchange, NEW r \in Requests, SignInStep(r) PROVE Exchange'
<1>1. ASSUME NEW u \in Users, SignIn(r, u) PROVE Exchange'
  <2>1. [Idle EXCEPT !.pc = "demand", !.user = u, !.required = policy].pc = "demand"
    BY DEF Idle
  <2> QED BY <1>1, <2>1, ApartFromExchange DEF SignIn
<1>2. CASE Demand(r)
  <2> DEFINE pc == IF Confirmed(req[r].user) \/ req[r].required THEN "owes" ELSE "mint"
             q == [req[r] EXCEPT !.pc = pc]
  <2>1. q.pc # "spend" /\ q.ch = NoChallenge
    BY <1>2 DEF Demand, At, Named, NamesOf, TypeOK, Request
  <2>2. Become(r, q) /\ UNCHANGED <<challenge, session>>
    BY <1>2 DEF Demand
  <2> HIDE DEF q
  <2> QED BY <2>1, <2>2, ApartFromExchange
<1>3. CASE IssueChallenge(r)
  <2>1. Return(r) /\ UNCHANGED session
    BY <1>3 DEF IssueChallenge
  <2>2. \A d \in Challenges : challenge[d].state # "unissued" =>
           challenge'[d] = challenge[d]
    BY <1>3 DEF IssueChallenge, TypeOK
  <2>3. req'[r].pc = "idle" /\ \A x \in Requests \ {r} : req'[x] = req[x]
    BY <2>1 DEF Return, Become, TypeOK, Idle
  <2>4. SpendsOpen'
    <3>1. ASSUME NEW x \in Requests, At(x, "spend")'
          PROVE  challenge'[req'[x].ch].state = "open"
      <4>1. x # r /\ req'[x] = req[x] /\ At(x, "spend")
        BY <2>3, <3>1 DEF At
      <4>2. req[x].ch \in Challenges /\ challenge[req[x].ch].state = "open"
        BY <4>1 DEF Exchange, SpendsOpen, Named, NamesOf, At
      <4> QED BY <2>2, <4>1, <4>2
    <3> QED BY <2>3, <3>1 DEF Exchange, SpendsOpen, At
  <2>5. ASSUME NEW s \in Sids, session'[s].by # NoChallenge
        PROVE  challenge'[session'[s].by].state = "consumed"
    <3>1. session[s].by \in Challenges
      BY <2>1, <2>5 DEF TypeOK, Session
    <3> QED BY <2>1, <2>2, <2>5, <3>1 DEF Exchange, OneSessionPerChallenge
  <2>6. ASSUME NEW x \in Requests, At(x, "mint")', req'[x].ch # NoChallenge
        PROVE  /\ challenge'[req'[x].ch].state = "consumed"
               /\ \A s \in Sids : session'[s].by # req'[x].ch
               /\ \A q \in Requests \ {x} : At(q, "mint")' => req'[q].ch # req'[x].ch
    <3>1. x # r /\ req'[x] = req[x] /\ At(x, "mint") /\ req[x].ch \in Challenges
      BY <2>3, <2>6 DEF At, TypeOK, Request
    <3>2. /\ challenge[req[x].ch].state = "consumed"
          /\ \A s \in Sids : session[s].by # req[x].ch
          /\ \A q \in Requests \ {x} : At(q, "mint") => req[q].ch # req[x].ch
      BY <2>6, <3>1 DEF Exchange, OneSessionPerChallenge
    <3> QED BY <2>1, <2>2, <2>3, <3>1, <3>2 DEF At
  <2> QED BY <2>1, <2>4, <2>5, <2>6 DEF Exchange, OneSessionPerChallenge
<1>4. CASE Mint(r)
  <2>1. Return(r) /\ UNCHANGED challenge /\ At(r, "mint")
    BY <1>4 DEF Mint
  <2>2. req'[r].pc = "idle" /\ \A x \in Requests \ {r} : req'[x] = req[x]
    BY <2>1 DEF Return, Become, TypeOK, Idle
  <2>3. SpendsOpen'
    BY <2>1, <2>2 DEF Exchange, SpendsOpen, At
  <2>4. CASE UNCHANGED session
    BY <2>1, <2>4, ReturnIsApart
  <2>5. ASSUME NEW s \in Sids,
               session' = [session EXCEPT ![s] =
                             [user |-> req[r].user, state |-> "live",
                              passed |-> req[r].secret, by |-> req[r].ch,
                              code |-> req[r].code]]
        PROVE  OneSessionPerChallenge'
    <3>1. \A t \in Sids : session'[t].by = IF t = s THEN req[r].ch ELSE session[t].by
      BY <2>5 DEF TypeOK
    <3>2. \A t \in Sids : req[r].ch # NoChallenge => session[t].by # req[r].ch
      BY <2>1 DEF Exchange, OneSessionPerChallenge
    <3>3. ASSUME NEW t \in Sids, session'[t].by # NoChallenge
          PROVE  challenge'[session'[t].by].state = "consumed"
      BY <2>1, <3>1, <3>3 DEF Exchange, OneSessionPerChallenge
    <3>4. ASSUME NEW t \in Sids, NEW v \in Sids, t # v, session'[t].by # NoChallenge
          PROVE  session'[t].by # session'[v].by
      BY <3>1, <3>2, <3>4 DEF Exchange, OneSessionPerChallenge
    <3>5. ASSUME NEW x \in Requests, At(x, "mint")', req'[x].ch # NoChallenge
          PROVE  /\ challenge'[req'[x].ch].state = "consumed"
                 /\ \A t \in Sids : session'[t].by # req'[x].ch
                 /\ \A q \in Requests \ {x} : At(q, "mint")' => req'[q].ch # req'[x].ch
      <4>1. x # r /\ req'[x] = req[x] /\ At(x, "mint")
        BY <2>2, <3>5 DEF At
      <4>2. /\ challenge[req[x].ch].state = "consumed"
            /\ \A t \in Sids : session[t].by # req[x].ch
            /\ \A q \in Requests \ {x} : At(q, "mint") => req[q].ch # req[x].ch
        BY <3>5, <4>1 DEF Exchange, OneSessionPerChallenge
      <4> QED BY <2>1, <2>2, <3>1, <4>1, <4>2 DEF At
    <3> QED BY <3>3, <3>4, <3>5 DEF OneSessionPerChallenge
  <2> QED BY <1>4, <2>3, <2>4, <2>5 DEF Mint, Exchange
<1> QED BY <1>1, <1>2, <1>3, <1>4 DEF SignInStep

LEMMA EnrolExchange ==
    ASSUME TypeOK, Named, Exchange, NEW r \in Requests, EnrolStep(r) PROVE Exchange'
<1>1. ASSUME NEW s \in Sids, Validate(r, s) PROVE Exchange'
  <2>1. [Idle EXCEPT !.pc = "self", !.user = session[s].user, !.sess = s].pc = "self"
    BY DEF Idle
  <2> QED BY <1>1, <2>1, ApartFromExchange DEF Validate
<1>2. CASE BeginSelf(r) \/ BeginWrite(r) \/ ConfirmRefused(r)
  <2>1. Return(r) /\ UNCHANGED <<challenge, session>>
    BY <1>2 DEF BeginSelf, BeginWrite, ConfirmRefused
  <2> QED BY <2>1, ReturnIsApart
<1>3. ASSUME NEW c \in Challenges, Begin(r, c) PROVE Exchange'
  <2>1. [Idle EXCEPT !.pc = "enrolWrite", !.user = challenge[c].user, !.ch = c].pc = "enrolWrite"
    BY DEF Idle
  <2> QED BY <1>3, <2>1, ApartFromExchange DEF Begin
<1>4. ASSUME NEW c \in Challenges \cup {NoChallenge}, NEW step \in Window, Confirm(r, c, step)
      PROVE  Exchange'
  <2> DEFINE u == Subject(r, c)
             q == [req[r] EXCEPT !.pc = "confirmWrite", !.user = u, !.ch = c,
                                 !.secret = enrolment[u].secret, !.step = step]
  <2>1. q.pc = "confirmWrite"
    <3> HIDE DEF u
    <3> QED BY DEF TypeOK, Request
  <2>2. Become(r, q) /\ UNCHANGED <<challenge, session>>
    BY <1>4 DEF Confirm
  <2> HIDE DEF q
  <2> QED BY <2>1, <2>2, ApartFromExchange
<1>5. CASE ConfirmWrite(r)
  <2>1. CASE req[r].ch = NoChallenge
    <3>1. Return(r) /\ UNCHANGED <<challenge, session>>
      BY <1>5, <2>1 DEF ConfirmWrite, Consumed, Return
    <3> QED BY <3>1, ReturnIsApart
  <2>2. CASE req[r].ch # NoChallenge
    <3>1. req[r].ch \in Challenges
      BY <2>2 DEF TypeOK, Request
    <3>2. challenge[req[r].ch].state = "open"
          /\ \A q \in Requests \ {r} : At(q, "spend") => req[q].ch # req[r].ch
      BY <1>5, <2>2 DEF ConfirmWrite, Resolved, LiveChallenge, Unlocked, LockingPCs, At
    <3>3. Become(r, [req[r] EXCEPT !.pc = "mint"]) /\ UNCHANGED session
          /\ challenge' = Consumed(req[r].ch)
      BY <1>5, <2>2 DEF ConfirmWrite
    <3> QED BY <3>1, <3>2, <3>3, ConsumptionIsTheFirst
  <2> QED BY <2>1, <2>2
<1> QED BY <1>1, <1>2, <1>3, <1>4, <1>5 DEF EnrolStep

LEMMA VerifyExchange ==
    ASSUME TypeOK, Named, Exchange, NEW r \in Requests, VerifyStep(r) PROVE Exchange'
<1>1. ASSUME NEW c \in Challenges, NEW step, NEW code, Verify(r, c, step, code) PROVE Exchange'
  <2> DEFINE u == challenge[c].user
             n == IF code = <<>> THEN enrolment[u].secret ELSE code[1]
             q == [Idle EXCEPT !.pc = "redeem", !.user = u, !.ch = c, !.step = step,
                               !.code = code, !.secret = n]
  <2>1. q.pc = "redeem"
    <3> HIDE DEF u, n
    <3> QED BY DEF Idle
  <2>2. Become(r, q) /\ UNCHANGED <<challenge, session>>
    BY <1>1 DEF Verify
  <2> HIDE DEF q
  <2> QED BY <2>1, <2>2, ApartFromExchange
<1>2. CASE Redeem(r) /\ ~(LiveChallenge(req[r].ch) /\ Confirmed(req[r].user))
  <2>1. Return(r) /\ UNCHANGED <<challenge, session>>
    BY <1>2 DEF Redeem, Return
  <2> QED BY <2>1, ReturnIsApart
<1>3. CASE Redeem(r) /\ LiveChallenge(req[r].ch) /\ Confirmed(req[r].user)
  <2> DEFINE c == req[r].ch
  <2>1. c \in Challenges /\ c # NoChallenge /\ challenge[c].state = "open"
    BY <1>3 DEF Redeem, At, Named, NamesOf, LiveChallenge, TwoFactorAssumption
  <2>2. \A q \in Requests \ {r} : At(q, "spend") => req[q].ch # c
    BY <1>3, <2>1 DEF Redeem, Unlocked, LockingPCs, At
  <2>3. UNCHANGED <<challenge, session>> /\ At(r, "redeem")
        /\ Become(r, [req[r] EXCEPT !.pc = "spend"])
    BY <1>3 DEF Redeem
  <2>4. /\ req'[r].pc = "spend" /\ req'[r].ch = c
        /\ \A x \in Requests \ {r} : req'[x] = req[x]
    BY <2>3 DEF Become, TypeOK, Request
  <2>5. SpendsOpen'
    <3>1. ASSUME NEW x \in Requests, At(x, "spend")'
          PROVE  /\ challenge'[req'[x].ch].state = "open"
                 /\ \A q \in Requests \ {x} : At(q, "spend")' => req'[q].ch # req'[x].ch
      <4>1. CASE x = r
        BY <2>1, <2>2, <2>3, <2>4, <4>1 DEF At
      <4>2. CASE x # r
        BY <2>2, <2>3, <2>4, <3>1, <4>2 DEF Exchange, SpendsOpen, At
      <4> QED BY <4>1, <4>2
    <3> QED BY <3>1 DEF SpendsOpen
  <2>6. OneSessionPerChallenge'
    BY <2>3, <2>4 DEF Exchange, OneSessionPerChallenge, At
  <2> QED BY <2>5, <2>6 DEF Exchange
<1>4. CASE Spend(r)
  <2>1. req[r].ch \in Challenges /\ challenge[req[r].ch].state = "open"
        /\ \A q \in Requests \ {r} : At(q, "spend") => req[q].ch # req[r].ch
    BY <1>4 DEF Spend, At, Named, NamesOf, Exchange, SpendsOpen
  <2>2. Become(r, [req[r] EXCEPT !.pc = "mint"]) /\ UNCHANGED session
        /\ challenge' = Consumed(req[r].ch)
    BY <1>4 DEF Spend
  <2> QED BY <2>1, <2>2, ConsumptionIsTheFirst
<1>5. CASE SpendRefused(r)
  BY <1>5, ReturnIsApart DEF SpendRefused
<1> QED BY <1>1, <1>2, <1>3, <1>4, <1>5 DEF VerifyStep

LEMMA ResetExchange ==
    ASSUME TypeOK, Named, Exchange, NEW r \in Requests, ResetStep(r) PROVE Exchange'
<1>1. ASSUME NEW u \in Users, Reset(r, u) PROVE Exchange'
  <2> DEFINE n == IF u \in members THEN enrolment[u].secret ELSE 0
             q == [Idle EXCEPT !.pc = "resetRevoke", !.user = u, !.secret = n]
  <2>1. q.pc = "resetRevoke"
    <3> HIDE DEF n
    <3> QED BY DEF Idle
  <2>2. Become(r, q) /\ UNCHANGED <<challenge, session>>
    BY <1>1 DEF Reset
  <2> HIDE DEF q
  <2> QED BY <2>1, <2>2, ApartFromExchange
<1>2. CASE ResetRevoke(r)
  <2>1. Return(r) /\ UNCHANGED challenge
    BY <1>2 DEF ResetRevoke
  <2>2. req'[r].pc = "idle" /\ \A x \in Requests \ {r} : req'[x] = req[x]
    BY <2>1 DEF Return, Become, TypeOK, Idle
  <2>3. ASSUME NEW s \in Sids PROVE session'[s].by = session[s].by
    <3>1. session[s] \in Session
      BY DEF TypeOK
    <3> QED BY <1>2, <3>1 DEF ResetRevoke, Session
  <2>4. SpendsOpen'
    BY <2>1, <2>2 DEF Exchange, SpendsOpen, At
  <2>5. OneSessionPerChallenge'
    BY <2>1, <2>2, <2>3 DEF Exchange, OneSessionPerChallenge, At
  <2> QED BY <2>4, <2>5 DEF Exchange
<1> QED BY <1>1, <1>2 DEF ResetStep

LEMMA WorldExchange == ASSUME TypeOK, Exchange, World PROVE Exchange'
<1>1. CASE \E r \in Requests : Crash(r)
  BY <1>1, ReturnIsApart DEF Crash
<1>2. CASE UNCHANGED <<challenge, session, req>>
  BY <1>2 DEF Exchange, SpendsOpen, OneSessionPerChallenge, At
<1> QED BY <1>1, <1>2 DEF World, SetPolicy, RemoveMember, Tick

-----------------------------------------------------------------------------
(* Secrets and the codes accepted of them *)

Factors == <<enrolment, secrets, accepted>>

(* A move that enrols and accepts nothing, to where a secret in hand is    *)
(* the requester's own.                                                    *)
LEMMA OwnMove ==
    ASSUME TypeOK, OwnSecrets, NEW r \in Requests, NEW q, Become(r, q), UNCHANGED Factors,
           ProvesOwn(q)
    PROVE  OwnSecrets'
<1>1. \A x \in Requests : req'[x] = IF x = r THEN q ELSE req[x]
  BY DEF Become, TypeOK
<1>2. \A x \in Requests : ProvesOwn(req'[x])
  BY <1>1 DEF OwnSecrets
<1>3. (\A x \in Requests : ProvesOwn(req[x]))'
  BY <1>2 DEF ProvesOwn, Enrolled, Factors
<1> QED BY <1>3 DEF OwnSecrets, Enrolled, Confirmed, Factors

LEMMA OwnReturn ==
    ASSUME TypeOK, OwnSecrets, NEW r \in Requests, Return(r), UNCHANGED Factors
    PROVE  OwnSecrets'
<1>1. ProvesOwn(Idle)
  BY DEF ProvesOwn, Proves, Idle
<1> QED BY <1>1, OwnMove DEF Return

LEMMA OwnIsEnrolled ==
    ASSUME OwnSecrets, NEW u \in Users, Enrolled(u), NEW q,
           q.user = u, q.secret = enrolment[u].secret
    PROVE  ProvesOwn(q)
  BY DEF OwnSecrets, ProvesOwn

(* A secret is minted with a number nobody has, and no code of it exists.  *)
LEMMA EnrolsOwn ==
    ASSUME TypeOK, OwnSecrets, NEW r \in Requests, NEW u, Enrols(u), Return(r),
           UNCHANGED accepted
    PROVE  OwnSecrets'
<1>1. secrets \in Nat /\ secrets' = secrets + 1
  BY DEF TypeOK, Enrols
<1>2. ASSUME NEW v \in Users
      PROVE  \/ enrolment'[v] = enrolment[v]
             \/ v = u /\ enrolment'[v] = Pending(u, secrets + 1)
  BY DEF Enrols, TypeOK
<1>3. ASSUME NEW v \in Users PROVE enrolment[v].secret \in Nat
  BY DEF TypeOK, Enrolment
<1>4. Pending(u, secrets + 1).secret = secrets + 1 /\ Pending(u, secrets + 1).state = "pending"
  BY DEF Pending
<1>5. req'[r] = Idle /\ \A x \in Requests \ {r} : req'[x] = req[x]
  BY DEF Return, Become, TypeOK
<1>6. ASSUME NEW v \in Users, enrolment'[v].state # "none"
      PROVE  enrolment'[v].secret <= secrets'
  BY <1>1, <1>2, <1>3, <1>4, <1>6 DEF OwnSecrets, Enrolled
<1>7. ASSUME NEW v \in Users, NEW w \in Users, v # w,
             enrolment'[v].state # "none", enrolment'[w].state # "none"
      PROVE  enrolment'[v].secret # enrolment'[w].secret
  BY <1>1, <1>2, <1>3, <1>4, <1>7 DEF OwnSecrets, Enrolled
<1>8. ASSUME NEW x \in Requests, Proves(req'[x])
      PROVE  /\ req'[x].secret <= secrets'
             /\ \A v \in Users \ {req'[x].user} :
                   enrolment'[v].state # "none" => enrolment'[v].secret # req'[x].secret
  <2>1. x # r /\ req'[x] = req[x] /\ req[x].secret \in Nat
    BY <1>5, <1>8 DEF Proves, Idle, TypeOK, Request
  <2>2. /\ req[x].secret <= secrets
        /\ \A v \in Users \ {req[x].user} : Enrolled(v) => enrolment[v].secret # req[x].secret
    BY <1>8, <2>1 DEF OwnSecrets, ProvesOwn
  <2>3. ASSUME NEW v \in Users \ {req[x].user}, enrolment'[v].state # "none"
        PROVE  enrolment'[v].secret # req[x].secret
    BY <1>1, <1>2, <1>4, <2>1, <2>2, <2>3 DEF Enrolled
  <2> QED BY <1>1, <2>1, <2>2, <2>3
<1>9. ASSUME NEW code \in accepted
      PROVE  /\ code[1] <= secrets'
             /\ \A v \in Users : enrolment'[v].state # "none" /\ enrolment'[v].secret = code[1] =>
                   enrolment'[v].state = "confirmed" /\ code[2] <= enrolment'[v].used
  <2>1. code[1] \in Nat /\ code[1] <= secrets
    BY DEF TypeOK, OwnSecrets
  <2>2. ASSUME NEW v \in Users, enrolment'[v].state # "none", enrolment'[v].secret = code[1]
        PROVE  enrolment'[v].state = "confirmed" /\ code[2] <= enrolment'[v].used
    <3>1. enrolment'[v] = enrolment[v]
      BY <1>1, <1>2, <1>4, <2>1, <2>2
    <3> QED BY <2>2, <3>1 DEF OwnSecrets, Enrolled, Confirmed
  <2> QED BY <1>1, <2>1, <2>2
<1> QED BY <1>6, <1>7, <1>8, <1>9 DEF OwnSecrets, Enrolled, ProvesOwn, Confirmed

(* A code is accepted: the row that counts it is the person's.  Either the *)
(* secret that was read is still there, and it counts it, or it is gone,   *)
(* and was nobody else's.                                                  *)
LEMMA AcceptsOwn ==
    ASSUME TypeOK, OwnSecrets, NEW r \in Requests, NEW q,
           Proves(req[r]), Become(r, q), ~Proves(q),
           NEW u \in Users, u = req[r].user, Enrolled(u),
           NEW e \in Enrolment, e.state = "confirmed", e.secret = enrolment[u].secret,
           e.used = req[r].step,
           enrolment' = [enrolment EXCEPT ![u] = e],
           \A code \in accepted : code[1] = e.secret => code[2] <= e.used,
           accepted' = accepted \cup {<<req[r].secret, req[r].step>>},
           UNCHANGED secrets
    PROVE  OwnSecrets'
<1>1. \A v \in Users : enrolment'[v] = IF v = u THEN e ELSE enrolment[v]
  BY DEF TypeOK
<1>2. req'[r] = q /\ \A x \in Requests \ {r} : req'[x] = req[x]
  BY DEF Become, TypeOK
<1>3. \A v \in Users : /\ enrolment'[v].secret = enrolment[v].secret
                       /\ enrolment'[v].state # "none" => Enrolled(v)
  BY <1>1 DEF Enrolled
<1>4. ASSUME NEW x \in Requests, Proves(req'[x])
      PROVE  /\ req'[x].secret <= secrets
             /\ \A v \in Users \ {req'[x].user} :
                   enrolment'[v].state # "none" => enrolment'[v].secret # req'[x].secret
  <2>1. req'[x] = req[x] /\ Proves(req[x])
    BY <1>2, <1>4
  <2> QED BY <1>3, <2>1 DEF OwnSecrets, ProvesOwn
<1>5. /\ req[r].secret <= secrets /\ req[r].step \in Nat
      /\ \A v \in Users \ {u} : Enrolled(v) => enrolment[v].secret # req[r].secret
  BY DEF OwnSecrets, ProvesOwn, TypeOK, Request
<1>6. ASSUME NEW code \in accepted',
             NEW v \in Users, enrolment'[v].state # "none", enrolment'[v].secret = code[1]
      PROVE  enrolment'[v].state = "confirmed" /\ code[2] <= enrolment'[v].used
  <2>1. CASE code \in accepted /\ v # u
    BY <1>1, <1>6, <2>1 DEF OwnSecrets, Enrolled, Confirmed
  <2>2. CASE code \in accepted /\ v = u
    BY <1>1, <1>6, <2>2
  <2>3. CASE code = <<req[r].secret, req[r].step>>
    <3>1. v = u
      BY <1>3, <1>5, <1>6, <2>3
    <3> QED BY <1>1, <1>5, <2>3, <3>1
  <2> QED BY <2>1, <2>2, <2>3
<1>7. \A code \in accepted' : code[1] <= secrets
  BY <1>5 DEF OwnSecrets
<1>8. /\ \A v \in Users : enrolment'[v].state # "none" => enrolment'[v].secret <= secrets
      /\ \A v, w \in Users : v # w /\ enrolment'[v].state # "none" /\ enrolment'[w].state # "none"
            => enrolment'[v].secret # enrolment'[w].secret
  BY <1>3 DEF OwnSecrets
<1> QED BY <1>4, <1>6, <1>7, <1>8 DEF OwnSecrets, Enrolled, ProvesOwn, Confirmed

LEMMA SignInOwn ==
    ASSUME TypeOK, OwnSecrets, NEW r \in Requests, SignInStep(r) PROVE OwnSecrets'
<1>1. ASSUME NEW u \in Users, SignIn(r, u) PROVE OwnSecrets'
  <2>1. ProvesOwn([Idle EXCEPT !.pc = "demand", !.user = u, !.required = policy])
    BY DEF ProvesOwn, Proves, Idle
  <2> QED BY <1>1, <2>1, OwnMove DEF SignIn, Factors
<1>2. CASE Demand(r)
  <2> DEFINE pc == IF Confirmed(req[r].user) \/ req[r].required THEN "owes" ELSE "mint"
             q == [req[r] EXCEPT !.pc = pc]
  <2>1. q.pc \in {"owes", "mint"}
    BY DEF TypeOK, Request
  <2>2. Become(r, q) /\ UNCHANGED Factors
    BY <1>2 DEF Demand, Factors
  <2> HIDE DEF q
  <2> QED BY <2>1, <2>2, OwnMove DEF ProvesOwn, Proves
<1>3. CASE IssueChallenge(r) \/ Mint(r)
  <2>1. Return(r) /\ UNCHANGED Factors
    BY <1>3 DEF IssueChallenge, Mint, Factors
  <2> QED BY <2>1, OwnReturn
<1> QED BY <1>1, <1>2, <1>3 DEF SignInStep

LEMMA EnrolOwn ==
    ASSUME TypeOK, Named, OwnSecrets, NEW r \in Requests, EnrolStep(r) PROVE OwnSecrets'
<1>1. ASSUME NEW s \in Sids, Validate(r, s) PROVE OwnSecrets'
  <2>1. ProvesOwn([Idle EXCEPT !.pc = "self", !.user = session[s].user, !.sess = s])
    BY DEF ProvesOwn, Proves, Idle
  <2> QED BY <1>1, <2>1, OwnMove DEF Validate, Factors
<1>2. CASE BeginSelf(r) \/ BeginWrite(r)
  <2>1. Enrols(req[r].user) /\ Return(r) /\ UNCHANGED accepted
    BY <1>2 DEF BeginSelf, BeginWrite
  <2> QED BY <2>1, EnrolsOwn
<1>3. ASSUME NEW c \in Challenges, Begin(r, c) PROVE OwnSecrets'
  <2>1. ProvesOwn([Idle EXCEPT !.pc = "enrolWrite", !.user = challenge[c].user, !.ch = c])
    BY DEF ProvesOwn, Proves, Idle
  <2> QED BY <1>3, <2>1, OwnMove DEF Begin, Factors
<1>4. ASSUME NEW c \in Challenges \cup {NoChallenge}, NEW step \in Window, Confirm(r, c, step)
      PROVE  OwnSecrets'
  <2> DEFINE u == Subject(r, c)
             q == [req[r] EXCEPT !.pc = "confirmWrite", !.user = u, !.ch = c,
                                 !.secret = enrolment[u].secret, !.step = step]
  <2>1. u \in Users /\ Enrolled(u)
    BY <1>4, SubjectIsNamed DEF Confirm, Enrolled
  <2>2. q.user = u /\ q.secret = enrolment[u].secret
    <3> HIDE DEF u
    <3> QED BY DEF TypeOK, Request
  <2>3. Become(r, q) /\ UNCHANGED Factors
    BY <1>4 DEF Confirm, Factors
  <2> HIDE DEF q, u
  <2>4. ProvesOwn(q)
    BY <2>1, <2>2, OwnIsEnrolled
  <2> QED BY <2>3, <2>4, OwnMove
<1>5. CASE ConfirmWrite(r)
  <2> DEFINE u == req[r].user
             e == [enrolment[u] EXCEPT !.state = "confirmed", !.used = req[r].step]
             q == IF req[r].ch = NoChallenge THEN Idle ELSE [req[r] EXCEPT !.pc = "mint"]
  <2>1. /\ u \in Users /\ enrolment[u].state = "pending" /\ Proves(req[r])
        /\ req[r] \in Request /\ enrolment[u] \in Enrolment
    BY <1>5 DEF ConfirmWrite, At, Named, NamesOf, Proves, TypeOK
  <2>2. /\ e \in Enrolment /\ e.state = "confirmed" /\ e.used = req[r].step
        /\ e.secret = enrolment[u].secret
    BY <2>1 DEF Enrolment, Request
  <2>3. ~Proves(q)
    BY <2>1 DEF Proves, Idle, Request
  <2>4. /\ Become(r, q) /\ enrolment' = [enrolment EXCEPT ![u] = e]
        /\ accepted' = accepted \cup {<<req[r].secret, req[r].step>>} /\ UNCHANGED secrets
    BY <1>5 DEF ConfirmWrite
  <2>5. \A code \in accepted : code[1] # enrolment[u].secret
    BY <2>1 DEF OwnSecrets, Enrolled, Confirmed
  <2> HIDE DEF e, q
  <2> QED BY <2>1, <2>2, <2>3, <2>4, <2>5, AcceptsOwn DEF Enrolled
<1>6. CASE ConfirmRefused(r)
  BY <1>6, OwnReturn DEF ConfirmRefused, Factors
<1> QED BY <1>1, <1>2, <1>3, <1>4, <1>5, <1>6 DEF EnrolStep

LEMMA VerifyOwn ==
    ASSUME TypeOK, Named, OwnSecrets, NEW r \in Requests, VerifyStep(r) PROVE OwnSecrets'
<1>1. ASSUME NEW c \in Challenges, NEW step, NEW code, Verify(r, c, step, code)
      PROVE  OwnSecrets'
  <2> DEFINE u == challenge[c].user
             n == IF code = <<>> THEN enrolment[u].secret ELSE code[1]
             q == [Idle EXCEPT !.pc = "redeem", !.user = u, !.ch = c, !.step = step,
                               !.code = code, !.secret = n]
  <2>1. u \in Users /\ Enrolled(u)
    BY <1>1 DEF Verify, Resolved, LiveChallenge, Named, Confirmed, Enrolled, TwoFactorAssumption
  <2>2. q.user = u /\ q.secret = n /\ q.code = code
    <3> HIDE DEF u, n
    <3> QED BY DEF Idle
  <2>3. Become(r, q) /\ UNCHANGED Factors
    BY <1>1 DEF Verify, Factors
  <2>4. q.pc = "redeem"
    <3> HIDE DEF u, n
    <3> QED BY DEF Idle
  <2> HIDE DEF q, u
  <2>5. ProvesOwn(q)
    <3>1. CASE code = <<>>
      BY <2>1, <2>2, <3>1, OwnIsEnrolled
    <3>2. CASE code # <<>>
      BY <2>2, <2>4, <3>2 DEF ProvesOwn, Proves
    <3> QED BY <3>1, <3>2
  <2> QED BY <2>3, <2>5, OwnMove
<1>2. CASE Redeem(r)
  <2> DEFINE q == IF LiveChallenge(req[r].ch) /\ Confirmed(req[r].user)
                  THEN [req[r] EXCEPT !.pc = "spend"] ELSE Idle
  <2>1. req[r].pc = "redeem" /\ req[r] \in Request /\ ProvesOwn(req[r])
    BY <1>2 DEF Redeem, At, TypeOK, OwnSecrets
  <2>2. ProvesOwn(q)
    <3>1. ProvesOwn(Idle)
      BY DEF ProvesOwn, Proves, Idle
    <3>2. ProvesOwn([req[r] EXCEPT !.pc = "spend"])
      BY <2>1 DEF ProvesOwn, Proves, Request
    <3> QED BY <3>1, <3>2
  <2>3. Become(r, q) /\ UNCHANGED Factors
    BY <1>2 DEF Redeem, Factors
  <2> HIDE DEF q
  <2> QED BY <2>2, <2>3, OwnMove
<1>3. CASE Spend(r)
  <2> DEFINE u == req[r].user
             e == [enrolment[u] EXCEPT !.used = req[r].step]
             q == [req[r] EXCEPT !.pc = "mint"]
  <2>1. u \in Users /\ req[r] \in Request /\ enrolment[u] \in Enrolment /\ At(r, "spend")
    BY <1>3 DEF Spend, At, Named, NamesOf, TypeOK
  <2>2. q.pc = "mint"
    BY <2>1 DEF Request
  <2>3. CASE req[r].code = <<>>
    <3>1. Proves(req[r]) /\ enrolment[u].state = "confirmed" /\ enrolment[u].used < req[r].step
      BY <1>3, <2>1, <2>3 DEF Spend, CodeSpendable, Proves, At
    <3>2. /\ e \in Enrolment /\ e.state = "confirmed" /\ e.used = req[r].step
          /\ e.secret = enrolment[u].secret
      BY <2>1, <3>1 DEF Enrolment, Request
    <3>3. /\ Become(r, q) /\ enrolment' = [enrolment EXCEPT ![u] = e]
          /\ accepted' = accepted \cup {<<req[r].secret, req[r].step>>} /\ UNCHANGED secrets
      BY <1>3, <2>3 DEF Spend
    <3>4. \A code \in accepted : code[1] = e.secret => code[2] <= e.used
      <4>1. \A code \in accepted : code[2] \in Nat
        BY DEF TypeOK
      <4>2. \A code \in accepted : code[1] = e.secret => code[2] <= enrolment[u].used
        BY <2>1, <3>1, <3>2 DEF OwnSecrets, Enrolled
      <4>3. enrolment[u].used \in Nat /\ req[r].step \in Nat
        BY <2>1 DEF Enrolment, Request
      <4> QED BY <3>1, <3>2, <4>1, <4>2, <4>3
    <3> HIDE DEF e, q
    <3> QED BY <2>1, <2>2, <3>1, <3>2, <3>3, <3>4, AcceptsOwn DEF Enrolled, Proves
  <2>4. CASE req[r].code # <<>>
    <3>1. Become(r, q) /\ UNCHANGED Factors
      BY <1>3, <2>4 DEF Spend, Factors
    <3> HIDE DEF q
    <3> QED BY <2>2, <3>1, OwnMove DEF ProvesOwn, Proves
  <2> QED BY <2>3, <2>4
<1>4. CASE SpendRefused(r)
  BY <1>4, OwnReturn DEF SpendRefused, Factors
<1> QED BY <1>1, <1>2, <1>3, <1>4 DEF VerifyStep

LEMMA ResetOwn ==
    ASSUME TypeOK, OwnSecrets, NEW r \in Requests, ResetStep(r) PROVE OwnSecrets'
<1>1. ASSUME NEW u \in Users, Reset(r, u) PROVE OwnSecrets'
  <2> DEFINE n == IF u \in members THEN enrolment[u].secret ELSE 0
             q == [Idle EXCEPT !.pc = "resetRevoke", !.user = u, !.secret = n]
  <2>1. q.pc = "resetRevoke"
    <3> HIDE DEF n
    <3> QED BY DEF Idle
  <2>2. Become(r, q) /\ UNCHANGED <<secrets, accepted>>
    BY <1>1 DEF Reset
  <2>3. \A v \in Users : enrolment'[v] = enrolment[v] \/ enrolment'[v].state = "none"
    BY <1>1 DEF Reset, TypeOK, NoEnrolment
  <2> HIDE DEF q
  <2>4. \A x \in Requests : Proves(req'[x]) => req'[x] = req[x]
    BY <2>1, <2>2 DEF Become, TypeOK, Proves
  <2>5. (\A x \in Requests : ProvesOwn(req[x]))'
    BY <2>2, <2>3, <2>4 DEF OwnSecrets, ProvesOwn, Enrolled
  <2> QED BY <2>2, <2>3, <2>5 DEF OwnSecrets, Enrolled, Confirmed
<1>2. CASE ResetRevoke(r)
  BY <1>2, OwnReturn DEF ResetRevoke, Factors
<1> QED BY <1>1, <1>2 DEF ResetStep

LEMMA WorldOwn == ASSUME TypeOK, OwnSecrets, World PROVE OwnSecrets'
<1>1. CASE \E r \in Requests : Crash(r)
  BY <1>1, OwnReturn DEF Crash, Factors
<1>2. CASE UNCHANGED <<Factors, req>>
  BY <1>2 DEF OwnSecrets, ProvesOwn, Enrolled, Confirmed, Factors
<1> QED BY <1>1, <1>2 DEF World, SetPolicy, RemoveMember, Tick, Factors

-----------------------------------------------------------------------------
(* The theorems *)

LEMMA InvariantInit == Init => IInv
<1> SUFFICES ASSUME Init PROVE IInv
    OBVIOUS
<1>1. TypeOK
  BY IdleIsRequest
  DEF Init, TypeOK, NoEnrolment, Enrolment, NoChallengeRow, Challenge, NoSessionRow, Session
<1>2. Named
  BY DEF Init, Named, NamesOf, LiveSession, NoChallengeRow, NoSessionRow, Idle
<1>3. SpendsOpen /\ OneSessionPerChallenge
  BY DEF Init, SpendsOpen, OneSessionPerChallenge, At, NoSessionRow, Idle
<1>4. OwnSecrets
  BY DEF Init, OwnSecrets, ProvesOwn, Proves, Enrolled, NoEnrolment, Idle
<1> QED BY <1>1, <1>2, <1>3, <1>4 DEF IInv

LEMMA InvariantStep == IInv /\ [Next]_vars => IInv'
<1> SUFFICES ASSUME IInv, [Next]_vars PROVE IInv'
    OBVIOUS
<1>1. TypeOK /\ Named /\ Exchange /\ OwnSecrets
  BY DEF IInv, Exchange
<1>2. ASSUME NEW r \in Requests, SignInStep(r) PROVE IInv'
  BY <1>1, <1>2, SignInType, StepKeepsNamed, SignInExchange, SignInOwn DEF IInv, Exchange
<1>3. ASSUME NEW r \in Requests, EnrolStep(r) PROVE IInv'
  BY <1>1, <1>3, EnrolType, StepKeepsNamed, EnrolExchange, EnrolOwn DEF IInv, Exchange
<1>4. ASSUME NEW r \in Requests, VerifyStep(r) PROVE IInv'
  BY <1>1, <1>4, VerifyType, StepKeepsNamed, VerifyExchange, VerifyOwn DEF IInv, Exchange
<1>5. ASSUME NEW r \in Requests, ResetStep(r) PROVE IInv'
  BY <1>1, <1>5, ResetType, StepKeepsNamed, ResetExchange, ResetOwn DEF IInv, Exchange
<1>6. CASE World
  BY <1>1, <1>6, WorldType, WorldKeepsNamed, WorldExchange, WorldOwn DEF IInv, Exchange
<1>7. CASE UNCHANGED vars
  <2>1. TypeOK' /\ Named'
    BY <1>1, <1>7 DEF vars, TypeOK, Named, NamesOf, LiveSession
  <2>2. Exchange'
    BY <1>1, <1>7 DEF vars, Exchange, SpendsOpen, OneSessionPerChallenge, At
  <2>3. OwnSecrets'
    BY <1>1, <1>7 DEF vars, OwnSecrets, ProvesOwn, Enrolled, Confirmed
  <2> QED BY <2>1, <2>2, <2>3 DEF IInv, Exchange
<1> QED BY <1>2, <1>3, <1>4, <1>5, <1>6, <1>7 DEF Next

LEMMA Invariant == Spec => []IInv
<1> QED BY InvariantInit, InvariantStep, PTL DEF Spec

(* Every variable keeps its type, whatever overlaps and dies.              *)
THEOREM TypeCorrect == Spec => []TypeOK
<1>1. IInv => TypeOK
  BY DEF IInv
<1> QED BY <1>1, Invariant, PTL

(* A challenge yields one session at most, once it is consumed: the locks  *)
(* of redeemChallenge and confirmEnrolment are enough for any number of    *)
(* requests that present it at once and die in between                     *)
(* (repo/two_factor.ts, lockChallenge).                                    *)
THEOREM OneSession == Spec => []OneSessionPerChallenge
<1>1. IInv => OneSessionPerChallenge
  BY DEF IInv
<1> QED BY <1>1, Invariant, PTL

(* While a secret stays enrolled, no code of it that was accepted is       *)
(* acceptable again, however confirmations, sign-ins and resets interleave *)
(* (migration 12, note 3).                                                 *)
THEOREM AcceptedStaysSpent == Spec => []AcceptedIsSpent
<1>1. IInv => AcceptedIsSpent
  BY DEF IInv, OwnSecrets, AcceptedIsSpent, Enrolled, Confirmed
<1> QED BY <1>1, Invariant, PTL

-----------------------------------------------------------------------------
(* What recovery codes open                                                *)

(* A request that has verified no code holds none.                         *)
NoCodeYet(q) == q.pc \in {"idle", "demand", "self", "confirmWrite"} => q.code = <<>>

(* A code that opened a session, or is about to.                           *)
Spent(code) ==
    \/ \E s \in Opened : session[s].code = code
    \/ \E r \in Opening : req[r].code = code

(* Codes are issued of a secret that was minted, to one person, when the   *)
(* secret is confirmed: a pending secret has none yet, held or spent.      *)
CodesOfSecrets ==
    /\ \A r \in Requests : NoCodeYet(req[r])
    /\ \A u \in Users : \A code \in codes[u] :
          /\ code[1] <= secrets
          /\ \A v \in Users : v # u => code \notin codes[v]
          /\ \A v \in Users : enrolment[v].state = "pending" => enrolment[v].secret # code[1]
    /\ \A code \in RecoveryCode : Spent(code) =>
          /\ code[1] <= secrets
          /\ \A v \in Users : enrolment[v].state = "pending" => enrolment[v].secret # code[1]

CodesInv == CodesOfSecrets /\ RecoveryCodeOpensOnce

Rows == <<enrolment, codes, session, secrets>>

(* The rows a step may keep: no code is issued or spent, and a pending     *)
(* secret is one that was pending or a new one.                            *)
KeepsCodes ==
    /\ secrets' = secrets \/ secrets' = secrets + 1
    /\ \A u \in Users : codes'[u] \subseteq codes[u]
    /\ \A u \in Users : enrolment'[u].state = "pending" =>
          \/ enrolment[u].state = "pending" /\ enrolment'[u].secret = enrolment[u].secret
          \/ enrolment'[u].secret = secrets + 1
    /\ \A s \in Sids : session'[s].code = session[s].code

LEMMA CodesKept ==
    ASSUME TypeOK, CodesInv, KeepsCodes,
           \A r \in Requests : NoCodeYet(req'[r]),
           \A r \in Requests : req'[r].pc = "mint" /\ req'[r].code # <<>> =>
              req[r].pc = "mint" /\ req'[r].code = req[r].code
    PROVE  CodesInv'
<1>1. secrets \in Nat /\ secrets' \in Nat /\ secrets <= secrets'
  BY DEF TypeOK, KeepsCodes
<1>2. Opened' = Opened /\ \A s \in Opened : session'[s].code = session[s].code
  BY DEF Opened, KeepsCodes
<1>3. ASSUME NEW r \in Opening' PROVE r \in Opening /\ req'[r].code = req[r].code
  BY DEF Opening, At
<1>4. ASSUME NEW code \in RecoveryCode, Spent(code)' PROVE Spent(code)
  BY <1>2, <1>3, <1>4 DEF Spent
<1>5. ASSUME NEW n \in Nat, n <= secrets, NEW v \in Users,
             enrolment[v].state = "pending" => enrolment[v].secret # n,
             enrolment'[v].state = "pending"
      PROVE  enrolment'[v].secret # n
  BY <1>1, <1>5 DEF KeepsCodes
<1>6. ASSUME NEW u \in Users, NEW code \in codes'[u]
      PROVE  /\ code[1] <= secrets'
             /\ \A v \in Users : v # u => code \notin codes'[v]
             /\ \A v \in Users : enrolment'[v].state = "pending" => enrolment'[v].secret # code[1]
  <2>1. code \in codes[u] /\ code \in RecoveryCode /\ code[1] \in Nat
    BY DEF KeepsCodes, TypeOK, RecoveryCode
  <2>2. /\ code[1] <= secrets
        /\ \A v \in Users : v # u => code \notin codes[v]
        /\ \A v \in Users : enrolment[v].state = "pending" => enrolment[v].secret # code[1]
    BY <2>1 DEF CodesInv, CodesOfSecrets
  <2>3. \A v \in Users : v # u => code \notin codes'[v]
    BY <2>2 DEF KeepsCodes
  <2>4. \A v \in Users : enrolment'[v].state = "pending" => enrolment'[v].secret # code[1]
    BY <1>5, <2>1, <2>2
  <2> QED BY <1>1, <2>1, <2>2, <2>3, <2>4
<1>7. ASSUME NEW code \in RecoveryCode, Spent(code)'
      PROVE  /\ code[1] <= secrets'
             /\ \A v \in Users : enrolment'[v].state = "pending" => enrolment'[v].secret # code[1]
  <2>1. code[1] \in Nat
    BY DEF RecoveryCode
  <2>2. /\ code[1] <= secrets
        /\ \A v \in Users : enrolment[v].state = "pending" => enrolment[v].secret # code[1]
    BY <1>4, <1>7 DEF CodesInv, CodesOfSecrets
  <2> QED BY <1>1, <1>5, <2>1, <2>2
<1>8. CodesOfSecrets'
  BY <1>6, <1>7 DEF CodesOfSecrets, NoCodeYet
<1>9. RecoveryCodeOpensOnce'
  <2>1. RecoveryCodeOpensOnce /\ \A u \in Users : codes'[u] \subseteq codes[u]
    BY DEF CodesInv, KeepsCodes
  <2> QED BY <1>2, <1>3, <2>1 DEF RecoveryCodeOpensOnce
<1> QED BY <1>8, <1>9 DEF CodesInv

(* A step that only moves a request, and to no code's session.             *)
LEMMA CodesMove ==
    ASSUME TypeOK, CodesInv, KeepsCodes, NEW r \in Requests, NEW q, Become(r, q),
           NoCodeYet(q), q.pc # "mint" \/ q.code = <<>>
    PROVE  CodesInv'
<1>1. \A x \in Requests : req'[x] = IF x = r THEN q ELSE req[x]
  BY DEF Become, TypeOK
<1> QED BY <1>1, CodesKept DEF CodesInv, CodesOfSecrets

LEMMA CodesReturn ==
    ASSUME TypeOK, CodesInv, KeepsCodes, NEW r \in Requests, Return(r)
    PROVE  CodesInv'
<1>1. NoCodeYet(Idle) /\ Idle.pc # "mint"
  BY DEF NoCodeYet, Idle
<1> QED BY <1>1, CodesMove DEF Return

LEMMA RowsKeepCodes == ASSUME UNCHANGED Rows PROVE KeepsCodes
  BY DEF Rows, KeepsCodes

(* The three steps that issue a code, spend one, and start its session.    *)
LEMMA MintOpens ==
    ASSUME TypeOK, CodesInv, NEW r \in Requests, Mint(r), session' # session
    PROVE  CodesInv'
<1>1. PICK s \in Sids :
         /\ session[s].state = "unissued"
         /\ session' = [session EXCEPT ![s] =
                          [user |-> req[r].user, state |-> "live",
                           passed |-> req[r].secret, by |-> req[r].ch,
                           code |-> req[r].code]]
  BY DEF Mint
<1>2. /\ session'[s].code = req[r].code
      /\ \A t \in Sids \ {s} : session'[t] = session[t]
  BY <1>1 DEF TypeOK
<1>3. /\ req'[r].pc = "idle" /\ req'[r].code = <<>>
      /\ \A x \in Requests \ {r} : req'[x] = req[x]
  BY DEF Mint, Return, Become, Idle, TypeOK
<1>4. At(r, "mint") /\ UNCHANGED <<codes, enrolment, secrets>>
  BY DEF Mint
<1>5. \A x \in Requests : NoCodeYet(req'[x])
  BY <1>3 DEF NoCodeYet, CodesInv, CodesOfSecrets
<1>6. /\ \A t \in Opened' \ {s} : t \in Opened /\ session'[t].code = session[t].code
      /\ s \in Opened' => r \in Opening
  BY <1>2, <1>4 DEF Opened, Opening
<1>7. \A x \in Opening' : x # r /\ x \in Opening /\ req'[x].code = req[x].code
  BY <1>3 DEF Opening, At
<1>8. ASSUME NEW code, Spent(code)' PROVE Spent(code)
  BY <1>2, <1>6, <1>7, <1>8 DEF Spent
<1>9. CodesOfSecrets'
  BY <1>4, <1>5, <1>8 DEF CodesInv, CodesOfSecrets, NoCodeYet
<1>10. RecoveryCodeOpensOnce'
  BY <1>2, <1>4, <1>6, <1>7 DEF CodesInv, RecoveryCodeOpensOnce
<1> QED BY <1>9, <1>10 DEF CodesInv

LEMMA SpendOpens ==
    ASSUME TypeOK, Named, CodesInv, NEW r \in Requests, Spend(r), req[r].code # <<>>
    PROVE  CodesInv'
<1> DEFINE u == req[r].user
           k == req[r].code
<1>1. req[r] \in Request /\ u \in Users /\ k \in codes[u] /\ k \in RecoveryCode
  BY DEF Spend, CodeSpendable, At, Named, NamesOf, TypeOK
<1>2. /\ req'[r].pc = "mint" /\ req'[r].code = k
      /\ \A x \in Requests \ {r} : req'[x] = req[x]
  BY <1>1 DEF Spend, Become, TypeOK, Request
<1>3. UNCHANGED <<enrolment, session, secrets>> /\ ~At(r, "mint")
  BY DEF Spend, At
<1>4. codes'[u] = codes[u] \ {k} /\ \A v \in Users \ {u} : codes'[v] = codes[v]
  BY <1>1 DEF Spend, TypeOK
<1> HIDE DEF u, k
<1>5. \A x \in Requests : NoCodeYet(req'[x])
  BY <1>2 DEF NoCodeYet, CodesInv, CodesOfSecrets
<1>6. Opened' = Opened
  BY <1>3 DEF Opened
<1>7. \A x \in Opening' : x = r \/ (x \in Opening /\ req'[x].code = req[x].code)
  BY <1>2 DEF Opening, At
<1>8. ASSUME NEW code, Spent(code)' PROVE code = k \/ Spent(code)
  BY <1>2, <1>3, <1>6, <1>7, <1>8 DEF Spent
<1>9. \A v \in Users : codes'[v] \subseteq codes[v] /\ k \notin codes'[v]
  BY <1>1, <1>4 DEF CodesInv, CodesOfSecrets
<1>10. CodesOfSecrets'
  <2>1. ASSUME NEW v \in Users, NEW code \in codes'[v]
        PROVE  /\ code[1] <= secrets
               /\ \A w \in Users : w # v => code \notin codes'[w]
               /\ \A w \in Users : enrolment[w].state = "pending" => enrolment[w].secret # code[1]
    BY <1>9 DEF CodesInv, CodesOfSecrets
  <2>2. ASSUME NEW code \in RecoveryCode, Spent(code)'
        PROVE  /\ code[1] <= secrets
               /\ \A w \in Users : enrolment[w].state = "pending" => enrolment[w].secret # code[1]
    BY <1>1, <1>8, <2>2 DEF CodesInv, CodesOfSecrets
  <2> QED BY <1>3, <1>5, <2>1, <2>2 DEF CodesOfSecrets, NoCodeYet
<1>11. RecoveryCodeOpensOnce'
  <2>1. /\ \A s \in Opened : session[s].code # k
        /\ \A x \in Opening : req[x].code # k
    BY <1>1 DEF CodesInv, RecoveryCodeOpensOnce
  <2>2. RecoveryCodeOpensOnce
    BY DEF CodesInv
  <2>3. \A q, x \in Opening' : req'[q].code = req'[x].code => q = x
    BY <1>2, <1>7, <2>1, <2>2 DEF RecoveryCodeOpensOnce
  <2>4. \A s \in Opened', x \in Opening' : session'[s].code # req'[x].code
    BY <1>2, <1>3, <1>6, <1>7, <2>1, <2>2 DEF RecoveryCodeOpensOnce
  <2>5. \A v \in Users : /\ \A s \in Opened' : session'[s].code \notin codes'[v]
                         /\ \A x \in Opening' : req'[x].code \notin codes'[v]
    BY <1>2, <1>3, <1>6, <1>7, <1>9, <2>2 DEF RecoveryCodeOpensOnce
  <2> QED BY <1>3, <1>6, <2>2, <2>3, <2>4, <2>5 DEF RecoveryCodeOpensOnce
<1> QED BY <1>10, <1>11 DEF CodesInv

LEMMA ConfirmIssues ==
    ASSUME TypeOK, Named, OwnSecrets, CodesInv, NEW r \in Requests, ConfirmWrite(r)
    PROVE  CodesInv'
<1> DEFINE u == req[r].user
           n == enrolment[u].secret
<1>1. req[r] \in Request /\ u \in Users /\ enrolment[u] \in Enrolment /\ n \in Nat
  BY DEF ConfirmWrite, At, Named, NamesOf, TypeOK, Enrolment
<1>2. enrolment[u].state = "pending" /\ UNCHANGED <<session, secrets>>
      /\ req[r].code = <<>>
  BY DEF ConfirmWrite, At, CodesInv, CodesOfSecrets, NoCodeYet
<1>3. /\ enrolment'[u].state = "confirmed"
      /\ \A v \in Users \ {u} : enrolment'[v] = enrolment[v]
      /\ codes'[u] = CodesOf(n)
      /\ \A v \in Users \ {u} : codes'[v] = codes[v]
  BY <1>1 DEF ConfirmWrite, TypeOK, Enrolment
<1>4. /\ req'[r].pc \in {"idle", "mint"} /\ req'[r].code = <<>>
      /\ \A x \in Requests \ {r} : req'[x] = req[x]
  BY <1>1, <1>2 DEF ConfirmWrite, Become, TypeOK, Request, Idle
<1> HIDE DEF u, n
<1>5. n <= secrets /\ \A v \in Users \ {u} : enrolment[v].state = "pending" =>
                         enrolment[v].secret # n
  BY <1>1, <1>2 DEF OwnSecrets, Enrolled, n
<1>6. \A code \in CodesOf(n) : code \in RecoveryCode /\ code[1] = n
  BY <1>1 DEF CodesOf, RecoveryCode
<1>7. \A code \in CodesOf(n) : ~Spent(code) /\ \A v \in Users : code \notin codes[v]
  BY <1>1, <1>2, <1>6 DEF CodesInv, CodesOfSecrets, n
<1>8. /\ Opened' = Opened
      /\ \A x \in Opening' : x \in Opening /\ req'[x].code = req[x].code
  BY <1>2, <1>4 DEF Opened, Opening, At
<1>9. ASSUME NEW code, Spent(code)' PROVE Spent(code)
  BY <1>2, <1>8, <1>9 DEF Spent
<1>10. \A x \in Requests : NoCodeYet(req'[x])
  BY <1>4 DEF NoCodeYet, CodesInv, CodesOfSecrets
<1>11. \A v \in Users : enrolment'[v].state = "pending" =>
          v # u /\ enrolment[v].state = "pending" /\ enrolment'[v].secret = enrolment[v].secret
  BY <1>3
<1>12. CodesOfSecrets'
  <2>1. ASSUME NEW v \in Users, NEW code \in codes'[v]
        PROVE  /\ code[1] <= secrets
               /\ \A w \in Users : w # v => code \notin codes'[w]
               /\ \A w \in Users : enrolment'[w].state = "pending" => enrolment'[w].secret # code[1]
    <3>1. CASE v = u
      BY <1>3, <1>5, <1>6, <1>7, <1>11, <3>1
    <3>2. CASE v # u
      BY <1>3, <1>7, <1>11, <3>2 DEF CodesInv, CodesOfSecrets
    <3> QED BY <3>1, <3>2
  <2>2. ASSUME NEW code \in RecoveryCode, Spent(code)'
        PROVE  /\ code[1] <= secrets
               /\ \A w \in Users : enrolment'[w].state = "pending" => enrolment'[w].secret # code[1]
    BY <1>9, <1>11, <2>2 DEF CodesInv, CodesOfSecrets
  <2> QED BY <1>2, <1>10, <2>1, <2>2 DEF CodesOfSecrets, NoCodeYet
<1>13. RecoveryCodeOpensOnce'
  <2>1. RecoveryCodeOpensOnce
    BY DEF CodesInv
  <2>2. \A v \in Users : \A code \in codes'[v] : code \in codes[v] \/ ~Spent(code)
    BY <1>3, <1>7
  <2>3. \A v \in Users : /\ \A s \in Opened : session[s].code \notin codes'[v]
                         /\ \A x \in Opening' : req'[x].code \notin codes'[v]
    BY <1>8, <2>1, <2>2 DEF RecoveryCodeOpensOnce, Spent
  <2> QED BY <1>2, <1>8, <2>1, <2>3 DEF RecoveryCodeOpensOnce
<1> QED BY <1>12, <1>13 DEF CodesInv

LEMMA SignInCodes ==
    ASSUME TypeOK, CodesInv, NEW r \in Requests, SignInStep(r) PROVE CodesInv'
<1>0. req[r] \in Request
  BY DEF TypeOK
<1>1. ASSUME NEW u \in Users, SignIn(r, u) PROVE CodesInv'
  <2> DEFINE q == [Idle EXCEPT !.pc = "demand", !.user = u, !.required = policy]
  <2>1. q.pc = "demand" /\ q.code = <<>>
    BY DEF Idle
  <2>2. Become(r, q) /\ KeepsCodes
    BY <1>1, RowsKeepCodes DEF SignIn, Rows
  <2> HIDE DEF q
  <2> QED BY <2>1, <2>2, CodesMove DEF NoCodeYet
<1>2. CASE Demand(r)
  <2>1. PICK pc \in {"owes", "mint"} : Become(r, [req[r] EXCEPT !.pc = pc])
    BY <1>2 DEF Demand
  <2> DEFINE q == [req[r] EXCEPT !.pc = pc]
  <2>2. q.pc = pc /\ q.code = req[r].code
    BY <1>0 DEF Request
  <2>3. req[r].code = <<>>
    BY <1>2 DEF Demand, At, CodesInv, CodesOfSecrets, NoCodeYet
  <2>4. Become(r, q) /\ KeepsCodes
    BY <1>2, <2>1, RowsKeepCodes DEF Demand, Rows
  <2> HIDE DEF q
  <2> QED BY <2>2, <2>3, <2>4, CodesMove DEF NoCodeYet
<1>3. CASE IssueChallenge(r)
  BY <1>3, RowsKeepCodes, CodesReturn DEF IssueChallenge, Rows
<1>4. CASE Mint(r)
  <2>1. CASE session' = session
    BY <1>4, <2>1, RowsKeepCodes, CodesReturn DEF Mint, Rows
  <2>2. CASE session' # session
    BY <1>4, <2>2, MintOpens
  <2> QED BY <2>1, <2>2
<1> QED BY <1>1, <1>2, <1>3, <1>4 DEF SignInStep

LEMMA EnrolCodes ==
    ASSUME TypeOK, Named, OwnSecrets, CodesInv, NEW r \in Requests, EnrolStep(r)
    PROVE  CodesInv'
<1>0. req[r] \in Request
  BY DEF TypeOK
<1>1. ASSUME NEW s \in Sids, Validate(r, s) PROVE CodesInv'
  <2> DEFINE q == [Idle EXCEPT !.pc = "self", !.user = session[s].user, !.sess = s]
  <2>1. q.pc = "self" /\ q.code = <<>>
    BY DEF Idle
  <2>2. Become(r, q) /\ KeepsCodes
    BY <1>1, RowsKeepCodes DEF Validate, Rows
  <2> HIDE DEF q
  <2> QED BY <2>1, <2>2, CodesMove DEF NoCodeYet
<1>2. CASE BeginSelf(r) \/ BeginWrite(r)
  <2>1. Enrols(req[r].user) /\ Return(r) /\ UNCHANGED <<codes, session>>
    BY <1>2 DEF BeginSelf, BeginWrite
  <2>2. ASSUME NEW v \in Users
        PROVE  enrolment'[v] = enrolment[v] \/ enrolment'[v].secret = secrets + 1
    BY <2>1 DEF Enrols, Pending, TypeOK
  <2>3. KeepsCodes
    BY <2>1, <2>2 DEF KeepsCodes, Enrols
  <2> QED BY <2>1, <2>3, CodesReturn
<1>3. ASSUME NEW c \in Challenges, Begin(r, c) PROVE CodesInv'
  <2> DEFINE q == [Idle EXCEPT !.pc = "enrolWrite", !.user = challenge[c].user, !.ch = c]
  <2>1. q.pc = "enrolWrite"
    BY DEF Idle
  <2>2. Become(r, q) /\ KeepsCodes
    BY <1>3, RowsKeepCodes DEF Begin, Rows
  <2> HIDE DEF q
  <2> QED BY <2>1, <2>2, CodesMove DEF NoCodeYet
<1>4. ASSUME NEW c \in Challenges \cup {NoChallenge}, NEW step \in Window, Confirm(r, c, step)
      PROVE  CodesInv'
  <2> DEFINE u == Subject(r, c)
             q == [req[r] EXCEPT !.pc = "confirmWrite", !.user = u, !.ch = c,
                                 !.secret = enrolment[u].secret, !.step = step]
  <2>1. q.pc = "confirmWrite" /\ q.code = req[r].code
    BY <1>0 DEF Request
  <2>2. req[r].code = <<>>
    BY <1>4 DEF Confirm, MayConfirm, At, CodesInv, CodesOfSecrets, NoCodeYet
  <2>3. Become(r, q) /\ KeepsCodes
    BY <1>4, RowsKeepCodes DEF Confirm, Rows
  <2> HIDE DEF q
  <2> QED BY <2>1, <2>2, <2>3, CodesMove DEF NoCodeYet
<1>5. CASE ConfirmWrite(r)
  BY <1>5, ConfirmIssues
<1>6. CASE ConfirmRefused(r)
  BY <1>6, RowsKeepCodes, CodesReturn DEF ConfirmRefused, Rows
<1> QED BY <1>1, <1>2, <1>3, <1>4, <1>5, <1>6 DEF EnrolStep

LEMMA VerifyCodes ==
    ASSUME TypeOK, Named, CodesInv, NEW r \in Requests, VerifyStep(r) PROVE CodesInv'
<1>0. req[r] \in Request
  BY DEF TypeOK
<1>1. ASSUME NEW c \in Challenges, NEW step, NEW code, Verify(r, c, step, code)
      PROVE  CodesInv'
  <2>1. PICK n : Become(r, [Idle EXCEPT !.pc = "redeem", !.user = challenge[c].user, !.ch = c,
                                        !.step = step, !.code = code, !.secret = n])
    BY <1>1 DEF Verify
  <2> DEFINE q == [Idle EXCEPT !.pc = "redeem", !.user = challenge[c].user, !.ch = c,
                               !.step = step, !.code = code, !.secret = n]
  <2>2. q.pc = "redeem"
    BY DEF Idle
  <2>3. Become(r, q) /\ KeepsCodes
    BY <1>1, <2>1, RowsKeepCodes DEF Verify, Rows
  <2> HIDE DEF q
  <2> QED BY <2>2, <2>3, CodesMove DEF NoCodeYet
<1>2. CASE Redeem(r)
  <2>1. PICK q \in {[req[r] EXCEPT !.pc = "spend"], Idle} : Become(r, q)
    BY <1>2 DEF Redeem
  <2>2. NoCodeYet(q) /\ q.pc # "mint"
    BY <1>0, <2>1 DEF NoCodeYet, Idle, Request
  <2>3. KeepsCodes
    BY <1>2, RowsKeepCodes DEF Redeem, Rows
  <2> QED BY <2>1, <2>2, <2>3, CodesMove
<1>3. CASE Spend(r)
  <2>1. CASE req[r].code = <<>>
    <3> DEFINE q == [req[r] EXCEPT !.pc = "mint"]
    <3>1. q.code = <<>>
      BY <1>0, <2>1 DEF Request
    <3>2. ASSUME NEW v \in Users
          PROVE  /\ enrolment'[v].state = enrolment[v].state
                 /\ enrolment'[v].secret = enrolment[v].secret
      <4>1. enrolment[v] \in Enrolment
        BY DEF TypeOK
      <4>2. /\ [enrolment[v] EXCEPT !.used = req[r].step].state = enrolment[v].state
            /\ [enrolment[v] EXCEPT !.used = req[r].step].secret = enrolment[v].secret
        BY <4>1 DEF Enrolment
      <4>3. enrolment' = [enrolment EXCEPT ![req[r].user] =
                             [enrolment[req[r].user] EXCEPT !.used = req[r].step]]
        BY <1>3, <2>1 DEF Spend
      <4> QED BY <4>2, <4>3 DEF TypeOK
    <3>3. Become(r, q) /\ UNCHANGED <<codes, session, secrets>>
      BY <1>3, <2>1 DEF Spend
    <3>4. KeepsCodes
      BY <3>2, <3>3 DEF KeepsCodes
    <3> HIDE DEF q
    <3> QED BY <3>1, <3>3, <3>4, CodesMove DEF NoCodeYet
  <2>2. CASE req[r].code # <<>>
    BY <1>3, <2>2, SpendOpens
  <2> QED BY <2>1, <2>2
<1>4. CASE SpendRefused(r)
  BY <1>4, RowsKeepCodes, CodesReturn DEF SpendRefused, Rows
<1> QED BY <1>1, <1>2, <1>3, <1>4 DEF VerifyStep

LEMMA ResetCodes ==
    ASSUME TypeOK, CodesInv, NEW r \in Requests, ResetStep(r) PROVE CodesInv'
<1>1. ASSUME NEW u \in Users, Reset(r, u) PROVE CodesInv'
  <2>1. PICK n : Become(r, [Idle EXCEPT !.pc = "resetRevoke", !.user = u, !.secret = n])
    BY <1>1 DEF Reset
  <2> DEFINE q == [Idle EXCEPT !.pc = "resetRevoke", !.user = u, !.secret = n]
  <2>2. q.pc = "resetRevoke"
    BY DEF Idle
  <2>3. \A v \in Users : /\ enrolment'[v] = enrolment[v] \/ enrolment'[v].state = "none"
                         /\ codes'[v] \subseteq codes[v]
    BY <1>1 DEF Reset, NoEnrolment, TypeOK
  <2>4. KeepsCodes
    BY <1>1, <2>3 DEF Reset, KeepsCodes
  <2>5. Become(r, q)
    BY <2>1
  <2> HIDE DEF q
  <2> QED BY <2>2, <2>4, <2>5, CodesMove DEF NoCodeYet
<1>2. CASE ResetRevoke(r)
  <2>1. ASSUME NEW s \in Sids PROVE session'[s].code = session[s].code
    <3>1. session[s] \in Session
      BY DEF TypeOK
    <3> QED BY <1>2, <3>1 DEF ResetRevoke, Session
  <2>2. KeepsCodes
    BY <1>2, <2>1 DEF ResetRevoke, KeepsCodes
  <2> QED BY <1>2, <2>2, CodesReturn DEF ResetRevoke
<1> QED BY <1>1, <1>2 DEF ResetStep

LEMMA CodesInit == Init => CodesInv
<1> SUFFICES ASSUME Init PROVE CodesInv
    OBVIOUS
<1>1. Opened = {} /\ Opening = {}
  BY DEF Init, Opened, Opening, At, NoSessionRow, Idle
<1>2. \A u \in Users : codes[u] = {}
  BY DEF Init
<1>3. \A r \in Requests : NoCodeYet(req[r])
  BY DEF Init, NoCodeYet, Idle
<1>4. \A code : ~Spent(code)
  BY <1>1 DEF Spent
<1> QED BY <1>1, <1>2, <1>3, <1>4 DEF CodesInv, CodesOfSecrets, RecoveryCodeOpensOnce

LEMMA CodesStep == IInv /\ CodesInv /\ [Next]_vars => CodesInv'
<1> SUFFICES ASSUME IInv, CodesInv, [Next]_vars PROVE CodesInv'
    OBVIOUS
<1>0. TypeOK /\ Named /\ OwnSecrets
  BY DEF IInv
<1>1. CASE UNCHANGED <<Rows, req>>
  <2>1. \A r \in Requests : req'[r] = req[r] /\ NoCodeYet(req[r])
    BY <1>1 DEF CodesInv, CodesOfSecrets
  <2> QED BY <1>0, <1>1, <2>1, RowsKeepCodes, CodesKept
<1>2. ASSUME NEW r \in Requests, Crash(r) PROVE CodesInv'
  BY <1>0, <1>2, RowsKeepCodes, CodesReturn DEF Crash, Rows
<1> QED BY <1>0, <1>1, <1>2, SignInCodes, EnrolCodes, VerifyCodes, ResetCodes
        DEF Next, World, SetPolicy, RemoveMember, Tick, vars, Rows

(* A recovery code opens one session at most, for any number of codes and  *)
(* overlapping requests that die anywhere (repo/two_factor.ts,             *)
(* spendFactor): the code leaves its holder's in the step that spends it,  *)
(* and a confirmation issues codes of a secret that had none.              *)
THEOREM RecoveryCodesOpenOnce == Spec => []RecoveryCodeOpensOnce
<1>1. CodesInv => RecoveryCodeOpensOnce
  BY DEF CodesInv
<1> QED BY <1>1, Invariant, CodesInit, CodesStep, PTL DEF Spec

-----------------------------------------------------------------------------
(* Whose secrets are                                                       *)

People == Users \cup {NoUser}

(* The secret n is in u's enrolment, in a recovery code of u's, in a        *)
(* request about u or behind a session of u's.                              *)
Held(u, n) ==
    \/ u \in Users /\ enrolment[u].secret = n
    \/ u \in Users /\ \E code \in codes[u] : code[1] = n
    \/ \E r \in Requests : req[r].user = u /\ req[r].secret = n
    \/ \E s \in Sids : session[s].user = u /\ session[s].passed = n

(* A secret has one holder, and was minted.                                *)
OneHolder ==
    \A n \in Nat \ {0}, u \in People : Held(u, n) =>
        n <= secrets /\ \A v \in People : Held(v, n) => u = v

(* Somebody may still pass the factor n.                                   *)
Passable(n) ==
    \/ \E u \in Users : enrolment[u].secret = n \/ \E code \in codes[u] : code[1] = n
    \/ \E r \in Requests : ~At(r, "idle") /\ ~At(r, "resetRevoke") /\ req[r].secret = n

(* A step hands secrets on and mints at most one, which is p's.            *)
HandsOn(p) ==
    /\ secrets' \in Nat /\ secrets <= secrets'
    /\ \A n \in Nat \ {0} :
          /\ \A u \in People : Held(u, n)' =>
                Held(u, n) \/ (n = secrets + 1 /\ n = secrets' /\ u = p)
          /\ Passable(n)' => Passable(n) \/ n = secrets + 1
          /\ \A s \in Sids : LiveSession(s)' /\ session'[s].passed = n =>
                (LiveSession(s) /\ session[s].passed = n) \/ Passable(n)

(* What r may come to be about.                                            *)
Knows(q) ==
    q.secret = 0 \/ (/\ Held(q.user, q.secret)
                     /\ q.pc \in {"idle", "resetRevoke"} \/ Passable(q.secret))

Kin(old, new) == new.user = old.user /\ new.passed = old.passed

LEMMA StepHandsOn ==
    ASSUME TypeOK, NEW r \in Requests, NEW q, Become(r, q), Knows(q), NEW p,
           secrets' = secrets \/ secrets' = secrets + 1,
           \A u \in Users :
              \/ enrolment'[u].secret = 0
              \/ enrolment'[u].secret = enrolment[u].secret
              \/ enrolment'[u].secret = secrets + 1 /\ u = p /\ secrets' = secrets + 1,
           \A u \in Users : \A code \in codes'[u] :
              code \in codes[u] \/ code[1] = enrolment[u].secret,
           \A s \in Sids :
              \/ Kin(session[s], session'[s]) /\ (LiveSession(s)' => LiveSession(s))
              \/ /\ session'[s].user = req[r].user /\ session'[s].passed = req[r].secret
                 /\ At(r, "mint")
    PROVE  HandsOn(p)
<1>0. /\ secrets \in Nat
      /\ req'[r] = q /\ \A x \in Requests \ {r} : req'[x] = req[x]
  BY DEF TypeOK, Become
<1>1. ASSUME NEW n \in Nat \ {0}, NEW u \in People, Held(u, n)'
      PROVE  Held(u, n) \/ (n = secrets + 1 /\ n = secrets' /\ u = p)
  <2>1. CASE u \in Users /\ enrolment'[u].secret = n
    BY <1>0, <2>1 DEF Held
  <2>2. CASE u \in Users /\ \E code \in codes'[u] : code[1] = n
    BY <2>2 DEF Held
  <2>3. CASE \E x \in Requests : req'[x].user = u /\ req'[x].secret = n
    BY <1>0, <2>3 DEF Held, Knows
  <2>4. CASE \E s \in Sids : session'[s].user = u /\ session'[s].passed = n
    BY <2>4 DEF Held, Kin
  <2> QED BY <1>1, <2>1, <2>2, <2>3, <2>4 DEF Held
<1>2. ASSUME NEW n \in Nat \ {0}, Passable(n)' PROVE Passable(n) \/ n = secrets + 1
  <2>1. CASE \E u \in Users : enrolment'[u].secret = n \/ \E code \in codes'[u] : code[1] = n
    BY <1>0, <2>1 DEF Passable
  <2>2. CASE \E x \in Requests : /\ req'[x].pc \notin {"idle", "resetRevoke"}
                                 /\ req'[x].secret = n
    BY <1>0, <2>2 DEF Passable, Knows, At
  <2> QED BY <1>2, <2>1, <2>2 DEF Passable, At
<1>3. ASSUME NEW n \in Nat \ {0}, NEW s \in Sids, LiveSession(s)', session'[s].passed = n
      PROVE  (LiveSession(s) /\ session[s].passed = n) \/ Passable(n)
  BY <1>3 DEF Kin, Passable, At
<1> QED BY <1>0, <1>1, <1>2, <1>3 DEF HandsOn

(* A step that only moves a request.                                       *)
LEMMA MoveHandsOn ==
    ASSUME TypeOK, NEW r \in Requests, NEW q, Become(r, q), Knows(q), UNCHANGED Rows
    PROVE  HandsOn(NoUser)
<1>1. \A s \in Sids : Kin(session[s], session'[s]) /\ (LiveSession(s)' => LiveSession(s))
  BY DEF Rows, Kin, LiveSession
<1> QED BY <1>1, StepHandsOn DEF Rows

(* A request that goes on, to the same end, and one that ends.             *)
LEMMA KeepsKnowing ==
    ASSUME NEW r \in Requests, ~At(r, "idle"), ~At(r, "resetRevoke"),
           NEW q, q.secret = req[r].secret, q.user = req[r].user
    PROVE  Knows(q)
  BY DEF Knows, Held, Passable

LEMMA IdleKnows == Knows(Idle)
  BY DEF Knows, Idle

LEMMA EnrolmentKnown ==
    ASSUME NEW u \in Users, NEW q, q.user = u, q.secret = enrolment[u].secret
    PROVE  Knows(q)
  BY DEF Knows, Held, Passable

LEMMA CodeKnown ==
    ASSUME NEW u \in Users, NEW code \in codes[u], NEW q, q.user = u, q.secret = code[1]
    PROVE  Knows(q)
  BY DEF Knows, Held, Passable

LEMMA SignInHandsOn ==
    ASSUME TypeOK, NEW r \in Requests, SignInStep(r) PROVE HandsOn(NoUser)
<1>0. req[r] \in Request
  BY DEF TypeOK
<1>1. ASSUME NEW u \in Users, SignIn(r, u) PROVE HandsOn(NoUser)
  <2>1. Knows([Idle EXCEPT !.pc = "demand", !.user = u, !.required = policy])
    BY DEF Knows, Idle
  <2> QED BY <1>1, <2>1, MoveHandsOn DEF SignIn, Rows
<1>2. CASE Demand(r)
  <2>1. PICK pc : Become(r, [req[r] EXCEPT !.pc = pc])
    BY <1>2 DEF Demand
  <2>2. Knows([req[r] EXCEPT !.pc = pc])
    BY <1>0, <1>2, KeepsKnowing DEF Demand, At, Request
  <2> QED BY <1>2, <2>1, <2>2, MoveHandsOn DEF Demand, Rows
<1>3. CASE IssueChallenge(r)
  BY <1>3, IdleKnows, MoveHandsOn DEF IssueChallenge, Return, Rows
<1>4. CASE Mint(r)
  <2>1. \A s \in Sids :
           \/ Kin(session[s], session'[s]) /\ (LiveSession(s)' => LiveSession(s))
           \/ session'[s].user = req[r].user /\ session'[s].passed = req[r].secret
              /\ At(r, "mint")
    BY <1>4 DEF Mint, Kin, LiveSession, TypeOK
  <2> QED BY <1>4, <2>1, IdleKnows, StepHandsOn DEF Mint, Return
<1> QED BY <1>1, <1>2, <1>3, <1>4 DEF SignInStep

LEMMA EnrolsHandsOn ==
    ASSUME TypeOK, NEW r \in Requests, NEW u, Enrols(u), Return(r),
           UNCHANGED <<codes, session>>
    PROVE  HandsOn(u)
<1>1. \A s \in Sids : Kin(session[s], session'[s]) /\ (LiveSession(s)' => LiveSession(s))
  BY DEF Kin, LiveSession
<1>2. \A v \in Users :
         \/ enrolment'[v].secret = enrolment[v].secret
         \/ enrolment'[v].secret = secrets + 1 /\ v = u /\ secrets' = secrets + 1
  BY DEF Enrols, Pending, TypeOK
<1>3. secrets' = secrets + 1
  BY DEF Enrols
<1> QED BY <1>1, <1>2, <1>3, IdleKnows, StepHandsOn DEF Return

LEMMA EnrolHandsOn ==
    ASSUME TypeOK, Named, NEW r \in Requests, EnrolStep(r)
    PROVE  \E p : HandsOn(p)
<1>0. req[r] \in Request
  BY DEF TypeOK
<1>1. ASSUME NEW s \in Sids, Validate(r, s) PROVE HandsOn(NoUser)
  <2>1. Knows([Idle EXCEPT !.pc = "self", !.user = session[s].user, !.sess = s])
    BY DEF Knows, Idle
  <2> QED BY <1>1, <2>1, MoveHandsOn DEF Validate, Rows
<1>2. CASE BeginSelf(r) \/ BeginWrite(r)
  BY <1>2, EnrolsHandsOn DEF BeginSelf, BeginWrite
<1>3. ASSUME NEW c \in Challenges, Begin(r, c) PROVE HandsOn(NoUser)
  <2>1. Knows([Idle EXCEPT !.pc = "enrolWrite", !.user = challenge[c].user, !.ch = c])
    BY DEF Knows, Idle
  <2> QED BY <1>3, <2>1, MoveHandsOn DEF Begin, Rows
<1>4. ASSUME NEW c \in Challenges \cup {NoChallenge}, NEW step \in Window, Confirm(r, c, step)
      PROVE  HandsOn(NoUser)
  <2> DEFINE u == Subject(r, c)
             q == [req[r] EXCEPT !.pc = "confirmWrite", !.user = u, !.ch = c,
                                 !.secret = enrolment[u].secret, !.step = step]
  <2>1. u \in Users
    BY <1>4, SubjectIsNamed DEF Confirm
  <2>2. q.user = u /\ q.secret = enrolment[u].secret
    BY <1>0 DEF Request
  <2>3. Become(r, q) /\ UNCHANGED Rows
    BY <1>4 DEF Confirm, Rows
  <2> HIDE DEF u, q
  <2> QED BY <2>1, <2>2, <2>3, EnrolmentKnown, MoveHandsOn
<1>5. CASE ConfirmWrite(r)
  <2> DEFINE u == req[r].user
             q == IF req[r].ch = NoChallenge THEN Idle ELSE [req[r] EXCEPT !.pc = "mint"]
  <2>1. Become(r, q) /\ UNCHANGED <<session, secrets>> /\ At(r, "confirmWrite")
    BY <1>5 DEF ConfirmWrite
  <2>2. Knows(q)
    <3>1. Knows([req[r] EXCEPT !.pc = "mint"])
      BY <1>0, <2>1, KeepsKnowing DEF At, Request
    <3> QED BY <3>1, IdleKnows
  <2>3. \A v \in Users : enrolment'[v].secret = enrolment[v].secret
    BY <1>5 DEF ConfirmWrite, TypeOK, Enrolment
  <2>4. \A v \in Users : \A code \in codes'[v] :
           code \in codes[v] \/ code[1] = enrolment[v].secret
    BY <1>5 DEF ConfirmWrite, CodesOf, TypeOK
  <2>5. \A s \in Sids : Kin(session[s], session'[s]) /\ (LiveSession(s)' => LiveSession(s))
    BY <2>1 DEF Kin, LiveSession
  <2> HIDE DEF q
  <2>6. HandsOn(NoUser)
    BY <2>1, <2>2, <2>3, <2>4, <2>5, StepHandsOn
  <2> QED BY <2>6
<1>6. CASE ConfirmRefused(r)
  BY <1>6, IdleKnows, MoveHandsOn DEF ConfirmRefused, Return, Rows
<1> QED BY <1>1, <1>2, <1>3, <1>4, <1>5, <1>6 DEF EnrolStep

LEMMA VerifyHandsOn ==
    ASSUME TypeOK, Named, NEW r \in Requests, VerifyStep(r)
    PROVE  HandsOn(NoUser)
<1>0. req[r] \in Request
  BY DEF TypeOK
<1>1. ASSUME NEW c \in Challenges, NEW step, NEW code, Verify(r, c, step, code)
      PROVE  HandsOn(NoUser)
  <2> DEFINE u == challenge[c].user
             n == IF code = <<>> THEN enrolment[u].secret ELSE code[1]
             q == [Idle EXCEPT !.pc = "redeem", !.user = u, !.ch = c, !.step = step,
                               !.code = code, !.secret = n]
  <2>1. u \in Users
    BY <1>1 DEF Verify, Resolved, LiveChallenge, Named
  <2>2. q.user = u /\ q.secret = n
    BY DEF Idle
  <2>3. Become(r, q) /\ UNCHANGED Rows /\ (code # <<>> => code \in codes[u])
    BY <1>1 DEF Verify, Rows
  <2> HIDE DEF u, q
  <2>4. Knows(q)
    BY <2>1, <2>2, <2>3, EnrolmentKnown, CodeKnown
  <2> QED BY <2>3, <2>4, MoveHandsOn
<1>2. CASE Redeem(r)
  <2>1. PICK q \in {[req[r] EXCEPT !.pc = "spend"], Idle} : Become(r, q)
    BY <1>2 DEF Redeem
  <2>2. Knows([req[r] EXCEPT !.pc = "spend"])
    BY <1>0, <1>2, KeepsKnowing DEF Redeem, At, Request
  <2> QED BY <1>2, <2>1, <2>2, IdleKnows, MoveHandsOn DEF Redeem, Rows
<1>3. CASE Spend(r)
  <2>1. Knows([req[r] EXCEPT !.pc = "mint"])
    BY <1>0, <1>3, KeepsKnowing DEF Spend, At, Request
  <2>2. ASSUME NEW v \in Users PROVE enrolment'[v].secret = enrolment[v].secret
    <3>1. enrolment[v] \in Enrolment
      BY DEF TypeOK
    <3>2. [enrolment[v] EXCEPT !.used = req[r].step].secret = enrolment[v].secret
      BY <3>1 DEF Enrolment
    <3>3. \/ enrolment' = enrolment
          \/ enrolment' = [enrolment EXCEPT ![req[r].user] =
                              [enrolment[req[r].user] EXCEPT !.used = req[r].step]]
      BY <1>3 DEF Spend
    <3> QED BY <3>2, <3>3 DEF TypeOK
  <2>3. \A v \in Users : codes'[v] \subseteq codes[v]
    BY <1>3 DEF Spend, TypeOK
  <2>4. \A s \in Sids : Kin(session[s], session'[s]) /\ (LiveSession(s)' => LiveSession(s))
    BY <1>3 DEF Spend, Kin, LiveSession
  <2>5. Become(r, [req[r] EXCEPT !.pc = "mint"]) /\ secrets' = secrets
    BY <1>3 DEF Spend
  <2> QED BY <2>1, <2>2, <2>3, <2>4, <2>5, StepHandsOn
<1>4. CASE SpendRefused(r)
  BY <1>4, IdleKnows, MoveHandsOn DEF SpendRefused, Return, Rows
<1> QED BY <1>1, <1>2, <1>3, <1>4 DEF VerifyStep

(* What a reset of u remembers.                                            *)
Forgets(u) == [Idle EXCEPT !.pc = "resetRevoke", !.user = u,
                           !.secret = IF u \in members THEN enrolment[u].secret ELSE 0]

LEMMA ResetHandsOn ==
    ASSUME TypeOK, NEW r \in Requests, ResetStep(r) PROVE HandsOn(NoUser)
<1>1. ASSUME NEW u \in Users, Reset(r, u) PROVE HandsOn(NoUser)
  <2>1. Forgets(u).user = u /\ Forgets(u).pc = "resetRevoke"
        /\ Forgets(u).secret \in {0, enrolment[u].secret}
    BY DEF Forgets, Idle
  <2>2. Knows(Forgets(u))
    BY <2>1 DEF Knows, Held
  <2>3. \A v \in Users : enrolment'[v].secret = 0 \/ enrolment'[v].secret = enrolment[v].secret
    BY <1>1 DEF Reset, NoEnrolment, TypeOK
  <2>4. \A v \in Users : codes'[v] \subseteq codes[v]
    BY <1>1 DEF Reset, TypeOK
  <2>5. \A s \in Sids : Kin(session[s], session'[s]) /\ (LiveSession(s)' => LiveSession(s))
    BY <1>1 DEF Reset, Kin, LiveSession
  <2>6. Become(r, Forgets(u)) /\ secrets' = secrets
    BY <1>1 DEF Reset, Forgets
  <2> QED BY <2>2, <2>3, <2>4, <2>5, <2>6, StepHandsOn
<1>2. CASE ResetRevoke(r)
  <2>1. ASSUME NEW s \in Sids
        PROVE  Kin(session[s], session'[s]) /\ (LiveSession(s)' => LiveSession(s))
    <3>1. session[s] \in Session
      BY DEF TypeOK
    <3> QED BY <1>2, <3>1 DEF ResetRevoke, Kin, LiveSession, Session
  <2> QED BY <1>2, <2>1, IdleKnows, StepHandsOn DEF ResetRevoke, Return
<1> QED BY <1>1, <1>2 DEF ResetStep

LEMMA SecretsAreHandedOn ==
    ASSUME TypeOK, Named, [Next]_vars
    PROVE  \E p : HandsOn(p)
<1>1. CASE UNCHANGED <<enrolment, codes, session, secrets, req>>
  <2>1. HandsOn(NoUser)
    BY <1>1 DEF HandsOn, Held, Passable, LiveSession, At, TypeOK
  <2> QED BY <2>1
<1>2. ASSUME NEW r \in Requests, Crash(r) PROVE HandsOn(NoUser)
  BY <1>2, IdleKnows, MoveHandsOn DEF Crash, Return, Rows
<1> QED BY <1>1, <1>2, SignInHandsOn, EnrolHandsOn, VerifyHandsOn, ResetHandsOn
        DEF Next, World, SetPolicy, RemoveMember, Tick, vars

LEMMA HolderStep ==
    ASSUME TypeOK, OneHolder, NEW p, HandsOn(p) PROVE OneHolder'
<1> SUFFICES ASSUME NEW n \in Nat \ {0}, NEW u \in People, Held(u, n)'
             PROVE  n <= secrets' /\ \A v \in People : Held(v, n)' => u = v
    BY DEF OneHolder
<1>1. secrets \in Nat /\ secrets' \in Nat /\ secrets <= secrets'
  BY DEF TypeOK, HandsOn
<1>2. \A v \in People : Held(v, n)' => Held(v, n) \/ (n = secrets + 1 /\ n = secrets' /\ v = p)
  BY DEF HandsOn
<1>3. \A v \in People : Held(v, n) => n <= secrets
  BY DEF OneHolder
<1>4. n <= secrets'
  BY <1>1, <1>2, <1>3
<1>5. ASSUME NEW v \in People, Held(v, n)' PROVE u = v
  BY <1>1, <1>2, <1>3, <1>5 DEF OneHolder
<1> QED BY <1>4, <1>5

-----------------------------------------------------------------------------
(* One request at a time                                                   *)

OneBusy == \A q, r \in Requests : ~At(q, "idle") /\ ~At(r, "idle") => q = r

(* A factor a completed reset cleared is nobody's to pass, and nobody who  *)
(* passed it is signed in.                                                 *)
ClearedIsGone ==
    \A n \in cleared :
        /\ n # 0 /\ n <= secrets /\ ~Passable(n)
        /\ \A s \in Sids : LiveSession(s) => session[s].passed # n

(* Between its two transactions a reset has taken all there was to pass.   *)
ResetTakesAll ==
    \A r \in Requests, n \in Nat \ {0} :
        At(r, "resetRevoke") /\ req[r].secret = n => n <= secrets /\ ~Passable(n)

OneAtATime == OneBusy /\ ClearedIsGone /\ ResetTakesAll

RegimeInv == IInv /\ OneHolder /\ (regime = "one" => OneAtATime)

(* Whoever moves has the others idle before and after.                     *)
LEMMA OthersIdle ==
    ASSUME OneBusy, OneBusy', NEW r \in Requests, ~At(r, "idle") \/ ~At(r, "idle")',
           \A q \in Requests \ {r} : req'[q] = req[q]
    PROVE  \A q \in Requests \ {r} : At(q, "idle") /\ req'[q].pc = "idle"
  BY DEF OneBusy, At

(* A request other than a reset and its end clears nothing.                *)
LEMMA ClearedKept ==
    ASSUME TypeOK, ClearedIsGone, NEW p, HandsOn(p), cleared' = cleared
    PROVE  ClearedIsGone'
<1> SUFFICES ASSUME NEW n \in cleared
             PROVE  /\ n # 0 /\ n <= secrets' /\ ~Passable(n)'
                    /\ \A s \in Sids : LiveSession(s)' => session'[s].passed # n
    BY DEF ClearedIsGone
<1>1. n \in Nat \ {0} /\ n <= secrets /\ ~Passable(n) /\ secrets \in Nat
      /\ \A s \in Sids : LiveSession(s) => session[s].passed # n
  BY DEF ClearedIsGone, TypeOK
<1>2. ~Passable(n)'
  BY <1>1 DEF HandsOn
<1>3. \A s \in Sids : LiveSession(s)' => session'[s].passed # n
  BY <1>1 DEF HandsOn
<1> QED BY <1>1, <1>2, <1>3 DEF HandsOn

(* The end of a reset ends every session that passed what it cleared, for  *)
(* they are the person's.                                                  *)
LEMMA ResetClears ==
    ASSUME IInv, OneHolder, ClearedIsGone, ResetTakesAll, NEW r \in Requests,
           ResetRevoke(r), NEW p, HandsOn(p)
    PROVE  ClearedIsGone'
<1>0. TypeOK /\ req[r] \in Request /\ secrets \in Nat
  BY DEF IInv, TypeOK
<1>1. ASSUME NEW s \in Sids, LiveSession(s)'
      PROVE  /\ LiveSession(s) /\ session'[s] = session[s]
             /\ session[s].user # req[r].user
  <2>1. session[s] \in Session
    BY <1>0 DEF TypeOK
  <2> QED BY <1>1, <2>1 DEF ResetRevoke, LiveSession, Session
<1> SUFFICES ASSUME NEW n \in cleared'
             PROVE  /\ n # 0 /\ n <= secrets' /\ ~Passable(n)'
                    /\ \A s \in Sids : LiveSession(s)' => session'[s].passed # n
    BY DEF ClearedIsGone
<1>2. n \in cleared \/ (n = req[r].secret /\ n # 0)
  BY DEF ResetRevoke
<1>3. n \in Nat \ {0} /\ n <= secrets /\ ~Passable(n)
  BY <1>0, <1>2 DEF ClearedIsGone, ResetTakesAll, ResetRevoke, TypeOK, Request
<1>4. ~Passable(n)' /\ n <= secrets'
  BY <1>0, <1>3 DEF HandsOn
<1>5. ASSUME NEW s \in Sids, LiveSession(s)', session'[s].passed = n PROVE FALSE
  <2>1. CASE n \in cleared
    BY <1>1, <1>5, <2>1 DEF ClearedIsGone
  <2>2. CASE n = req[r].secret
    <3>1. session[s].user \in People /\ req[r].user \in People
      BY <1>0 DEF TypeOK, Session, Request, People
    <3>2. Held(session[s].user, n) /\ Held(req[r].user, n)
      BY <1>1, <1>5, <2>2 DEF Held
    <3> QED BY <1>1, <1>3, <1>5, <3>1, <3>2 DEF OneHolder
  <2> QED BY <1>2, <2>1, <2>2
<1> QED BY <1>3, <1>4, <1>5

(* The first transaction of a reset takes the enrolment and the codes, and *)
(* no other request is there to hold the secret.                           *)
LEMMA ResetTakes ==
    ASSUME IInv, OneHolder, OneBusy, OneBusy', NEW r \in Requests, NEW u \in Users,
           Reset(r, u)
    PROVE  ResetTakesAll'
<1>0. TypeOK /\ secrets' = secrets /\ secrets \in Nat
  BY DEF IInv, TypeOK, Reset
<1>1. req'[r] = Forgets(u) /\ \A q \in Requests \ {r} : req'[q] = req[q]
  BY <1>0 DEF Reset, Forgets, Become, TypeOK
<1>2. /\ req'[r].pc = "resetRevoke"
      /\ req'[r].secret = IF u \in members THEN enrolment[u].secret ELSE 0
  BY <1>1 DEF Forgets, Idle
<1>3. \A q \in Requests \ {r} : req'[q].pc = "idle"
  BY <1>1, <1>2, OthersIdle DEF At
<1>4. SUFFICES ASSUME NEW n \in Nat \ {0}, n = req'[r].secret
               PROVE  n <= secrets /\ ~Passable(n)'
  BY <1>0, <1>3 DEF ResetTakesAll, At
<1>5. u \in members /\ n = enrolment[u].secret
  BY <1>2, <1>4
<1>6. n <= secrets /\ \A v \in Users : Held(v, n) => v = u
  BY <1>5 DEF OneHolder, Held, People
<1>7. ASSUME NEW v \in Users
      PROVE  /\ enrolment'[v].secret # n
             /\ \A code \in codes'[v] : code[1] # n
  <2>1. CASE v = u
    BY <1>0, <1>5, <2>1 DEF Reset, NoEnrolment, TypeOK
  <2>2. CASE v # u
    BY <1>0, <1>5, <1>6, <2>2 DEF Reset, Held, TypeOK
  <2> QED BY <2>1, <2>2
<1>8. \A q \in Requests : req'[q].pc \in {"idle", "resetRevoke"}
  BY <1>2, <1>3
<1> QED BY <1>6, <1>7, <1>8 DEF Passable, At

(* A reset that goes on waiting has still taken everything.                *)
LEMMA ResetWaits ==
    ASSUME TypeOK, ResetTakesAll, NEW p, HandsOn(p),
           \A q \in Requests : req'[q].pc = "resetRevoke" => req'[q] = req[q]
    PROVE  ResetTakesAll'
<1> SUFFICES ASSUME NEW q \in Requests, NEW n \in Nat \ {0},
                    req'[q].pc = "resetRevoke", req'[q].secret = n
             PROVE  n <= secrets' /\ ~Passable(n)'
    BY DEF ResetTakesAll, At
<1>1. n <= secrets /\ ~Passable(n) /\ secrets \in Nat
  BY DEF ResetTakesAll, At, TypeOK
<1> QED BY <1>1 DEF HandsOn

(* What becomes of a request by a step of its own.                         *)
Moves(r) ==
    /\ \A q \in Requests \ {r} : req'[q] = req[q]
    /\ req[r].pc # "idle" \/ req'[r].pc # "idle"
    /\ req'[r].pc = "resetRevoke" => \E u \in Users : Reset(r, u)
    /\ cleared' = cleared \/ ResetRevoke(r)

LEMMA BecomesElse ==
    ASSUME TypeOK, NEW r \in Requests, NEW q, Become(r, q),
           q.pc # "resetRevoke",
           ~At(r, "idle") \/ q.pc # "idle", cleared' = cleared \/ ResetRevoke(r)
    PROVE  Moves(r)
  BY DEF Moves, Become, TypeOK, At

LEMMA ReturnMoves ==
    ASSUME TypeOK, NEW r \in Requests, Return(r), ~At(r, "idle"),
           cleared' = cleared \/ ResetRevoke(r)
    PROVE  Moves(r)
<1>1. Idle.pc = "idle"
  BY DEF Idle
<1> QED BY <1>1, BecomesElse DEF Return

LEMMA SignInMoves == ASSUME TypeOK, NEW r \in Requests, SignInStep(r) PROVE Moves(r)
<1>0. req[r] \in Request
  BY DEF TypeOK
<1>1. ASSUME NEW u \in Users, SignIn(r, u) PROVE Moves(r)
  <2>1. [Idle EXCEPT !.pc = "demand", !.user = u, !.required = policy].pc = "demand"
    BY DEF Idle
  <2> QED BY <1>1, <2>1, BecomesElse DEF SignIn
<1>2. CASE Demand(r)
  <2>1. PICK pc \in {"owes", "mint"} : Become(r, [req[r] EXCEPT !.pc = pc])
    BY <1>2 DEF Demand
  <2>2. [req[r] EXCEPT !.pc = pc].pc = pc
    BY <1>0 DEF Request
  <2> QED BY <1>2, <2>1, <2>2, BecomesElse DEF Demand
<1>3. CASE IssueChallenge(r) \/ Mint(r)
  BY <1>3, ReturnMoves DEF IssueChallenge, Mint, At
<1> QED BY <1>1, <1>2, <1>3 DEF SignInStep

LEMMA EnrolMoves == ASSUME TypeOK, NEW r \in Requests, EnrolStep(r) PROVE Moves(r)
<1>0. req[r] \in Request
  BY DEF TypeOK
<1>1. ASSUME NEW s \in Sids, Validate(r, s) PROVE Moves(r)
  <2>1. [Idle EXCEPT !.pc = "self", !.user = session[s].user, !.sess = s].pc = "self"
    BY DEF Idle
  <2> QED BY <1>1, <2>1, BecomesElse DEF Validate
<1>2. CASE BeginSelf(r) \/ BeginWrite(r) \/ ConfirmRefused(r)
  BY <1>2, ReturnMoves DEF BeginSelf, BeginWrite, ConfirmRefused, At
<1>3. ASSUME NEW c \in Challenges, Begin(r, c) PROVE Moves(r)
  <2>1. [Idle EXCEPT !.pc = "enrolWrite", !.user = challenge[c].user, !.ch = c].pc = "enrolWrite"
    BY DEF Idle
  <2> QED BY <1>3, <2>1, BecomesElse DEF Begin
<1>4. ASSUME NEW c \in Challenges \cup {NoChallenge}, NEW step \in Window, Confirm(r, c, step)
      PROVE  Moves(r)
  <2> DEFINE u == Subject(r, c)
             q == [req[r] EXCEPT !.pc = "confirmWrite", !.user = u, !.ch = c,
                                 !.secret = enrolment[u].secret, !.step = step]
  <2>1. q.pc = "confirmWrite"
    BY <1>0 DEF Request
  <2>2. Become(r, q) /\ cleared' = cleared
    BY <1>4 DEF Confirm
  <2> HIDE DEF u, q
  <2> QED BY <2>1, <2>2, BecomesElse
<1>5. CASE ConfirmWrite(r)
  <2>1. PICK q \in {Idle, [req[r] EXCEPT !.pc = "mint"]} : Become(r, q)
    BY <1>5 DEF ConfirmWrite
  <2>2. q.pc \in {"idle", "mint"}
    BY <1>0, <2>1 DEF Request, Idle
  <2> QED BY <1>5, <2>1, <2>2, BecomesElse DEF ConfirmWrite, At
<1> QED BY <1>1, <1>2, <1>3, <1>4, <1>5 DEF EnrolStep

LEMMA VerifyMoves == ASSUME TypeOK, NEW r \in Requests, VerifyStep(r) PROVE Moves(r)
<1>0. req[r] \in Request
  BY DEF TypeOK
<1>1. ASSUME NEW c \in Challenges, NEW step, NEW code, Verify(r, c, step, code)
      PROVE  Moves(r)
  <2>1. PICK n : Become(r, [Idle EXCEPT !.pc = "redeem", !.user = challenge[c].user, !.ch = c,
                                        !.step = step, !.code = code, !.secret = n])
    BY <1>1 DEF Verify
  <2>2. [Idle EXCEPT !.pc = "redeem", !.user = challenge[c].user, !.ch = c,
                     !.step = step, !.code = code, !.secret = n].pc = "redeem"
    BY DEF Idle
  <2> QED BY <1>1, <2>1, <2>2, BecomesElse DEF Verify
<1>2. CASE Redeem(r) \/ Spend(r)
  <2>1. PICK q \in {Idle, [req[r] EXCEPT !.pc = "spend"], [req[r] EXCEPT !.pc = "mint"]} :
            Become(r, q)
    BY <1>2 DEF Redeem, Spend
  <2>2. q.pc \in {"idle", "spend", "mint"}
    BY <1>0, <2>1 DEF Request, Idle
  <2>3. ~At(r, "idle") /\ cleared' = cleared
    BY <1>2 DEF Redeem, Spend, At
  <2> QED BY <2>1, <2>2, <2>3, BecomesElse
<1>3. CASE SpendRefused(r)
  BY <1>3, ReturnMoves DEF SpendRefused, At
<1> QED BY <1>1, <1>2, <1>3 DEF VerifyStep

LEMMA ResetMoves == ASSUME TypeOK, NEW r \in Requests, ResetStep(r) PROVE Moves(r)
<1>1. ASSUME NEW u \in Users, Reset(r, u) PROVE Moves(r)
  <2>1. Forgets(u).pc = "resetRevoke"
    BY DEF Forgets, Idle
  <2>2. Become(r, Forgets(u)) /\ cleared' = cleared
    BY <1>1 DEF Reset, Forgets
  <2>3. req'[r].pc = "resetRevoke" /\ \A x \in Requests \ {r} : req'[x] = req[x]
    BY <2>1, <2>2 DEF Become, TypeOK
  <2> QED BY <1>1, <2>2, <2>3 DEF Moves
<1>2. CASE ResetRevoke(r)
  BY <1>2, ReturnMoves DEF ResetRevoke, At
<1> QED BY <1>1, <1>2 DEF ResetStep

LEMMA CrashMoves == ASSUME TypeOK, NEW r \in Requests, Crash(r) PROVE Moves(r)
  BY ReturnMoves DEF Crash

(* A step of a request that is alone.                                      *)
LEMMA AloneMoves ==
    ASSUME IInv, OneHolder, OneAtATime, OneBusy', NEW r \in Requests, Moves(r),
           NEW p, HandsOn(p)
    PROVE  OneAtATime'
<1>0. TypeOK /\ OneBusy /\ ClearedIsGone /\ ResetTakesAll
  BY DEF IInv, OneAtATime
<1>1. \A q \in Requests \ {r} : req'[q].pc = "idle"
  BY <1>0, OthersIdle DEF Moves, At
<1>2. ClearedIsGone'
  BY <1>0, ClearedKept, ResetClears DEF Moves
<1>3. ResetTakesAll'
  <2>1. CASE req'[r].pc = "resetRevoke"
    BY <1>0, <2>1, ResetTakes DEF Moves
  <2>2. CASE req'[r].pc # "resetRevoke"
    BY <1>1, <2>2 DEF ResetTakesAll, At
  <2> QED BY <2>1, <2>2
<1> QED BY <1>2, <1>3 DEF OneAtATime

(* A step that is no request's.                                            *)
LEMMA WorldAlone ==
    ASSUME IInv, OneAtATime, NEW p, HandsOn(p), UNCHANGED <<cleared, req>>
    PROVE  OneAtATime'
<1>0. TypeOK /\ OneBusy /\ ClearedIsGone /\ ResetTakesAll
  BY DEF IInv, OneAtATime
<1>1. ClearedIsGone' /\ ResetTakesAll'
  BY <1>0, ClearedKept, ResetWaits
<1>2. OneBusy'
  BY <1>0 DEF OneBusy, At
<1> QED BY <1>1, <1>2 DEF OneAtATime

LEMMA RegimeInit == InitRegimes => RegimeInv
<1> SUFFICES ASSUME InitRegimes PROVE IInv /\ OneHolder /\ OneAtATime
  BY DEF RegimeInv
<1>1. IInv
  BY InvariantInit DEF InitRegimes
<1>2. /\ \A u \in Users : enrolment[u].secret = 0 /\ codes[u] = {}
      /\ \A s \in Sids : session[s].passed = 0
      /\ \A r \in Requests : req[r].pc = "idle" /\ req[r].secret = 0
      /\ cleared = {}
  BY DEF InitRegimes, Init, NoEnrolment, NoSessionRow, Idle
<1>3. OneHolder
  BY <1>2 DEF OneHolder, Held
<1> QED BY <1>1, <1>2, <1>3
        DEF OneAtATime, OneBusy, ClearedIsGone, ResetTakesAll, At

LEMMA RegimeStep == RegimeInv /\ [Next /\ InRegime]_<<vars, regime>> => RegimeInv'
<1> SUFFICES ASSUME RegimeInv, [Next /\ InRegime]_<<vars, regime>> PROVE RegimeInv'
  OBVIOUS
<1>0. IInv /\ OneHolder /\ TypeOK /\ Named /\ IInv'
  BY InvariantStep DEF RegimeInv, IInv
<1>1. PICK p : HandsOn(p)
  BY <1>0, SecretsAreHandedOn
<1>2. OneHolder'
  BY <1>0, <1>1, HolderStep
<1>3. ASSUME regime' = "one" PROVE OneAtATime'
  <2>1. OneAtATime
    BY <1>3 DEF RegimeInv, InRegime
  <2>2. CASE UNCHANGED vars
    BY <1>0, <1>1, <2>1, <2>2, WorldAlone DEF vars
  <2>3. CASE Next /\ InRegime
    <3>1. OneBusy'
      BY <1>3, <2>3 DEF InRegime, OneBusy
    <3>2. ASSUME NEW r \in Requests, Moves(r) PROVE OneAtATime'
      BY <1>0, <1>1, <2>1, <3>1, <3>2, AloneMoves
    <3>3. CASE UNCHANGED <<cleared, req>>
      BY <1>0, <1>1, <2>1, <3>3, WorldAlone
    <3> QED BY <1>0, <2>3, <3>2, <3>3, SignInMoves, EnrolMoves, VerifyMoves, ResetMoves,
               CrashMoves DEF Next, World, SetPolicy, RemoveMember, Tick
  <2> QED BY <2>2, <2>3
<1> QED BY <1>0, <1>2, <1>3 DEF RegimeInv

LEMMA RegimeInvariant == BothRegimes => []RegimeInv
  BY RegimeInit, RegimeStep, PTL DEF BothRegimes

(* Where requests do not overlap, a completed reset leaves nobody signed   *)
(* in who passed the factor it cleared (auth/two_factor.ts 664-666), then  *)
(* or later: a secret is one person's, its enrolment and its recovery      *)
(* codes go in one transaction, and that person's sessions in the next.    *)
THEOREM ResetSignsOut == BothRegimes => []OneRequestResetEndsSessions
<1>1. RegimeInv => OneRequestResetEndsSessions
  BY DEF RegimeInv, OneAtATime, ClearedIsGone, OneRequestResetEndsSessions,
         ResetEndsItsSessions
<1> QED BY <1>1, RegimeInvariant, PTL
=============================================================================
