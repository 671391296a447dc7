--------------------------- MODULE SessionsProofs ---------------------------
(***************************************************************************)
(* Proofs about Sessions.tla, for any number of people, identifiers and    *)
(* overlapping requests, and any bounds on the clock and the passwords.    *)
(***************************************************************************)
EXTENDS Sessions, TLAPS

USE SessionsAssumption

-----------------------------------------------------------------------------
(* Types *)

LEMMA InitTypeOK == Init => TypeOK
<1> SUFFICES ASSUME Init PROVE TypeOK
    OBVIOUS
<1>1. session \in [Sids -> Row]
  BY DEF Init, Row, Unissued
<1>2. req \in [Requests -> Request]
  BY DEF Init, Request, Idle, PCs, EndReasons
<1>3. grants \in [Users -> SUBSET Actions]
  BY DEF Init
<1> QED BY <1>1, <1>2, <1>3 DEF Init, TypeOK, Standings

LEMMA IdleIsRequest == Idle \in Request
  BY DEF Idle, Request, PCs, EndReasons

LEMMA ReturnType ==
    ASSUME TypeOK, NEW r \in Requests, Return(r)
    PROVE  req' \in [Requests -> Request]
  BY IdleIsRequest DEF Return, TypeOK

LEMMA GotoType ==
    ASSUME TypeOK, NEW r \in Requests, NEW pc \in PCs, Goto(r, pc)
    PROVE  req' \in [Requests -> Request]
<1>1. [req[r] EXCEPT !.pc = pc] \in Request
  BY DEF TypeOK, Request
<1> QED BY <1>1 DEF Goto, TypeOK

LEMMA SnapshotType ==
    ASSUME TypeOK, NEW r \in Requests, NEW pc \in PCs, NEW S \in SUBSET Sids,
           Snapshot(r, S, pc)
    PROVE  req' \in [Requests -> Request]
<1>1. [req[r] EXCEPT !.pc = pc, !.snap = S] \in Request
  BY DEF TypeOK, Request
<1> QED BY <1>1 DEF Snapshot, TypeOK

LEMMA EndRowsType ==
    ASSUME TypeOK, NEW S, NEW reason \in EndReasons
    PROVE  EndRows(S, reason) \in [Sids -> Row]
<1>1. ASSUME NEW s \in Sids PROVE [session[s] EXCEPT !.end = reason] \in Row
  BY DEF TypeOK, Row
<1> QED BY <1>1 DEF EndRows, TypeOK

LEMMA NewRowType ==
    ASSUME TypeOK, NEW u \in Users \cup {NoUser}, NEW from \in Sids \cup {NoSession},
           NEW provedAt \in Nat, NEW proof \in Nat
    PROVE  NewRow(u, from, provedAt, proof) \in Row
  BY DEF TypeOK, NewRow, Row

(* A request that is about to replace a session names one.                 *)
RotationHoldsToken ==
    \A r \in Requests : At(r, "rotateEnd") => req[r].token \in Sids

LEMMA SignInType ==
    ASSUME TypeOK, NEW r \in Requests, SignInStep(r) PROVE TypeOK'
<1>1. ASSUME NEW u \in Users, NEW t \in Sids \cup {NoSession}, SignIn(r, u, t)
      PROVE  TypeOK'
  BY <1>1 DEF SignIn, TypeOK, Request, Idle, PCs, EndReasons
<1>2. CASE SignInSnapshot(r)
  BY <1>2, SnapshotType DEF SignInSnapshot, TypeOK, PCs
<1>3. CASE SignInEnd(r)
  <2> DEFINE chain == IF /\ req[r].snap # {}
                         /\ session[req[r].token].user = req[r].actor
                      THEN req[r].token ELSE NoSession
  <2>1. chain \in Sids \cup {NoSession} /\ req[r] \in Request
    BY DEF TypeOK, Request
  <2>2. [req[r] EXCEPT !.pc = "signInStart", !.snap = {}, !.chain = chain] \in Request
    <3> HIDE DEF chain
    <3> QED BY <2>1 DEF Request, PCs
  <2>3. req' \in [Requests -> Request]
    BY <1>3, <2>2 DEF SignInEnd, TypeOK
  <2> QED BY <1>3, <2>3, EndRowsType DEF SignInEnd, TypeOK, EndReasons
<1>4. CASE SignInChallenged(r)
  BY <1>4, ReturnType DEF SignInChallenged, TypeOK
<1>5. CASE SignInStart(r)
  <2>1. NewRow(req[r].actor, req[r].chain, now, req[r].proof) \in Row
    BY NewRowType DEF TypeOK, Request
  <2>2. session' \in [Sids -> Row]
    BY <1>5, <2>1 DEF SignInStart, Inserted, TypeOK
  <2> QED BY <1>5, <2>2, ReturnType DEF SignInStart, TypeOK
<1> QED BY <1>1, <1>2, <1>3, <1>4, <1>5 DEF SignInStep

LEMMA IdentifierType ==
    ASSUME TypeOK, RotationHoldsToken, NEW r \in Requests, IdentifierStep(r)
    PROVE  TypeOK'
<1>1. ASSUME NEW t \in Sids, NEW reason \in RotationReasons,
             RotateSnapshot(r, t, reason)
      PROVE  TypeOK'
  BY <1>1 DEF RotateSnapshot, TypeOK, Request, Idle, PCs, EndReasons, RotationReasons
<1>2. ASSUME NEW t \in Sids, SignOutSnapshot(r, t) PROVE TypeOK'
  BY <1>2 DEF SignOutSnapshot, TypeOK, Request, Idle, PCs, EndReasons
<1>3. ASSUME NEW t \in Sids, Validate(r, t) PROVE TypeOK'
  <2>1. session[t].user \in Users \cup {NoUser}
    BY DEF TypeOK, Row
  <2>2. [Idle EXCEPT !.pc = "authenticated", !.token = t, !.actor = session[t].user]
        \in Request
    BY <2>1 DEF Request, Idle, PCs, EndReasons
  <2> QED BY <1>3, <2>2 DEF Validate, TypeOK
<1>4. CASE RotateEnd(r)
  <2> DEFINE t == req[r].token
  <2>1. t \in Sids /\ req[r].reason \in EndReasons
    BY <1>4 DEF RotateEnd, RotationHoldsToken, TypeOK, Request
  <2>2. session[t] \in Row
    BY <2>1 DEF TypeOK
  <2>3. NewRow(session[t].user, t, session[t].provedAt, session[t].proof) \in Row
    BY <2>1, <2>2, NewRowType DEF Row
  <2>4. EndRows({t}, req[r].reason) \in [Sids -> Row]
    BY <2>1, EndRowsType
  <2> HIDE DEF t
  <2>5. session' \in [Sids -> Row]
    BY <1>4, <2>3, <2>4 DEF RotateEnd, Inserted, TypeOK, t
  <2> QED BY <1>4, <2>5, ReturnType DEF RotateEnd, TypeOK
<1>5. CASE SignOutEnd(r)
  BY <1>5, ReturnType, EndRowsType DEF SignOutEnd, TypeOK, EndReasons
<1>6. CASE Reauthenticate(r)
  <2>1. ASSUME NEW t \in Sids
        PROVE  [session[t] EXCEPT !.authAt = now, !.provedAt = now] \in Row
    <3>1. session[t] \in Row /\ now \in Nat
      BY DEF TypeOK
    <3> QED BY <3>1 DEF Row
  <2>2. session' = [s \in Sids |->
                       IF s = req[r].token
                       THEN [session[s] EXCEPT !.authAt = now, !.provedAt = now]
                       ELSE session[s]]
    BY <1>6 DEF Reauthenticate, TypeOK
  <2>3. session' \in [Sids -> Row]
    BY <2>1, <2>2 DEF TypeOK
  <2> QED BY <1>6, <2>3, ReturnType DEF Reauthenticate, TypeOK
<1> QED BY <1>1, <1>2, <1>3, <1>4, <1>5, <1>6 DEF IdentifierStep

(* The records the admitting steps build are requests, whatever they name. *)
LEMMA NamesSession ==
    ASSUME NEW q \in Request, NEW s \in Sids
    PROVE  [q EXCEPT !.pc = "oneReady", !.victim = s] \in Request
<1>1. "oneReady" \in PCs
  BY DEF PCs
<1> QED BY <1>1 DEF Request

LEMMA NamesPerson ==
    ASSUME NEW q \in Request, NEW u \in Users, NEW S \in SUBSET Sids
    PROVE  [q EXCEPT !.pc = "allReady", !.target = u, !.atStart = S] \in Request
<1>1. "allReady" \in PCs
  BY DEF PCs
<1> QED BY <1>1 DEF Request

LEMMA NamesSessions ==
    ASSUME NEW q \in Request, NEW S \in SUBSET Sids
    PROVE  [q EXCEPT !.pc = "allReady", !.atStart = S] \in Request
<1>1. "allReady" \in PCs
  BY DEF PCs
<1> QED BY <1>1 DEF Request

LEMMA NamesPassword ==
    ASSUME NEW q \in Request, NEW u \in Users, NEW n \in Nat
    PROVE  [q EXCEPT !.pc = "resetWrite", !.target = u, !.proof = n] \in Request
<1>1. "resetWrite" \in PCs
  BY DEF PCs
<1> QED BY <1>1 DEF Request

LEMMA RevocationType ==
    ASSUME TypeOK, NEW r \in Requests, RevocationStep(r) PROVE TypeOK'
<1>1. ASSUME NEW s \in Sids, RevokeOne(r, s) PROVE TypeOK'
  <2>1. [req[r] EXCEPT !.pc = "oneReady", !.victim = s] \in Request
    BY NamesSession DEF TypeOK
  <2> QED BY <1>1, <2>1 DEF RevokeOne, TypeOK
<1>2. ASSUME NEW u \in Users, RevokeAll(r, u) PROVE TypeOK'
  <2>1. req[r] \in Request /\ LiveOf(u) \in SUBSET Sids
    BY DEF TypeOK, LiveOf
  <2>2. [req[r] EXCEPT !.pc = "allReady", !.target = u, !.atStart = LiveOf(u)] \in Request
    BY <2>1, NamesPerson
  <2> QED BY <1>2, <2>2 DEF RevokeAll, TypeOK
<1>3. CASE RevokeOneSnapshot(r)
  BY <1>3, SnapshotType DEF RevokeOneSnapshot, TypeOK, PCs
<1>4. CASE RevokeOneEnd(r)
  BY <1>4, ReturnType, EndRowsType DEF RevokeOneEnd, TypeOK, EndReasons
<1>5. CASE RevokeAllSnapshot(r)
  BY <1>5, SnapshotType DEF RevokeAllSnapshot, LiveOf, TypeOK, PCs
<1>6. CASE RevokeAllEnd(r)
  BY <1>6, ReturnType, EndRowsType DEF RevokeAllEnd, TypeOK, EndReasons
<1> QED BY <1>1, <1>2, <1>3, <1>4, <1>5, <1>6 DEF RevocationStep

LEMMA PasswordType ==
    ASSUME TypeOK, NEW r \in Requests, PasswordStep(r) PROVE TypeOK'
<1>1. ASSUME NEW u \in Users, Reset(r, u) PROVE TypeOK'
  <2>1. req[r] \in Request /\ password[u] \in Nat
    BY DEF TypeOK
  <2>2. [req[r] EXCEPT !.pc = "resetWrite", !.target = u, !.proof = password[u]] \in Request
    BY <2>1, NamesPassword
  <2> QED BY <1>1, <2>2 DEF Reset, TypeOK
<1>2. ASSUME NEW u \in Users, ResetDenied(r, u) PROVE TypeOK'
  BY <1>2, ReturnType DEF ResetDenied, TypeOK
<1>3. CASE ResetWrite(r)
  <2>1. req' \in [Requests -> Request]
    BY <1>3, ReturnType, GotoType DEF ResetWrite, PCs
  <2> QED BY <1>3, <2>1 DEF ResetWrite, TypeOK
<1>4. CASE ResetRevoke(r)
  <2>1. req[r] \in Request /\ LiveOf(req[r].target) \in SUBSET Sids
    BY DEF TypeOK, LiveOf
  <2>2. [req[r] EXCEPT !.pc = "allReady", !.atStart = LiveOf(req[r].target)] \in Request
    BY <2>1, NamesSessions
  <2> QED BY <1>4, <2>2 DEF ResetRevoke, TypeOK
<1>5. CASE SetOwnPassword(r)
  <2>1. ASSUME NEW u \in Users \cup {NoUser}, NEW S \in SUBSET Sids
        PROVE  [req[r] EXCEPT !.pc = "ownReady", !.target = u, !.atStart = S,
                              !.reason = "password-changed"] \in Request
    <3>1. req[r] \in Request /\ "ownReady" \in PCs /\ "password-changed" \in EndReasons
      BY DEF TypeOK, PCs, EndReasons
    <3> QED BY <3>1 DEF Request
  <2>2. req[r].actor \in Users \cup {NoUser} /\ LiveOf(req[r].actor) \in SUBSET Sids
    BY DEF TypeOK, Request, LiveOf
  <2>3. req' \in [Requests -> Request]
    BY <1>5, <2>1, <2>2 DEF SetOwnPassword, TypeOK
  <2> QED BY <1>5, <2>3 DEF SetOwnPassword, TypeOK
<1>6. CASE OwnSnapshot(r)
  BY <1>6, SnapshotType DEF OwnSnapshot, LiveOf, TypeOK, PCs
<1>7. CASE OwnEnd(r)
  BY <1>7, GotoType, EndRowsType DEF OwnEnd, TypeOK, EndReasons, PCs
<1>8. CASE OwnWrite(r)
  BY <1>8, ReturnType DEF OwnWrite, TypeOK
<1> QED BY <1>1, <1>2, <1>3, <1>4, <1>5, <1>6, <1>7, <1>8 DEF PasswordStep

LEMMA WorldType == ASSUME TypeOK, World PROVE TypeOK'
<1>1. CASE Tick
  BY <1>1 DEF Tick, TypeOK
<1>2. ASSUME NEW r \in Requests, Crash(r) PROVE TypeOK'
  BY <1>2, ReturnType DEF Crash, TypeOK
<1>3. ASSUME NEW u \in Users, NEW g \in GrantSets, ChangeGrants(u, g) PROVE TypeOK'
  BY <1>3 DEF ChangeGrants, TypeOK
<1>4. ASSUME NEW u \in Users, NEW st \in Standings, ChangeStanding(u, st) PROVE TypeOK'
  BY <1>4 DEF ChangeStanding, TypeOK
<1> QED BY <1>1, <1>2, <1>3, <1>4 DEF World

LEMMA TypeStep == TypeOK /\ RotationHoldsToken /\ [Next]_vars => TypeOK'
<1> SUFFICES ASSUME TypeOK, RotationHoldsToken, [Next]_vars PROVE TypeOK'
    OBVIOUS
<1>1. CASE UNCHANGED vars
  BY <1>1 DEF vars, TypeOK
<1> QED BY <1>1, SignInType, IdentifierType, RevocationType, PasswordType,
           WorldType DEF Next

-----------------------------------------------------------------------------
(* How the table evolves *)

(* The facts one request carries from step to step.                         *)
RequestInv(r) ==
    /\ \A s \in req[r].snap : Issued(s)
    /\ At(r, "rotateEnd") => req[r].token \in Sids /\ Issued(req[r].token)
    /\ At(r, "signInPresented") => req[r].token \in Sids /\ Issued(req[r].token)
    /\ At(r, "signInEnd") =>
          /\ req[r].token \in Sids /\ Issued(req[r].token)
          /\ req[r].snap \subseteq {req[r].token}
          /\ Live(req[r].token) => req[r].token \in req[r].snap
    /\ At(r, "signInStart") /\ req[r].token # NoSession =>
          req[r].token \in Sids /\ Issued(req[r].token) /\ ~Live(req[r].token)
    /\ req[r].chain # NoSession =>
          /\ session[req[r].chain].end \in EndReasons
          /\ session[req[r].chain].user = req[r].actor
    /\ At(r, "ownReady") \/ At(r, "allReady") => \A s \in req[r].atStart :
          Issued(s) /\ session[s].user = req[r].target
    /\ At(r, "ownEnd") \/ At(r, "allEnd") => \A s \in req[r].atStart :
          Issued(s) /\ (Live(s) => s \in req[r].snap)
    /\ At(r, "ownWrite") => \A s \in req[r].atStart : Issued(s) /\ ~Live(s)

IInv ==
    /\ TypeOK
    /\ SuccessorMeansEnded
    /\ \A r \in Requests : RequestInv(r)

(* A row that stays: it keeps its holder, its predecessor and its expiry,   *)
(* and what is over stays over.                                             *)
Kept(s) ==
    /\ session'[s].user = session[s].user
    /\ session'[s].from = session[s].from
    /\ session'[s].expires = session[s].expires
    /\ session'[s].end = "unissued" <=> session[s].end = "unissued"
    /\ session[s].end \in EndReasons => session'[s].end \in EndReasons

(* A row that is written: it was not there, and a predecessor it names is   *)
(* over and was the same person's.                                          *)
Minted(n) ==
    /\ session[n].end = "unissued" /\ session'[n].end # "unissued"
    /\ session'[n].from # NoSession =>
          /\ session'[n].from # n
          /\ session'[session'[n].from].end \in EndReasons
          /\ session'[session'[n].from].user = session'[n].user

(* A step writes at most one row, n, and keeps the others.                  *)
Evolves(n) ==
    /\ now' \in Nat /\ now <= now'
    /\ \A s \in Sids : s # n => Kept(s)
    /\ n \in Sids => Minted(n)

LEMMA UnchangedEvolves ==
    ASSUME TypeOK, session' = session, now' = now PROVE Evolves(NoSession)
  BY DEF Evolves, Kept, TypeOK

LEMMA EndRowsKeeps ==
    ASSUME TypeOK, NEW S \in SUBSET Sids, \A s \in S : Issued(s),
           NEW reason \in EndReasons, session' = EndRows(S, reason), now' = now
    PROVE  Evolves(NoSession)
<1>1. ASSUME NEW s \in Sids PROVE Kept(s)
  <2>1. session[s] \in Row
    BY DEF TypeOK
  <2>2. CASE s \in S
    BY <2>1, <2>2 DEF EndRows, Kept, Issued, EndReasons, Row
  <2>3. CASE s \notin S
    BY <2>3 DEF EndRows, Kept
  <2> QED BY <2>2, <2>3
<1> QED BY <1>1 DEF Evolves, TypeOK

LEMMA SignInEvolves ==
    ASSUME IInv, NEW r \in Requests, SignInStep(r)
    PROVE  \E n \in Sids \cup {NoSession} : Evolves(n)
<1>0. TypeOK /\ RequestInv(r)
  BY DEF IInv
<1>1. ASSUME NEW u \in Users, NEW t \in Sids \cup {NoSession}, SignIn(r, u, t)
      PROVE  Evolves(NoSession)
  BY <1>0, <1>1, UnchangedEvolves DEF SignIn
<1>2. CASE SignInSnapshot(r)
  BY <1>0, <1>2, UnchangedEvolves DEF SignInSnapshot
<1>3. CASE SignInEnd(r)
  <2>1. req[r].snap \in SUBSET Sids
    BY <1>0 DEF TypeOK, Request
  <2> QED BY <1>0, <1>3, <2>1, EndRowsKeeps DEF SignInEnd, RequestInv, EndReasons
<1>4. CASE SignInChallenged(r)
  BY <1>0, <1>4, UnchangedEvolves DEF SignInChallenged
<1>5. CASE SignInStart(r)
  <2>1. CASE session' = session
    BY <1>0, <1>5, <2>1, UnchangedEvolves DEF SignInStart
  <2>2. CASE session' # session
    <3>1. PICK n \in Sids :
            /\ ~Issued(n)
            /\ session' = Inserted(session, n, NewRow(req[r].actor, req[r].chain,
                                                     now, req[r].proof))
      BY <1>5, <2>2 DEF SignInStart
    <3>2. \A s \in Sids : s # n => session'[s] = session[s]
      BY <1>0, <3>1 DEF Inserted, TypeOK
    <3>3. session'[n] = NewRow(req[r].actor, req[r].chain, now, req[r].proof)
      BY <1>0, <3>1 DEF Inserted, TypeOK
    <3>4. session[n].end = "unissued"
      BY <3>1 DEF Issued
    <3>5. req[r].chain \in Sids \cup {NoSession}
      BY <1>0 DEF TypeOK, Request
    <3>6. req[r].chain # NoSession => req[r].chain # n
      BY <1>0, <3>4 DEF RequestInv, EndReasons
    <3>7. Minted(n)
      BY <1>0, <3>2, <3>3, <3>4, <3>5, <3>6 DEF Minted, NewRow, RequestInv
    <3> QED BY <1>0, <1>5, <3>2, <3>7 DEF Evolves, Kept, SignInStart, TypeOK
  <2> QED BY <2>1, <2>2
<1> QED BY <1>1, <1>2, <1>3, <1>4, <1>5 DEF SignInStep

LEMMA IdentifierEvolves ==
    ASSUME IInv, NEW r \in Requests, IdentifierStep(r)
    PROVE  \E n \in Sids \cup {NoSession} : Evolves(n)
<1>0. TypeOK /\ RequestInv(r)
  BY DEF IInv
<1>1. ASSUME NEW t \in Sids, NEW reason \in RotationReasons,
             RotateSnapshot(r, t, reason)
      PROVE  Evolves(NoSession)
  BY <1>0, <1>1, UnchangedEvolves DEF RotateSnapshot
<1>2. ASSUME NEW t \in Sids, SignOutSnapshot(r, t) PROVE Evolves(NoSession)
  BY <1>0, <1>2, UnchangedEvolves DEF SignOutSnapshot
<1>3. ASSUME NEW t \in Sids, Validate(r, t) PROVE Evolves(NoSession)
  BY <1>0, <1>3, UnchangedEvolves DEF Validate
<1>4. CASE RotateEnd(r)
  <2> DEFINE t == req[r].token
             row == NewRow(session[t].user, t, session[t].provedAt, session[t].proof)
  <2>0. t \in Sids /\ Issued(t) /\ req[r].reason \in EndReasons
    BY <1>0, <1>4 DEF RotateEnd, RequestInv, TypeOK, Request
  <2>1. CASE session' = session
    BY <1>0, <1>4, <2>1, UnchangedEvolves DEF RotateEnd
  <2>2. CASE session' # session
    <3>1. PICK n \in Sids :
            ~Issued(n) /\ session' = Inserted(EndRows({t}, req[r].reason), n, row)
      BY <1>4, <2>2 DEF RotateEnd
    <3>2. n # t
      BY <2>0, <3>1
    <3>3. \A s \in Sids : s # n /\ s # t => session'[s] = session[s]
      BY <1>0, <3>1 DEF Inserted, EndRows, TypeOK
    <3>4. session'[t] = [session[t] EXCEPT !.end = req[r].reason]
      BY <1>0, <2>0, <3>1, <3>2 DEF Inserted, EndRows, TypeOK
    <3>5. session'[n] = row
      BY <1>0, <3>1 DEF Inserted, EndRows, TypeOK
    <3>6. session[n].end = "unissued" /\ session[t] \in Row
      BY <1>0, <2>0, <3>1 DEF Issued, TypeOK
    <3>7. Kept(t)
      BY <2>0, <3>4, <3>6 DEF Kept, Issued, EndReasons, Row
    <3>8. session'[t].end \in EndReasons /\ session'[t].user = session[t].user
      BY <2>0, <3>4, <3>6 DEF Row
    <3>9. Minted(n)
      BY <3>2, <3>5, <3>6, <3>8 DEF Minted, NewRow
    <3>10. now' = now /\ now \in Nat
      BY <1>0, <1>4 DEF RotateEnd, TypeOK
    <3>11. \A s \in Sids : s # n => Kept(s)
      BY <3>3, <3>7 DEF Kept
    <3> QED BY <3>9, <3>10, <3>11 DEF Evolves
  <2> QED BY <2>1, <2>2
<1>5. CASE SignOutEnd(r)
  <2>1. req[r].snap \in SUBSET Sids
    BY <1>0 DEF TypeOK, Request
  <2> QED BY <1>0, <1>5, <2>1, EndRowsKeeps DEF SignOutEnd, RequestInv, EndReasons
<1>6. CASE Reauthenticate(r)
  <2>1. session' = [s \in Sids |->
                       IF s = req[r].token
                       THEN [session[s] EXCEPT !.authAt = now, !.provedAt = now]
                       ELSE session[s]]
    BY <1>0, <1>6 DEF Reauthenticate, TypeOK
  <2>2. ASSUME NEW s \in Sids PROVE Kept(s)
    <3>1. session[s] \in Row
      BY <1>0 DEF TypeOK
    <3> QED BY <2>1, <3>1 DEF Kept, Row
  <2> QED BY <1>0, <1>6, <2>2 DEF Evolves, Reauthenticate, TypeOK
<1> QED BY <1>1, <1>2, <1>3, <1>4, <1>5, <1>6 DEF IdentifierStep

LEMMA RevocationEvolves ==
    ASSUME IInv, NEW r \in Requests, RevocationStep(r) PROVE Evolves(NoSession)
<1>0. TypeOK /\ RequestInv(r) /\ req[r].snap \in SUBSET Sids
  BY DEF IInv, TypeOK, Request
<1>1. ASSUME NEW s \in Sids, RevokeOne(r, s) PROVE Evolves(NoSession)
  BY <1>0, <1>1, UnchangedEvolves DEF RevokeOne
<1>2. ASSUME NEW u \in Users, RevokeAll(r, u) PROVE Evolves(NoSession)
  BY <1>0, <1>2, UnchangedEvolves DEF RevokeAll
<1>3. CASE RevokeOneSnapshot(r)
  BY <1>0, <1>3, UnchangedEvolves DEF RevokeOneSnapshot
<1>4. CASE RevokeOneEnd(r)
  BY <1>0, <1>4, EndRowsKeeps DEF RevokeOneEnd, RequestInv, EndReasons
<1>5. CASE RevokeAllSnapshot(r)
  BY <1>0, <1>5, UnchangedEvolves DEF RevokeAllSnapshot
<1>6. CASE RevokeAllEnd(r)
  BY <1>0, <1>6, EndRowsKeeps DEF RevokeAllEnd, RequestInv, EndReasons
<1> QED BY <1>1, <1>2, <1>3, <1>4, <1>5, <1>6 DEF RevocationStep

LEMMA PasswordEvolves ==
    ASSUME IInv, NEW r \in Requests, PasswordStep(r) PROVE Evolves(NoSession)
<1>0. TypeOK /\ RequestInv(r) /\ req[r].snap \in SUBSET Sids
  BY DEF IInv, TypeOK, Request
<1>1. CASE OwnEnd(r)
  BY <1>0, <1>1, EndRowsKeeps DEF OwnEnd, RequestInv, EndReasons
<1>2. CASE ~OwnEnd(r)
  <2>1. session' = session /\ now' = now
    BY <1>2 DEF PasswordStep, Reset, ResetDenied, ResetWrite, ResetRevoke,
                SetOwnPassword, OwnSnapshot, OwnWrite
  <2> QED BY <1>0, <2>1, UnchangedEvolves
<1> QED BY <1>1, <1>2

LEMMA WorldEvolves == ASSUME IInv, World PROVE Evolves(NoSession)
  BY DEF IInv, World, Tick, Crash, ChangeGrants, ChangeStanding, Evolves, Kept, TypeOK

LEMMA Evolution ==
    ASSUME IInv, [Next]_vars
    PROVE  \E n \in Sids \cup {NoSession} : Evolves(n)
<1>1. CASE UNCHANGED vars
  BY <1>1, UnchangedEvolves DEF vars, IInv
<1> QED BY <1>1, SignInEvolves, IdentifierEvolves, RevocationEvolves,
           PasswordEvolves, WorldEvolves DEF Next

(* What is issued stays issued, and what is not live stays so.              *)
LEMMA IssuedAndDeadStaySo ==
    ASSUME TypeOK, TypeOK', NEW n \in Sids \cup {NoSession}, Evolves(n),
           NEW s \in Sids, Issued(s)
    PROVE  /\ s # n /\ Kept(s) /\ Issued(s)'
           /\ ~Live(s) => ~Live(s)'
<1>1. s # n
  BY DEF Evolves, Minted, Issued
<1>2. Kept(s) /\ now <= now' /\ now' \in Nat /\ now \in Nat
  BY <1>1 DEF Evolves, TypeOK
<1>3. session[s] \in Row /\ session'[s] \in Row
  BY DEF TypeOK
<1>4. ~Live(s) => ~Live(s)'
  BY <1>2, <1>3 DEF Live, Kept, Issued, Row, EndReasons
<1> QED BY <1>1, <1>2, <1>4 DEF Kept, Issued

(* A request that does not move keeps its facts while the others do.        *)
LEMMA BystanderKeepsInv ==
    ASSUME TypeOK, TypeOK', NEW n \in Sids \cup {NoSession}, Evolves(n),
           NEW r \in Requests, RequestInv(r), req'[r] = req[r]
    PROVE  RequestInv(r)'
<1>1. \A s \in Sids : Issued(s) =>
         Kept(s) /\ Issued(s)' /\ (~Live(s) => ~Live(s)')
  BY IssuedAndDeadStaySo
<1>2. /\ req[r].snap \in SUBSET Sids /\ req[r].atStart \in SUBSET Sids
      /\ req[r].chain \in Sids \cup {NoSession}
  BY DEF TypeOK, Request
<1>3. \A s \in req'[r].snap : Issued(s)'
  BY <1>1, <1>2 DEF RequestInv
<1>4. req'[r].chain # NoSession =>
        /\ session'[req'[r].chain].end \in EndReasons
        /\ session'[req'[r].chain].user = req'[r].actor
  BY <1>1, <1>2 DEF RequestInv, Kept, Issued, EndReasons
<1>5. At(r, "ownReady")' \/ At(r, "allReady")' => \A s \in req'[r].atStart :
        Issued(s)' /\ session'[s].user = req'[r].target
  BY <1>1, <1>2 DEF RequestInv, Kept, At
<1>6. /\ At(r, "ownEnd")' \/ At(r, "allEnd")' => \A s \in req'[r].atStart :
            Issued(s)' /\ (Live(s)' => s \in req'[r].snap)
      /\ At(r, "ownWrite")' => \A s \in req'[r].atStart : Issued(s)' /\ ~Live(s)'
  BY <1>1, <1>2 DEF RequestInv, At
<1>7. /\ At(r, "rotateEnd")' => req'[r].token \in Sids /\ Issued(req[r].token)'
      /\ At(r, "signInPresented")' => req'[r].token \in Sids /\ Issued(req[r].token)'
      /\ At(r, "signInEnd")' =>
            /\ req'[r].token \in Sids /\ Issued(req[r].token)'
            /\ req'[r].snap \subseteq {req'[r].token}
            /\ Live(req[r].token)' => req'[r].token \in req'[r].snap
      /\ At(r, "signInStart")' /\ req'[r].token # NoSession =>
            req'[r].token \in Sids /\ Issued(req[r].token)' /\ ~Live(req[r].token)'
  <2>1. \A s \in Sids : s = req[r].token /\ Issued(s) => Issued(req[r].token)'
    BY <1>1 DEF Issued
  <2>2. \A s \in Sids : s = req[r].token /\ Issued(s) /\ ~Live(s) => ~Live(req[r].token)'
    BY <1>1 DEF Live
  <2> QED BY <2>1, <2>2 DEF RequestInv, At
<1> QED BY <1>3, <1>4, <1>5, <1>6, <1>7 DEF RequestInv

-----------------------------------------------------------------------------
(* The request that moves *)

LEMMA IdleKeepsInv ==
    ASSUME TypeOK, NEW r \in Requests, req'[r] = Idle PROVE RequestInv(r)'
  BY DEF RequestInv, At, Idle

LEMMA ReturnKeepsInv ==
    ASSUME TypeOK, NEW r \in Requests, Return(r) PROVE RequestInv(r)'
  BY IdleKeepsInv DEF Return, TypeOK

LEMMA SignInKeepsInv ==
    ASSUME IInv, NEW r \in Requests, SignInStep(r) PROVE RequestInv(r)'
<1>0. TypeOK /\ RequestInv(r) /\ req[r] \in Request
  BY DEF IInv, TypeOK
<1>1. ASSUME NEW u \in Users, NEW t \in Sids \cup {NoSession}, SignIn(r, u, t)
      PROVE  RequestInv(r)'
  <2>1. /\ session' = session /\ now' = now
        /\ req'[r] = [Idle EXCEPT !.pc = IF t = NoSession THEN "signInStart"
                                                         ELSE "signInPresented",
                                  !.actor = u, !.token = t, !.reason = "rotated",
                                  !.proof = password[u]]
    BY <1>0, <1>1 DEF SignIn, TypeOK
  <2>2. t # NoSession => t \in Sids /\ Issued(t)
    BY <1>1 DEF SignIn
  <2> QED BY <2>1, <2>2 DEF RequestInv, At, Idle, Issued
<1>2. CASE SignInSnapshot(r)
  <2>1. /\ session' = session /\ now' = now /\ At(r, "signInPresented")
        /\ req'[r] = [req[r] EXCEPT !.pc = "signInEnd",
                         !.snap = {s \in Sids : s = req[r].token /\ Live(s)}]
    BY <1>0, <1>2 DEF SignInSnapshot, Snapshot, TypeOK
  <2>2. \A s \in Sids : Live(s) => Issued(s)
    BY DEF Live, Issued
  <2>3. \A s : (Live(s)' <=> Live(s)) /\ (Issued(s)' <=> Issued(s))
    BY <2>1 DEF Live, Issued
  <2>4. Live(req[r].token)' <=> Live(req[r].token)
    BY <2>1, <1>0 DEF Live, Request
  <2>5. Issued(req[r].token)' <=> Issued(req[r].token)
    BY <2>1, <1>0 DEF Issued, Request
  <2> QED BY <1>0, <2>1, <2>2, <2>3, <2>4, <2>5 DEF RequestInv, At, Request
<1>3. CASE SignInEnd(r)
  <2> DEFINE t == req[r].token
  <2>1. /\ session' = EndRows(req[r].snap, "rotated") /\ now' = now
        /\ At(r, "signInEnd")
        /\ req'[r] = [req[r] EXCEPT !.pc = "signInStart", !.snap = {},
                         !.chain = IF /\ req[r].snap # {}
                                      /\ session[t].user = req[r].actor
                                   THEN t ELSE NoSession]
    BY <1>0, <1>3 DEF SignInEnd, TypeOK
  <2>2. /\ t \in Sids /\ Issued(t) /\ req[r].snap \subseteq {t}
        /\ Live(t) => t \in req[r].snap
    BY <1>0, <2>1 DEF RequestInv
  <2>3. session[t] \in Row
    BY <1>0, <2>2 DEF TypeOK
  <2>4. session'[t] = IF t \in req[r].snap THEN [session[t] EXCEPT !.end = "rotated"]
                                           ELSE session[t]
    BY <2>1, <2>2 DEF EndRows
  <2>5. session'[t].end # "unissued" /\ ~(session'[t].end = "open" /\ session'[t].expires > now)
    BY <2>2, <2>3, <2>4 DEF Issued, Live, Row
  <2>6. t \in req[r].snap => session'[t].end = "rotated" /\ session'[t].user = session[t].user
    BY <2>3, <2>4 DEF Row
  <2>7. req'[r].token = t /\ req'[r].actor = req[r].actor /\ req'[r].snap = {}
        /\ req'[r].pc = "signInStart"
    BY <1>0, <2>1 DEF Request
  <2>8. Issued(req[r].token)' /\ ~Live(req[r].token)'
    BY <2>1, <2>5, <2>7 DEF Issued, Live
  <2>9. req'[r].chain # NoSession =>
          /\ session'[req'[r].chain].end \in EndReasons
          /\ session'[req'[r].chain].user = req'[r].actor
    <3>1. SUFFICES ASSUME req'[r].chain # NoSession
                   PROVE  /\ session'[req'[r].chain].end \in EndReasons
                          /\ session'[req'[r].chain].user = req'[r].actor
      OBVIOUS
    <3>2. req'[r].chain = t /\ req[r].snap # {} /\ session[t].user = req[r].actor
      BY <1>0, <2>1, <3>1 DEF Request
    <3>3. t \in req[r].snap
      BY <2>2, <3>2
    <3> QED BY <2>6, <2>7, <3>2, <3>3 DEF EndReasons
  <2> QED BY <2>2, <2>7, <2>8, <2>9 DEF RequestInv, At
<1>4. CASE SignInChallenged(r)
  BY <1>0, <1>4, ReturnKeepsInv DEF SignInChallenged
<1>5. CASE SignInStart(r)
  BY <1>0, <1>5, ReturnKeepsInv DEF SignInStart
<1> QED BY <1>1, <1>2, <1>3, <1>4, <1>5 DEF SignInStep

LEMMA IdentifierKeepsInv ==
    ASSUME IInv, NEW r \in Requests, IdentifierStep(r) PROVE RequestInv(r)'
<1>0. TypeOK
  BY DEF IInv
<1>1. ASSUME NEW t \in Sids, Live(t), session' = session, now' = now,
             NEW pc \in {"rotateEnd", "signOutEnd"}, NEW reason,
             req'[r] = [Idle EXCEPT !.pc = pc, !.token = t, !.snap = {t},
                                    !.reason = reason]
      PROVE  RequestInv(r)'
  BY <1>1 DEF RequestInv, At, Idle, Issued, Live
<1>2. ASSUME NEW t \in Sids, NEW reason \in RotationReasons,
             RotateSnapshot(r, t, reason)
      PROVE  RequestInv(r)'
  BY <1>0, <1>1, <1>2 DEF RotateSnapshot, TypeOK
<1>3. ASSUME NEW t \in Sids, SignOutSnapshot(r, t) PROVE RequestInv(r)'
  BY <1>0, <1>1, <1>3 DEF SignOutSnapshot, TypeOK
<1>4. ASSUME NEW t \in Sids, Validate(r, t) PROVE RequestInv(r)'
  <2>1. req'[r] = [Idle EXCEPT !.pc = "authenticated", !.token = t,
                               !.actor = session[t].user]
    BY <1>0, <1>4 DEF Validate, TypeOK
  <2> QED BY <2>1 DEF RequestInv, At, Idle
<1>5. CASE RotateEnd(r)
  BY <1>0, <1>5, ReturnKeepsInv DEF RotateEnd
<1>6. CASE SignOutEnd(r)
  BY <1>0, <1>6, ReturnKeepsInv DEF SignOutEnd
<1>7. CASE Reauthenticate(r)
  BY <1>0, <1>7, ReturnKeepsInv DEF Reauthenticate
<1> QED BY <1>2, <1>3, <1>4, <1>5, <1>6, <1>7 DEF IdentifierStep

(* A revocation is admitted with the sessions the person has.              *)
LEMMA AdmittedFacts ==
    ASSUME NEW r \in Requests, RequestInv(r), NEW u,
           session' = session, now' = now,
           req'[r].pc \in {"allReady", "ownReady"}, req'[r].target = u,
           req'[r].atStart = LiveOf(u), req'[r].snap = req[r].snap,
           req'[r].chain = req[r].chain, req'[r].actor = req[r].actor
    PROVE  RequestInv(r)'
<1>1. \A s \in LiveOf(u) : Issued(s) /\ session[s].user = u
  BY DEF LiveOf, Live, Issued
<1> QED BY <1>1 DEF RequestInv, At, Issued

(* Whichever of them lives at the statement's snapshot is in it.           *)
LEMMA SnapshotFacts ==
    ASSUME TypeOK, NEW r \in Requests, RequestInv(r),
           At(r, "ownReady") \/ At(r, "allReady"),
           session' = session, now' = now,
           req'[r].pc \in {"ownEnd", "allEnd"}, req'[r].snap = LiveOf(req[r].target),
           req'[r].atStart = req[r].atStart,
           req'[r].chain = req[r].chain, req'[r].actor = req[r].actor
    PROVE  RequestInv(r)'
<1>1. req[r].atStart \in SUBSET Sids
  BY DEF TypeOK, Request
<1>2. \A s \in req[r].atStart :
        Issued(s) /\ (Live(s) => s \in LiveOf(req[r].target))
  BY <1>1 DEF RequestInv, LiveOf
<1>3. \A s \in LiveOf(req[r].target) : Issued(s)
  BY DEF LiveOf, Live, Issued
<1> QED BY <1>2, <1>3 DEF RequestInv, At, Issued, Live

(* Ending the rows of that snapshot leaves none of them alive.             *)
LEMMA FoundAreEnded ==
    ASSUME TypeOK, TypeOK', NEW r \in Requests, RequestInv(r),
           At(r, "ownEnd") \/ At(r, "allEnd"),
           NEW reason \in EndReasons,
           session' = EndRows(req[r].snap, reason), now' = now
    PROVE  \A s \in req[r].atStart : Issued(s)' /\ ~Live(s)'
<1>1. req[r].snap \in SUBSET Sids /\ req[r].atStart \in SUBSET Sids
  BY DEF TypeOK, Request
<1>2. Evolves(NoSession)
  BY <1>1, EndRowsKeeps DEF RequestInv
<1> SUFFICES ASSUME NEW s \in req[r].atStart PROVE Issued(s)' /\ ~Live(s)'
    OBVIOUS
<1>3. s \in Sids /\ Issued(s) /\ (Live(s) => s \in req[r].snap)
  BY <1>1 DEF RequestInv
<1>4. CASE s \in req[r].snap
  <2>1. session'[s].end = reason
    BY <1>3, <1>4 DEF EndRows, TypeOK, Row
  <2> QED BY <2>1 DEF Issued, Live, EndReasons
<1>5. CASE s \notin req[r].snap
  BY <1>2, <1>3, <1>5, IssuedAndDeadStaySo
<1> QED BY <1>4, <1>5

LEMMA RevocationKeepsInv ==
    ASSUME IInv, NEW r \in Requests, RevocationStep(r) PROVE RequestInv(r)'
<1>0. TypeOK /\ RequestInv(r) /\ req[r] \in Request
  BY DEF IInv, TypeOK
<1>1. ASSUME session' = session, now' = now,
             req'[r].pc \in {"oneReady", "oneEnd"},
             req'[r].chain = req[r].chain, req'[r].actor = req[r].actor,
             \A s \in req'[r].snap : Issued(s)
      PROVE  RequestInv(r)'
  BY <1>0, <1>1 DEF RequestInv, At, Issued
<1>2. ASSUME NEW s \in Sids, RevokeOne(r, s) PROVE RequestInv(r)'
  <2>1. /\ session' = session /\ now' = now
        /\ req'[r] = [req[r] EXCEPT !.pc = "oneReady", !.victim = s]
    BY <1>0, <1>2 DEF RevokeOne, TypeOK
  <2> QED BY <1>0, <1>1, <2>1 DEF Request, RequestInv
<1>3. ASSUME NEW u \in Users, RevokeAll(r, u) PROVE RequestInv(r)'
  <2>1. /\ session' = session /\ now' = now
        /\ req'[r] = [req[r] EXCEPT !.pc = "allReady", !.target = u,
                                    !.atStart = LiveOf(u)]
    BY <1>0, <1>3 DEF RevokeAll, TypeOK
  <2>2. /\ req'[r].pc = "allReady" /\ req'[r].target = u
        /\ req'[r].atStart = LiveOf(u) /\ req'[r].snap = req[r].snap
        /\ req'[r].chain = req[r].chain /\ req'[r].actor = req[r].actor
    BY <1>0, <2>1 DEF Request
  <2> QED BY <1>0, <2>1, <2>2, AdmittedFacts
<1>4. CASE RevokeOneSnapshot(r)
  <2>1. /\ session' = session /\ now' = now
        /\ req'[r] = [req[r] EXCEPT !.pc = "oneEnd",
                         !.snap = {s \in Sids : s = req[r].victim /\ Live(s)}]
    BY <1>0, <1>4 DEF RevokeOneSnapshot, Snapshot, TypeOK
  <2>2. \A s \in Sids : Live(s) => Issued(s)
    BY DEF Live, Issued
  <2> QED BY <1>0, <1>1, <2>1, <2>2 DEF Request
<1>5. CASE RevokeAllSnapshot(r)
  <2>1. /\ session' = session /\ now' = now
        /\ req'[r] = [req[r] EXCEPT !.pc = "allEnd", !.snap = LiveOf(req[r].target)]
    BY <1>0, <1>5 DEF RevokeAllSnapshot, Snapshot, TypeOK
  <2>2. /\ req'[r].pc = "allEnd" /\ req'[r].snap = LiveOf(req[r].target)
        /\ req'[r].atStart = req[r].atStart
        /\ req'[r].chain = req[r].chain /\ req'[r].actor = req[r].actor
    BY <1>0, <2>1 DEF Request
  <2> QED BY <1>0, <1>5, <2>1, <2>2, SnapshotFacts DEF RevokeAllSnapshot
<1>6. CASE RevokeOneEnd(r)
  BY <1>0, <1>6, ReturnKeepsInv DEF RevokeOneEnd
<1>7. CASE RevokeAllEnd(r)
  BY <1>0, <1>7, ReturnKeepsInv DEF RevokeAllEnd
<1> QED BY <1>2, <1>3, <1>4, <1>5, <1>6, <1>7 DEF RevocationStep

LEMMA PasswordKeepsInv ==
    ASSUME IInv, TypeOK', NEW r \in Requests, PasswordStep(r) PROVE RequestInv(r)'
<1>0. TypeOK /\ RequestInv(r) /\ req[r] \in Request
  BY DEF IInv, TypeOK
<1>1. ASSUME session' = session, now' = now,
             req'[r].pc \in {"resetWrite", "resetRevoke"},
             req'[r].chain = req[r].chain, req'[r].actor = req[r].actor,
             req'[r].snap = req[r].snap
      PROVE  RequestInv(r)'
  BY <1>0, <1>1 DEF RequestInv, At, Issued
<1>2. ASSUME NEW u \in Users, Reset(r, u) PROVE RequestInv(r)'
  <2>1. /\ session' = session /\ now' = now
        /\ req'[r] = [req[r] EXCEPT !.pc = "resetWrite", !.target = u,
                                    !.proof = password[u]]
    BY <1>0, <1>2 DEF Reset, TypeOK
  <2> QED BY <1>0, <1>1, <2>1 DEF Request
<1>3. ASSUME NEW u \in Users, ResetDenied(r, u) PROVE RequestInv(r)'
  BY <1>0, <1>3, ReturnKeepsInv DEF ResetDenied
<1>4. CASE ResetWrite(r)
  <2>1. CASE Return(r)
    BY <1>0, <2>1, ReturnKeepsInv
  <2>2. CASE Goto(r, "resetRevoke")
    <3>1. req'[r] = [req[r] EXCEPT !.pc = "resetRevoke"]
      BY <1>0, <2>2 DEF Goto, TypeOK
    <3>2. session' = session /\ now' = now
      BY <1>4 DEF ResetWrite
    <3> QED BY <1>0, <1>1, <3>1, <3>2 DEF Request
  <2> QED BY <1>4, <2>1, <2>2 DEF ResetWrite
<1>5. CASE ResetRevoke(r)
  <2>1. /\ session' = session /\ now' = now
        /\ req'[r] = [req[r] EXCEPT !.pc = "allReady",
                                    !.atStart = LiveOf(req[r].target)]
    BY <1>0, <1>5 DEF ResetRevoke, TypeOK
  <2>2. /\ req'[r].pc = "allReady" /\ req'[r].target = req[r].target
        /\ req'[r].atStart = LiveOf(req[r].target) /\ req'[r].snap = req[r].snap
        /\ req'[r].chain = req[r].chain /\ req'[r].actor = req[r].actor
    BY <1>0, <2>1 DEF Request
  <2> QED BY <1>0, <2>1, <2>2, AdmittedFacts
<1>6. CASE SetOwnPassword(r)
  <2>1. /\ session' = session /\ now' = now
        /\ req'[r] = [req[r] EXCEPT !.pc = "ownReady", !.target = req[r].actor,
                                    !.atStart = LiveOf(req[r].actor),
                                    !.reason = "password-changed"]
    BY <1>0, <1>6 DEF SetOwnPassword, TypeOK
  <2>2. /\ req'[r].pc = "ownReady" /\ req'[r].target = req[r].actor
        /\ req'[r].atStart = LiveOf(req[r].actor)
        /\ req'[r].chain = req[r].chain /\ req'[r].actor = req[r].actor
        /\ req'[r].snap = req[r].snap
    BY <1>0, <2>1 DEF Request
  <2> QED BY <1>0, <2>1, <2>2, AdmittedFacts
<1>7. CASE OwnSnapshot(r)
  <2>1. /\ session' = session /\ now' = now /\ At(r, "ownReady")
        /\ req'[r] = [req[r] EXCEPT !.pc = "ownEnd", !.snap = LiveOf(req[r].target)]
    BY <1>0, <1>7 DEF OwnSnapshot, Snapshot, TypeOK
  <2>2. /\ req'[r].pc = "ownEnd" /\ req'[r].snap = LiveOf(req[r].target)
        /\ req'[r].atStart = req[r].atStart /\ req[r].atStart \in SUBSET Sids
        /\ req'[r].chain = req[r].chain /\ req'[r].actor = req[r].actor
    BY <1>0, <2>1 DEF Request
  <2> QED BY <1>0, <2>1, <2>2, SnapshotFacts
<1>8. CASE OwnEnd(r)
  <2>1. /\ session' = EndRows(req[r].snap, "password-changed") /\ now' = now
        /\ At(r, "ownEnd") /\ req'[r] = [req[r] EXCEPT !.pc = "ownWrite"]
    BY <1>0, <1>8 DEF OwnEnd, Goto, TypeOK
  <2>2. /\ req'[r].pc = "ownWrite" /\ req'[r].snap = req[r].snap
        /\ req'[r].atStart = req[r].atStart
        /\ req'[r].chain = req[r].chain /\ req'[r].actor = req[r].actor
        /\ req[r].snap \in SUBSET Sids /\ req[r].atStart \in SUBSET Sids
        /\ req[r].chain \in Sids \cup {NoSession}
    BY <1>0, <2>1 DEF Request
  <2>3. Evolves(NoSession)
    BY <1>0, <2>1, <2>2, EndRowsKeeps DEF RequestInv, EndReasons
  <2>4. \A s \in Sids : Issued(s) =>
          Kept(s) /\ Issued(s)' /\ (~Live(s) => ~Live(s)')
    BY <1>0, <2>3, IssuedAndDeadStaySo
  <2>5. \A s \in req[r].atStart : Issued(s)' /\ ~Live(s)'
    BY <1>0, <2>1, FoundAreEnded DEF EndReasons
  <2>6. \A s \in req'[r].snap : Issued(s)'
    BY <1>0, <2>2, <2>4 DEF RequestInv
  <2>7. req'[r].chain # NoSession =>
          /\ session'[req'[r].chain].end \in EndReasons
          /\ session'[req'[r].chain].user = req'[r].actor
    BY <1>0, <2>2, <2>4 DEF RequestInv, Kept, Issued, EndReasons
  <2> QED BY <2>2, <2>5, <2>6, <2>7 DEF RequestInv, At
<1>9. CASE OwnWrite(r)
  BY <1>0, <1>9, ReturnKeepsInv DEF OwnWrite
<1> QED BY <1>2, <1>3, <1>4, <1>5, <1>6, <1>7, <1>8, <1>9 DEF PasswordStep

(* A request moves alone: the records of the others stay.                  *)
LEMMA OthersStay ==
    ASSUME TypeOK, NEW r \in Requests, NEW q \in Requests, q # r,
           SignInStep(r) \/ IdentifierStep(r) \/ RevocationStep(r) \/ PasswordStep(r)
    PROVE  req'[q] = req[q]
<1>1. CASE SignInStep(r)
  BY <1>1 DEF SignInStep, SignIn, SignInSnapshot, SignInEnd, SignInChallenged,
              SignInStart, Snapshot, Return, TypeOK
<1>2. CASE IdentifierStep(r)
  BY <1>2 DEF IdentifierStep, RotateSnapshot, SignOutSnapshot, Validate, RotateEnd,
              SignOutEnd, Reauthenticate, Return, TypeOK
<1>3. CASE RevocationStep(r)
  BY <1>3 DEF RevocationStep, RevokeOne, RevokeAll, RevokeOneSnapshot, RevokeOneEnd,
              RevokeAllSnapshot, RevokeAllEnd, Snapshot, Return, TypeOK
<1>4. CASE PasswordStep(r)
  BY <1>4 DEF PasswordStep, Reset, ResetDenied, ResetWrite, ResetRevoke,
              SetOwnPassword, OwnSnapshot, OwnEnd, OwnWrite, Snapshot, Goto,
              Return, TypeOK
<1> QED BY <1>1, <1>2, <1>3, <1>4

LEMMA EveryRequestKeepsInv ==
    ASSUME IInv, TypeOK', [Next]_vars, NEW q \in Requests
    PROVE  RequestInv(q)'
<1>0. TypeOK /\ RequestInv(q)
  BY DEF IInv
<1>1. req'[q] = req[q] => RequestInv(q)'
  BY <1>0, Evolution, BystanderKeepsInv
<1>2. CASE UNCHANGED vars
  BY <1>1, <1>2 DEF vars
<1>3. ASSUME NEW r \in Requests,
             SignInStep(r) \/ IdentifierStep(r) \/ RevocationStep(r) \/ PasswordStep(r)
      PROVE  RequestInv(q)'
  <2>1. CASE q = r
    BY <1>3, <2>1, SignInKeepsInv, IdentifierKeepsInv, RevocationKeepsInv,
       PasswordKeepsInv
  <2>2. CASE q # r
    BY <1>0, <1>1, <1>3, <2>2, OthersStay
  <2> QED BY <2>1, <2>2
<1>4. CASE World
  <2>1. ASSUME NEW r \in Requests, Crash(r) PROVE RequestInv(q)'
    <3>1. CASE q = r
      BY <1>0, <2>1, <3>1, ReturnKeepsInv DEF Crash
    <3>2. CASE q # r
      BY <1>0, <1>1, <2>1, <3>2 DEF Crash, Return, TypeOK
    <3> QED BY <3>1, <3>2
  <2> QED BY <1>1, <1>4, <2>1 DEF World, Tick, ChangeGrants, ChangeStanding
<1> QED BY <1>2, <1>3, <1>4 DEF Next

LEMMA SuccessorStep ==
    ASSUME TypeOK, TypeOK', SuccessorMeansEnded,
           NEW n \in Sids \cup {NoSession}, Evolves(n)
    PROVE  SuccessorMeansEnded'
<1> SUFFICES ASSUME NEW s \in Sids, session'[s].from # NoSession
             PROVE  /\ session'[session'[s].from].end \in EndReasons
                    /\ session'[session'[s].from].user = session'[s].user
    BY DEF SuccessorMeansEnded
<1>1. CASE s = n
  BY <1>1 DEF Evolves, Minted
<1>2. CASE s # n
  <2> DEFINE p == session[s].from
  <2>1. Kept(s) /\ session'[s].from = p
    BY <1>2 DEF Evolves, Kept
  <2>2. p \in Sids /\ session[p].end \in EndReasons /\ session[p].user = session[s].user
    BY <2>1 DEF SuccessorMeansEnded, TypeOK, Row
  <2>3. Kept(p)
    BY <2>2, IssuedAndDeadStaySo DEF Issued, EndReasons
  <2> QED BY <2>1, <2>2, <2>3 DEF Kept
<1> QED BY <1>1, <1>2

LEMMA InvariantInit == Init => IInv
<1> SUFFICES ASSUME Init PROVE IInv
    OBVIOUS
<1>1. SuccessorMeansEnded
  BY DEF Init, SuccessorMeansEnded, Unissued
<1>2. \A r \in Requests : RequestInv(r)
  BY DEF Init, RequestInv, At, Idle
<1> QED BY <1>1, <1>2, InitTypeOK DEF IInv

LEMMA InvariantStep == IInv /\ [Next]_vars => IInv'
<1> SUFFICES ASSUME IInv, [Next]_vars PROVE IInv'
    OBVIOUS
<1>1. TypeOK'
  BY TypeStep DEF IInv, RotationHoldsToken, RequestInv
<1>2. SuccessorMeansEnded'
  BY <1>1, Evolution, SuccessorStep DEF IInv
<1>3. \A r \in Requests : RequestInv(r)'
  BY <1>1, EveryRequestKeepsInv
<1> QED BY <1>1, <1>2, <1>3 DEF IInv

-----------------------------------------------------------------------------
(* What holds of every behaviour *)

(* The inductive invariant: the table is well formed, a predecessor is over *)
(* and of the same holder, and every request in flight still knows the      *)
(* facts about the table that its next transaction relies on.               *)
THEOREM Invariant == Spec => []IInv
<1>1. Init => IInv
  BY InvariantInit
<1>2. IInv /\ [Next]_vars => IInv'
  BY InvariantStep
<1> QED BY <1>1, <1>2, PTL DEF Spec

(* The table, the requests and the clock keep their types, for any number   *)
(* of people, identifiers and requests.                                     *)
THEOREM TypeCorrect == Spec => []TypeOK
<1>1. IInv => TypeOK
  BY DEF IInv
<1> QED BY <1>1, Invariant, PTL

(* A session that was replaced is over, and was the same person's as the    *)
(* one that replaced it, however rotations and sign-ins overlap.            *)
THEOREM PredecessorsAreOver == Spec => []SuccessorMeansEnded
<1>1. IInv => SuccessorMeansEnded
  BY DEF IInv
<1> QED BY <1>1, Invariant, PTL

(* No session fixation: when a sign-in reaches the point where it mints an  *)
(* identifier, the one its client arrived with is dead, whoever held it.    *)
THEOREM FixationIsRefused == Spec => []PresentedIdentifierIsDead
<1>1. IInv => PresentedIdentifierIsDead
  BY DEF IInv, PresentedIdentifierIsDead, RequestInv
<1> QED BY <1>1, Invariant, PTL

(* A password change writes only when every session its request was         *)
(* admitted with is dead, so a crash never leaves a new password beside the *)
(* old sessions.                                                            *)
THEOREM RevocationComesFirst == Spec => OwnPasswordChangeRevokesFirst
<1>1. IInv /\ [Next]_vars =>
        [\A r \in Requests : OwnWrite(r) => \A s \in req[r].atStart : ~Live(s)]_vars
  BY DEF IInv, RequestInv, OwnWrite
<1> QED BY <1>1, Invariant, PTL DEF Spec, OwnPasswordChangeRevokesFirst

(* Ending everything somebody has (repo/sessions.ts, revokeSessionsOfUser)  *)
(* ends whatever it found, for any number of requests that rotate, sign in, *)
(* sign out and revoke beside it.                                           *)
THEOREM RevocationIsComplete == Spec => RevocationEndsWhatItFound
<1>1. IInv /\ IInv' /\ [Next]_vars =>
        [\A r \in Requests :
           RevokeAllEnd(r) => \A s \in req[r].atStart : ~Live(s)']_vars
  <2> SUFFICES ASSUME IInv, IInv', NEW r \in Requests, RevokeAllEnd(r),
                      NEW s \in req[r].atStart
               PROVE  ~Live(s)'
    OBVIOUS
  <2>1. TypeOK /\ TypeOK' /\ RequestInv(r)
    BY DEF IInv
  <2>2. At(r, "allEnd") /\ session' = EndRows(req[r].snap, "revoked") /\ now' = now
    BY DEF RevokeAllEnd
  <2>3. "revoked" \in EndReasons
    BY DEF EndReasons
  <2> QED BY <2>1, <2>2, <2>3, FoundAreEnded
<1> QED BY <1>1, Invariant, PTL DEF Spec, RevocationEndsWhatItFound

LEMMA LedgerInit == Init => Ledger!LedgerInit
<1> SUFFICES ASSUME Init PROVE Ledger!LedgerInit
    OBVIOUS
<1>1. \A s \in Sids : Status(s) = "unissued" /\ session[s].user = NoUser
  BY DEF Init, Status, Issued, Unissued
<1> QED BY <1>1 DEF Ledger!LedgerInit

LEMMA LedgerStep ==
    IInv /\ IInv' /\ [Next]_vars => [Ledger!LedgerNext]_(Ledger!ledgerVars)
<1> SUFFICES ASSUME IInv, IInv', [Next]_vars PROVE Ledger!LedgerNext
    OBVIOUS
<1> DEFINE status == [s \in Sids |-> Status(s)]
           holder == [s \in Sids |-> session[s].user]
<1>0. TypeOK /\ TypeOK'
  BY DEF IInv
<1>1. PICK n \in Sids \cup {NoSession} : Evolves(n)
  BY Evolution
<1> DEFINE K == {s \in Sids : s # n /\ Live(s) /\ ~Live(s)'}
           N == {s \in Sids : s = n}
<1>2. \A s \in Sids : Live(s) => Status(s) = "live"
  BY DEF Status, Live, Issued
<1>3. \A s \in N : Status(s) = "unissued"
  BY <1>1 DEF Status, Issued, Evolves, Minted
<1>4. ASSUME NEW s \in Sids
      PROVE  /\ s \in K => Status(s)' = "dead"
             /\ s \in N => Status(s)' \in {"live", "dead"}
             /\ s \notin K \cup N => Status(s)' = Status(s)
             /\ s \notin N => session'[s].user = session[s].user
  <2>1. s \in K => Status(s)' = "dead"
    <3> SUFFICES ASSUME s \in K PROVE Issued(s)' /\ ~Live(s)'
        BY DEF Status
    <3>1. Issued(s)
      BY DEF Live, Issued
    <3> QED BY <1>0, <1>1, <3>1, IssuedAndDeadStaySo
  <2>2. s \in N => Issued(s)'
    BY <1>1 DEF Issued, Evolves, Minted
  <2>3. s \notin N => Kept(s)
    BY <1>1 DEF Evolves
  <2>4. s \notin K \cup N => Status(s)' = Status(s)
    <3> SUFFICES ASSUME s \notin K \cup N PROVE Status(s)' = Status(s)
        OBVIOUS
    <3>1. Issued(s)' <=> Issued(s)
      BY <2>3 DEF Kept, Issued
    <3>2. Live(s) => Live(s)'
      OBVIOUS
    <3>3. Issued(s) /\ ~Live(s) => ~Live(s)'
      BY <1>0, <1>1, IssuedAndDeadStaySo
    <3> QED BY <3>1, <3>2, <3>3 DEF Status
  <2> QED BY <2>1, <2>2, <2>3, <2>4 DEF Status, Kept
<1>5. K \in SUBSET Sids /\ N \in SUBSET Sids
  OBVIOUS
<1>6. Ledger!EndAndIssue(K, N)
  BY <1>2, <1>3, <1>4 DEF Ledger!EndAndIssue
<1> QED BY <1>5, <1>6 DEF Ledger!LedgerNext

(* The store implements the ledger: an identifier is issued once, to one    *)
(* person, dies once, and no two are issued in one step.                    *)
THEOREM StoreImplementsLedger == Spec => ImplementsLedger
<1>1. Init => Ledger!LedgerInit
  BY LedgerInit
<1>2. IInv /\ IInv' /\ [Next]_vars => [Ledger!LedgerNext]_(Ledger!ledgerVars)
  BY LedgerStep
<1> QED BY <1>1, <1>2, Invariant, PTL DEF Spec, ImplementsLedger, Ledger!LedgerSpec

=============================================================================
