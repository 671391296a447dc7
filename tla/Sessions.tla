------------------------------ MODULE Sessions ------------------------------
(***************************************************************************)
(* The session store of one organization: src/src/repo/sessions.ts, the    *)
(* flows of src/src/auth/sessions.ts that call it, the freshness check of  *)
(* src/src/repo/reauthentication.ts, and the tables of migrations 10, 13.  *)
(*                                                                         *)
(* Every repository call is one PostgreSQL transaction at READ COMMITTED   *)
(* (scoped() in src/src/db/internal/handle.ts), and one request makes      *)
(* several of them, so a request is a little program whose pc names the    *)
(* transaction, or the part of a statement, that comes next.               *)
(*                                                                         *)
(* The statement that ends a session is                                    *)
(*   update sessions set revoked_at = .., revoked_reason = ..              *)
(*   where exists (select 1 from live_sessions live                        *)
(*                 where live.id = sessions.id) and <target>               *)
(* Its liveness predicate reads a SECOND reference to the table.  When the *)
(* row changed after the statement took its snapshot, PostgreSQL waits for *)
(* the row lock and re-evaluates the condition on the new version of the   *)
(* UPDATED row only; the second reference keeps the snapshot's version.    *)
(* So the statement decides liveness at its snapshot and writes later:     *)
(* the two are separate steps here (a *Snapshot and an *End action).       *)
(***************************************************************************)
EXTENDS Naturals

CONSTANTS
    Users,          \* people of this organization
    NoUser,         \* "nobody"
    Sids,           \* session identifiers a CSPRNG may mint (token = row)
    NoSession,      \* "no identifier"
    Requests,       \* requests in flight at once
    GrantSets,      \* the sets of actions an external grant change may leave
    ReauthActions,  \* actions the organization's policy wants fresh
    ReauthWindow,   \* reauth_window_seconds, in ticks
    Lifetime,       \* session lifetime, in ticks
    Entry,          \* bound: the entry points and outside changes in play
    MaxTime,        \* bound on the clock
    MaxPassword     \* bound on the number of password changes per person

Actions == {"revoke_sessions", "reset_password"}
EndReasons == {"signed-out", "rotated", "privilege-change", "revoked",
               "password-changed"}
RotationReasons == {"rotated", "privilege-change"}
Standings == {"member", "disabled", "removed"}
EntryPoints == {"signIn", "rotate", "signOut", "reauthenticate", "revokeOne",
                "revokeAll", "reset", "setOwn", "crash", "grants", "standing"}

ASSUME SessionsAssumption ==
    /\ NoUser \notin Users
    /\ NoSession \notin Sids
    /\ GrantSets \subseteq SUBSET Actions
    /\ ReauthActions \subseteq Actions
    /\ Entry \subseteq EntryPoints
    /\ ReauthWindow \in Nat /\ Lifetime \in Nat
    /\ MaxTime \in Nat /\ MaxPassword \in Nat

VARIABLES
    session,    \* the sessions table, one row per identifier
    password,   \* users.password_hash, as a version number
    standing,   \* memberships and users.disabled_at
    grants,     \* member.* actions a person holds at organization scope
    now,        \* statement_timestamp()
    req         \* the requests in flight

vars == <<session, password, standing, grants, now, req>>

-----------------------------------------------------------------------------
(* Rows and requests *)

Row == [user : Users \cup {NoUser}, expires : Nat,
        end : {"unissued", "open"} \cup EndReasons,
        from : Sids \cup {NoSession},
        authAt : Nat,       \* authenticated_at
        provedAt : Nat,     \* history: when a password was last proved
        proof : Nat]        \* history: the password version proved at sign-in

Unissued == [user |-> NoUser, expires |-> 0, end |-> "unissued",
             from |-> NoSession, authAt |-> 0, provedAt |-> 0, proof |-> 0]

PCs == {"idle", "signInPresented", "signInEnd", "signInStart", "rotateEnd",
        "signOutEnd", "authenticated", "oneReady", "oneEnd", "allReady",
        "allEnd", "resetWrite", "resetRevoke", "ownReady", "ownEnd",
        "ownWrite"}

Request == [pc : PCs,
            actor : Users \cup {NoUser},       \* who acts, or is signing in
            target : Users \cup {NoUser},      \* whose sessions or password
            token : Sids \cup {NoSession},     \* the identifier presented
            victim : Sids \cup {NoSession},    \* session named by id
            snap : SUBSET Sids,                \* rows a statement will end
            reason : EndReasons,
            chain : Sids \cup {NoSession},     \* predecessor to record
            proof : Nat,                       \* password version read
            atStart : SUBSET Sids]             \* history: the target's live
                                               \* sessions at admission

Idle == [pc |-> "idle", actor |-> NoUser, target |-> NoUser,
         token |-> NoSession, victim |-> NoSession, snap |-> {},
         reason |-> "revoked", chain |-> NoSession, proof |-> 0,
         atStart |-> {}]

TypeOK ==
    /\ session \in [Sids -> Row]
    /\ password \in [Users -> Nat]
    /\ standing \in [Users -> Standings]
    /\ grants \in [Users -> SUBSET Actions]
    /\ now \in Nat
    /\ req \in [Requests -> Request]

Init ==
    /\ session = [s \in Sids |-> Unissued]
    /\ password = [u \in Users |-> 0]
    /\ standing = [u \in Users |-> "member"]
    /\ grants \in [Users -> GrantSets]
    /\ now = 0
    /\ req = [r \in Requests |-> Idle]

-----------------------------------------------------------------------------
(* Views and statements *)

Issued(s) == session[s].end # "unissued"

(* The live_sessions view: the only place expiry and revocation are judged. *)
Live(s) == session[s].end = "open" /\ session[s].expires > now

LiveOf(u) == {s \in Sids : Live(s) /\ session[s].user = u}

(* END_SESSION's write: the rows its snapshot found live, whatever has      *)
(* happened to them since.                                                  *)
EndRows(S, reason) ==
    [s \in Sids |-> IF s \in S THEN [session[s] EXCEPT !.end = reason]
                               ELSE session[s]]

(* fault: an expiry computed in the wrong direction *)
NewRowExpired(u, from, provedAt, proof) ==
    [user |-> u, expires |-> now - Lifetime, end |-> "open", from |-> from,
     authAt |-> now, provedAt |-> provedAt, proof |-> proof]

(* writeSession's insert.  authenticated_at is not among its columns, so    *)
(* the default of migration 13, now(), fills it in.                         *)
NewRow(u, from, provedAt, proof) ==
    [user |-> u, expires |-> now + Lifetime, end |-> "open", from |-> from,
     authAt |-> now, provedAt |-> provedAt, proof |-> proof]

Inserted(tbl, s, row) == [tbl EXCEPT ![s] = row]

(* require(): can() on current grants and membership, then checkFreshness   *)
(* on the request's own session.                                            *)
Fresh(token, act) ==
    act \in ReauthActions =>
        /\ Live(token)
        /\ session[token].authAt + ReauthWindow > now

Permitted(r, act) ==
    /\ standing[req[r].actor] = "member"
    /\ act \in grants[req[r].actor]
    /\ Fresh(req[r].token, act)

IsSelf(r, u) == req[r].actor = u

At(r, pc) == req[r].pc = pc
Goto(r, pc) == req' = [req EXCEPT ![r] = [@ EXCEPT !.pc = pc]]
Return(r) == req' = [req EXCEPT ![r] = Idle]
Snapshot(r, S, pc) ==
    req' = [req EXCEPT ![r] = [@ EXCEPT !.pc = pc, !.snap = S]]

-----------------------------------------------------------------------------
(* fault: the second factor is asked before the presented session is ended *)
SignInKeepsPresented(r, u, t) ==
    /\ "signIn" \in Entry
    /\ At(r, "idle")
    /\ standing[u] = "member"
    /\ t \in {NoSession} \cup {s \in Sids : Issued(s)}
    /\ req' = [req EXCEPT ![r] = [Idle EXCEPT !.pc = "signInStart", !.actor = u,
                                  !.token = t, !.proof = password[u]]]
    /\ UNCHANGED <<session, password, standing, grants, now>>

(* signIn: find the credential, end what the client presented, ask what     *)
(* second factor is owed, and only then mint an identifier.  A refused      *)
(* attempt changes nothing, so only the accepted one is a step: the hash    *)
(* read here is the one the password was verified against.                  *)
SignIn(r, u, t) ==
    /\ "signIn" \in Entry
    /\ At(r, "idle")
    /\ standing[u] = "member"
    /\ t \in {NoSession} \cup {s \in Sids : Issued(s)}
    /\ req' = [req EXCEPT ![r] =
                 [Idle EXCEPT !.pc = IF t = NoSession THEN "signInStart"
                                                      ELSE "signInPresented",
                              !.actor = u, !.token = t, !.reason = "rotated",
                              !.proof = password[u]]]
    /\ UNCHANGED <<session, password, standing, grants, now>>

SignInSnapshot(r) ==
    /\ At(r, "signInPresented")
    /\ Snapshot(r, {s \in Sids : s = req[r].token /\ Live(s)}, "signInEnd")
    /\ UNCHANGED <<session, password, standing, grants, now>>

(* The chain is recorded only when the ended session was the same person's. *)
SignInEnd(r) ==
    /\ At(r, "signInEnd")
    /\ session' = EndRows(req[r].snap, "rotated")
    /\ req' = [req EXCEPT ![r] =
                 [@ EXCEPT !.pc = "signInStart", !.snap = {},
                           !.chain = IF /\ req[r].snap # {}
                                        /\ session[req[r].token].user = req[r].actor
                                     THEN req[r].token ELSE NoSession]]
    /\ UNCHANGED <<password, standing, grants, now>>

(* demandFor() answered "verify" or "enrol": a challenge, and no session.   *)
(* TwoFactor.tla models what follows.                                       *)
SignInChallenged(r) ==
    /\ At(r, "signInStart")
    /\ Return(r)
    /\ UNCHANGED <<session, password, standing, grants, now>>

(* startSession: the insert selects from memberships, so somebody removed   *)
(* meanwhile gets no row.                                                   *)
SignInStart(r) ==
    /\ At(r, "signInStart")
    /\ IF standing[req[r].actor] = "removed"
       THEN UNCHANGED session
       ELSE \E s \in Sids :
              /\ ~Issued(s)
              /\ session' = Inserted(session, s,
                              NewRow(req[r].actor, req[r].chain, now, req[r].proof))
    /\ Return(r)
    /\ UNCHANGED <<password, standing, grants, now>>

-----------------------------------------------------------------------------
(* rotateSession and signOut: holding the identifier is the authority. An   *)
(* identifier the snapshot does not find live is answered null.             *)
RotateSnapshot(r, t, reason) ==
    /\ "rotate" \in Entry
    /\ At(r, "idle")
    /\ Live(t)
    /\ req' = [req EXCEPT ![r] = [Idle EXCEPT !.pc = "rotateEnd", !.token = t,
                                             !.snap = {t}, !.reason = reason]]
    /\ UNCHANGED <<session, password, standing, grants, now>>

(* fault: rotation as an edit of the row it found, sliding its expiry *)
RotateEndSlides(r) ==
    LET t == req[r].token IN
    /\ At(r, "rotateEnd")
    /\ session' = [session EXCEPT ![t] = [@ EXCEPT !.expires = now + Lifetime]]
    /\ Return(r)
    /\ UNCHANGED <<password, standing, grants, now>>

(* fault: the insert commits, the update does not *)
RotateEndKeepsOld(r) ==
    LET t == req[r].token IN
    /\ At(r, "rotateEnd")
    /\ \E s \in Sids :
          /\ ~Issued(s)
          /\ session' = Inserted(session, s,
                          NewRow(session[t].user, t, session[t].provedAt,
                                 session[t].proof))
    /\ Return(r)
    /\ UNCHANGED <<password, standing, grants, now>>

(* replaceSession: the update and the insert commit together or, when the   *)
(* holder is no longer a member, not at all.                                *)
RotateEnd(r) ==
    LET t == req[r].token IN
    /\ At(r, "rotateEnd")
    /\ IF standing[session[t].user] = "removed"
       THEN UNCHANGED session
       ELSE \E s \in Sids :
              /\ ~Issued(s)
              /\ session' = Inserted(EndRows({t}, req[r].reason), s,
                              NewRow(session[t].user, t, session[t].provedAt,
                                     session[t].proof))
    /\ Return(r)
    /\ UNCHANGED <<password, standing, grants, now>>

SignOutSnapshot(r, t) ==
    /\ "signOut" \in Entry
    /\ At(r, "idle")
    /\ Live(t)
    /\ req' = [req EXCEPT ![r] = [Idle EXCEPT !.pc = "signOutEnd", !.token = t,
                                  !.snap = {t}, !.reason = "signed-out"]]
    /\ UNCHANGED <<session, password, standing, grants, now>>

SignOutEnd(r) ==
    /\ At(r, "signOutEnd")
    /\ session' = EndRows(req[r].snap, "signed-out")
    /\ Return(r)
    /\ UNCHANGED <<password, standing, grants, now>>

-----------------------------------------------------------------------------
(* validateSession.  The request acts as the holder from here on, whatever  *)
(* happens to the session meanwhile.                                        *)
Validate(r, t) ==
    /\ Entry \cap {"reauthenticate", "revokeOne", "revokeAll", "reset", "setOwn"} # {}
    /\ At(r, "idle")
    /\ Live(t)
    /\ req' = [req EXCEPT ![r] = [Idle EXCEPT !.pc = "authenticated",
                                             !.token = t,
                                             !.actor = session[t].user]]
    /\ UNCHANGED <<session, password, standing, grants, now>>

(* markAuthenticated, after the password was proved again: the acting       *)
(* user's own live session.                                                 *)
Reauthenticate(r) ==
    LET t == req[r].token IN
    /\ "reauthenticate" \in Entry
    /\ At(r, "authenticated")
    /\ Live(t) /\ session[t].user = req[r].actor
    /\ session' = [session EXCEPT ![t] = [@ EXCEPT !.authAt = now,
                                                      !.provedAt = now]]
    /\ Return(r)
    /\ UNCHANGED <<password, standing, grants, now>>

(* revokeSessionById: the holder is looked up first, and decides whether a  *)
(* permission is needed.                                                    *)
RevokeOne(r, s) ==
    /\ "revokeOne" \in Entry
    /\ At(r, "authenticated")
    /\ Issued(s)
    /\ IsSelf(r, session[s].user) \/ Permitted(r, "revoke_sessions")
    /\ req' = [req EXCEPT ![r] = [@ EXCEPT !.pc = "oneReady", !.victim = s]]
    /\ UNCHANGED <<session, password, standing, grants, now>>

RevokeOneSnapshot(r) ==
    /\ At(r, "oneReady")
    /\ Snapshot(r, {s \in Sids : s = req[r].victim /\ Live(s)}, "oneEnd")
    /\ UNCHANGED <<session, password, standing, grants, now>>

RevokeOneEnd(r) ==
    /\ At(r, "oneEnd")
    /\ session' = EndRows(req[r].snap, "revoked")
    /\ Return(r)
    /\ UNCHANGED <<password, standing, grants, now>>

(* revokeSessionsOfUser, as revokeAllSessions and applyPrivilegeChange call *)
(* it.                                                                      *)
RevokeAll(r, u) ==
    /\ "revokeAll" \in Entry
    /\ At(r, "authenticated")
    /\ IsSelf(r, u) \/ Permitted(r, "revoke_sessions")
    /\ req' = [req EXCEPT ![r] = [@ EXCEPT !.pc = "allReady", !.target = u,
                                          !.atStart = LiveOf(u)]]
    /\ UNCHANGED <<session, password, standing, grants, now>>

(* fault: the session that asked is spared *)
RevokeAllSnapshotOthers(r) ==
    /\ At(r, "allReady")
    /\ Snapshot(r, LiveOf(req[r].target) \ {req[r].token}, "allEnd")
    /\ UNCHANGED <<session, password, standing, grants, now>>

RevokeAllSnapshot(r) ==
    /\ At(r, "allReady")
    /\ Snapshot(r, LiveOf(req[r].target), "allEnd")
    /\ UNCHANGED <<session, password, standing, grants, now>>

RevokeAllEnd(r) ==
    /\ At(r, "allEnd")
    /\ session' = EndRows(req[r].snap, "revoked")
    /\ Return(r)
    /\ UNCHANGED <<password, standing, grants, now>>

-----------------------------------------------------------------------------
(* resetMemberPassword: somebody else's password first (that write is where *)
(* member.reset_password is resolved), then revokeSessionsOfUser, which     *)
(* resolves member.revoke_sessions on its own.                              *)
Reset(r, u) ==
    /\ "reset" \in Entry
    /\ At(r, "authenticated")
    /\ ~IsSelf(r, u)
    /\ Permitted(r, "reset_password")
    /\ req' = [req EXCEPT ![r] = [@ EXCEPT !.pc = "resetWrite", !.target = u,
                                          !.proof = password[u]]]
    /\ UNCHANGED <<session, password, standing, grants, now>>

(* updatePasswordHash is scoped through memberships: no row, an error.      *)
ResetWrite(r) ==
    LET u == req[r].target IN
    /\ At(r, "resetWrite")
    /\ IF standing[u] = "removed"
       THEN UNCHANGED password /\ Return(r)
       ELSE /\ password[u] < MaxPassword
            /\ password' = [password EXCEPT ![u] = @ + 1]
            /\ Goto(r, "resetRevoke")
    /\ UNCHANGED <<session, standing, grants, now>>

ResetRevoke(r) ==
    /\ At(r, "resetRevoke")
    /\ Permitted(r, "revoke_sessions")
    /\ req' = [req EXCEPT ![r] = [@ EXCEPT !.pc = "allReady",
                                          !.atStart = LiveOf(req[r].target)]]
    /\ UNCHANGED <<session, password, standing, grants, now>>

(* Either half may refuse: not permitted, or (member.revoke_sessions being  *)
(* one of the organization's reauth_actions) permitted and not fresh.       *)
ResetDenied(r, u) ==
    /\ "reset" \in Entry
    /\ \/ /\ At(r, "authenticated")
          /\ ~IsSelf(r, u) /\ ~Permitted(r, "reset_password")
       \/ /\ At(r, "resetRevoke")
          /\ u = req[r].target /\ ~Permitted(r, "revoke_sessions")
    /\ Return(r)
    /\ UNCHANGED <<session, password, standing, grants, now>>

(* fault: the password is written first, the sessions are left for later *)
SetOwnPasswordWritesFirst(r) ==
    /\ "setOwn" \in Entry
    /\ At(r, "authenticated")
    /\ req' = [req EXCEPT ![r] = [@ EXCEPT !.pc = "ownWrite",
                                          !.target = req[r].actor,
                                          !.atStart = LiveOf(req[r].actor)]]
    /\ UNCHANGED <<session, password, standing, grants, now>>

(* setOwnPassword: end the sessions first, then write the password.         *)
SetOwnPassword(r) ==
    /\ "setOwn" \in Entry
    /\ At(r, "authenticated")
    /\ req' = [req EXCEPT ![r] = [@ EXCEPT !.pc = "ownReady",
                                          !.target = req[r].actor,
                                          !.atStart = LiveOf(req[r].actor),
                                          !.reason = "password-changed"]]
    /\ UNCHANGED <<session, password, standing, grants, now>>

OwnSnapshot(r) ==
    /\ At(r, "ownReady")
    /\ Snapshot(r, LiveOf(req[r].target), "ownEnd")
    /\ UNCHANGED <<session, password, standing, grants, now>>

OwnEnd(r) ==
    /\ At(r, "ownEnd")
    /\ session' = EndRows(req[r].snap, "password-changed")
    /\ Goto(r, "ownWrite")
    /\ UNCHANGED <<password, standing, grants, now>>

OwnWrite(r) ==
    LET u == req[r].target IN
    /\ At(r, "ownWrite")
    /\ IF standing[u] = "removed"
       THEN UNCHANGED password
       ELSE /\ password[u] < MaxPassword
            /\ password' = [password EXCEPT ![u] = @ + 1]
    /\ Return(r)
    /\ UNCHANGED <<session, standing, grants, now>>

-----------------------------------------------------------------------------
(* The rest of the world: the clock, the process or its connection dying    *)
(* between two transactions, and the tables other code writes.              *)
Tick ==
    /\ now < MaxTime
    /\ now' = now + 1
    /\ UNCHANGED <<session, password, standing, grants, req>>

Crash(r) ==
    /\ "crash" \in Entry
    /\ ~At(r, "idle")
    /\ Return(r)
    /\ UNCHANGED <<session, password, standing, grants, now>>

ChangeGrants(u, g) ==
    /\ "grants" \in Entry
    /\ grants' = [grants EXCEPT ![u] = g]
    /\ UNCHANGED <<session, password, standing, now, req>>

ChangeStanding(u, st) ==
    /\ "standing" \in Entry
    /\ standing[u] = "member"
    /\ standing' = [standing EXCEPT ![u] = st]
    /\ UNCHANGED <<session, password, grants, now, req>>

SignInStep(r) ==
    \/ \E u \in Users, t \in Sids \cup {NoSession} : SignIn(r, u, t)
    \/ SignInSnapshot(r) \/ SignInEnd(r) \/ SignInChallenged(r) \/ SignInStart(r)

IdentifierStep(r) ==
    \/ \E t \in Sids : \/ \E reason \in RotationReasons : RotateSnapshot(r, t, reason)
                       \/ SignOutSnapshot(r, t)
                       \/ Validate(r, t)
    \/ RotateEnd(r) \/ SignOutEnd(r) \/ Reauthenticate(r)

RevocationStep(r) ==
    \/ \E s \in Sids : RevokeOne(r, s)
    \/ \E u \in Users : RevokeAll(r, u)
    \/ RevokeOneSnapshot(r) \/ RevokeOneEnd(r)
    \/ RevokeAllSnapshot(r) \/ RevokeAllEnd(r)

PasswordStep(r) ==
    \/ \E u \in Users : Reset(r, u) \/ ResetDenied(r, u)
    \/ ResetWrite(r) \/ ResetRevoke(r)
    \/ SetOwnPassword(r) \/ OwnSnapshot(r) \/ OwnEnd(r) \/ OwnWrite(r)

World ==
    \/ Tick
    \/ \E r \in Requests : Crash(r)
    \/ \E u \in Users : \/ \E g \in GrantSets : ChangeGrants(u, g)
                        \/ \E st \in Standings : ChangeStanding(u, st)

Next ==
    \/ \E r \in Requests : \/ SignInStep(r) \/ IdentifierStep(r)
                           \/ RevocationStep(r) \/ PasswordStep(r)
    \/ World

Spec == Init /\ [][Next]_vars
-----------------------------------------------------------------------------
(* Properties of every interleaving *)

(* A session that was replaced is dead, whoever else presented it at the    *)
(* same time, so that nobody who presents it afterwards gets another; and   *)
(* only its own holder's session replaced it: rotation is "a new row, not   *)
(* an edit" (migration 10 note 4), and a sign-in names no planted           *)
(* identifier as its predecessor.                                           *)
SuccessorMeansEnded ==
    \A s \in Sids :
        session[s].from # NoSession =>
            LET p == session[s].from IN
            /\ session[p].end \in EndReasons
            /\ session[p].user = session[s].user

(* Session fixation: once signIn has passed its revocation step, the        *)
(* identifier the client arrived with is dead, whoever it belonged to, and  *)
(* whatever other requests did to it meanwhile (signIn steps 4 to 6).       *)
PresentedIdentifierIsDead ==
    \A r \in Requests :
        /\ At(r, "signInStart")
        /\ req[r].token # NoSession
        => ~Live(req[r].token)

(* setOwnPassword revokes before it writes: at the write, nothing that was  *)
(* live at its revocation's snapshot is live, so a crash between the two    *)
(* never leaves "the new password and the old sessions" behind.             *)
OwnPasswordChangeRevokesFirst ==
    [][\A r \in Requests :
         OwnWrite(r) => \A s \in req[r].atStart : ~Live(s)]_vars

(* revokeSessionsOfUser: whatever overlaps it (rotations, sign-ins, other   *)
(* revocations, the clock), none of the sessions the person had when it was *)
(* admitted is live once it commits.  What is live then was minted          *)
(* meanwhile.                                                               *)
RevocationEndsWhatItFound ==
    [][\A r \in Requests :
         RevokeAllEnd(r) => \A s \in req[r].atStart : ~Live(s)']_vars

(* Every behaviour of the store is one of the ledger: identifiers are       *)
(* issued once, to one person, at most one per step, and never come back.   *)
Status(s) == IF ~Issued(s) THEN "unissued" ELSE IF Live(s) THEN "live" ELSE "dead"

Ledger == INSTANCE SessionLedger
            WITH Holders <- Users \cup {NoUser},
                 status <- [s \in Sids |-> Status(s)],
                 holder <- [s \in Sids |-> session[s].user]

ImplementsLedger == Ledger!LedgerSpec

-----------------------------------------------------------------------------
(* Promises the code's comments make and overlapping requests break.        *)

(* rotateSession: "there is no instant at which one chain has two live      *)
(* identifiers".                                                            *)
OneLiveSuccessor ==
    \A s, t \in Sids :
        /\ s # t /\ Live(s) /\ Live(t)
        /\ session[s].from # NoSession
        => session[s].from # session[t].from

(* Ending a session is idempotent: "a second call ends nothing", so the     *)
(* recorded reason is that of what actually ended it.                       *)
EndIsRecordedOnce ==
    [][\A s \in Sids : session[s].end \in EndReasons =>
                        session'[s].end = session[s].end]_vars

(* revokeSessionsOfUser: "no session left behind".  When it commits, none   *)
(* of the sessions the person had when it was admitted is live, and neither *)
(* is one that replaced them.                                               *)
NoSessionLeftBehind ==
    [][\A r \in Requests :
         RevokeAllEnd(r) =>
           \A s \in Sids :
             session'[s].end = "open" /\ session[s].expires > now =>
               {s, session[s].from} \cap req[r].atStart = {}]_vars

(* setOwnPassword: no live session rests on the password it replaced.       *)
OldPasswordSessionsDie ==
    [][\A r \in Requests :
         OwnWrite(r) =>
           \A s \in LiveOf(req[r].target) :
             session[s].proof = password'[req[r].target]]_vars

(* resetMemberPassword: "a denial then happens before anything has          *)
(* happened".  A refused reset leaves the password it found.                *)
DeniedResetChangesNothing ==
    [][\A r \in Requests, u \in Users :
         ResetDenied(r, u) /\ At(r, "resetRevoke") =>
           password[u] = req[r].proof]_vars

(* authenticated_at: "a rotation carries the session forward without        *)
(* proving anything", so a session never looks fresher than its last proof. *)
FreshnessIsProved ==
    \A s \in Sids : Live(s) => session[s].authAt <= session[s].provedAt
=============================================================================
