--------------------------- MODULE StartupProofs ---------------------------
(***************************************************************************)
(* Proofs about Startup.tla, for any processes, secrets, migrations,       *)
(* builds, settings and claims.                                            *)
(***************************************************************************)
EXTENDS Startup, FiniteSetTheorems, TLAPS

-----------------------------------------------------------------------------
(* One installation *)

ClaimsTyped == claim \in [Claims -> Claim]

Undecided(c) == claim[c].pc \in {"create", "marker"}

(* Unless a claim slipped: one is undecided at a time; it was matched       *)
(* before there was an organization; and an organization is followed by     *)
(* the marker.                                                             *)
OneUndecided == \A c, d \in Claims : Undecided(c) /\ Undecided(d) => c = d
CreatesFirst == \A c \in Claims : claim[c].pc = "create" => orgs = {}
MarkerFollows == spent \/ orgs = {} \/ \E c \in Claims : claim[c].pc = "marker"
OneAtMost == \E f : orgs \subseteq {f}

InOneGo == OneUndecided /\ CreatesFirst /\ MarkerFollows /\ OneAtMost

ClaimInv == ClaimsTyped /\ (~slipped => InOneGo)

LEMMA InitClaimInv == Init => ClaimInv
<1> SUFFICES ASSUME Init PROVE ClaimInv
  OBVIOUS
<1>1. ClaimsTyped
  BY DEF Init, ClaimsTyped, Claim, NoClaim
<1>2. \A c \in Claims : claim[c].pc = "idle"
  BY DEF Init, NoClaim
<1>3. orgs = {}
  BY DEF Init
<1> QED BY <1>1, <1>2, <1>3 DEF ClaimInv, InOneGo, OneUndecided, Undecided, CreatesFirst,
                                MarkerFollows, OneAtMost

(* Starts, restarts and the operator leave claims and the marker alone, and *)
(* at most take the organizations away.                                    *)
LEMMA ClaimsKept ==
    ASSUME ClaimInv, UNCHANGED <<claim, spent, slipped>>, orgs' = orgs \/ orgs' = {}
    PROVE  ClaimInv'
  BY DEF ClaimInv, ClaimsTyped, InOneGo, OneUndecided, Undecided, CreatesFirst, MarkerFollows,
         OneAtMost

LEMMA StartKeepsClaims ==
    ASSUME ClaimInv, NEW p \in Processes, Starts(p) PROVE ClaimInv'
<1>1. CASE MigrateDown(p)
  <2>1. UNCHANGED <<claim, spent, slipped>>
    BY <1>1 DEF MigrateDown, Token, History
  <2>2. orgs' = orgs \/ orgs' = {}
    BY <1>1 DEF MigrateDown, Database
  <2> QED BY <2>1, <2>2, ClaimsKept
<1>2. CASE ~MigrateDown(p)
  <2>1. CASE Look(p) \/ Truncate(p) \/ Fill(p) \/ Read(p) \/ Bind(p)
    BY <2>1, ClaimsKept DEF Look, Truncate, Fill, Read, Bind, Token, Database, History
  <2>2. CASE ReadApplied(p) \/ MigrateUp(p) \/ MigratedUp(p) \/ Check(p)
    BY <2>2, ClaimsKept DEF ReadApplied, MigrateUp, MigratedUp, Check, Token, Database, History
  <2>3. CASE Mint(p) \/ TokenTruncate(p) \/ TokenFill(p)
    BY <2>3, ClaimsKept DEF Mint, TokenTruncate, TokenFill, Token, Database, History
  <2>4. CASE Organizations(p) \/ Identity(p) \/ IdentityInsert(p)
    BY <2>4, ClaimsKept DEF Organizations, Identity, IdentityInsert, Token, Database, History
  <2> QED BY <1>2, <2>1, <2>2, <2>3, <2>4 DEF Starts
<1> QED BY <1>1, <1>2

(* One claim moves.                                                        *)
LEMMA GoesTo ==
    ASSUME ClaimInv, NEW c \in Claims, NEW pc \in {"idle", "create", "marker", "unlink", "audit"},
           ClaimGoto(c, pc)
    PROVE  /\ ClaimsTyped' /\ \A d \in Claims \ {c} : claim'[d] = claim[d]
           /\ claim'[c].pc = pc
<1>1. claim \in [Claims -> Claim]
  BY DEF ClaimInv, ClaimsTyped
<1>2. PICK x \in Claim : x.pc = pc /\ claim' = [claim EXCEPT ![c] = x]
  <2> DEFINE x == [claim[c] EXCEPT !.pc = pc]
  <2>1. x \in Claim /\ x.pc = pc
    BY <1>1 DEF Claim
  <2>2. claim' = [claim EXCEPT ![c] = x]
    BY <1>1 DEF ClaimGoto
  <2> HIDE DEF x
  <2> QED BY <2>1, <2>2
<1> QED BY <1>1, <1>2 DEF ClaimsTyped

LEMMA IsAnswered ==
    ASSUME ClaimInv, NEW c \in Claims, Answered(c)
    PROVE  /\ ClaimsTyped' /\ \A d \in Claims \ {c} : claim'[d] = claim[d]
           /\ claim'[c].pc = "idle"
<1>1. NoClaim \in Claim /\ NoClaim.pc = "idle"
  BY DEF NoClaim, Claim
<1> QED BY <1>1 DEF Answered, ClaimInv, ClaimsTyped

LEMMA MatchKeeps ==
    ASSUME ClaimInv, NEW c \in Claims, NEW p \in Processes, NEW f \in Forms, ClaimMatch(c, p, f)
    PROVE  ClaimInv'
<1> DEFINE x == [pc |-> "create", at |-> p, form |-> f]
<1>1. x \in Claim /\ x.pc = "create"
  BY DEF Claim
<1>2. claim' = [claim EXCEPT ![c] = x] /\ ~spent /\ UNCHANGED <<spent, orgs>>
  BY DEF ClaimMatch, Token, Database
<1> HIDE DEF x
<1>3. ClaimsTyped' /\ \A d \in Claims : claim'[d] = IF d = c THEN x ELSE claim[d]
  BY <1>1, <1>2 DEF ClaimInv, ClaimsTyped
<1>4. ASSUME ~slipped' PROVE InOneGo'
  <2>1. ~slipped /\ \A d \in Claims : ~Undecided(d)
    BY <1>4 DEF ClaimMatch, Undecided
  <2>2. orgs = {}
    BY <1>2, <2>1 DEF ClaimInv, InOneGo, MarkerFollows, Undecided
  <2> QED BY <1>1, <1>2, <1>3, <2>1, <2>2 DEF InOneGo, OneUndecided, Undecided, CreatesFirst,
                                              MarkerFollows, OneAtMost
<1> QED BY <1>3, <1>4 DEF ClaimInv

LEMMA CreateKeeps ==
    ASSUME ClaimInv, NEW c \in Claims, ClaimCreate(c) PROVE ClaimInv'
<1>1. claim[c].pc = "create" /\ UNCHANGED <<spent, slipped>>
  BY DEF ClaimCreate, Token, History
<1>2. CASE Answered(c) /\ UNCHANGED orgs
  <2>1. /\ ClaimsTyped' /\ \A d \in Claims \ {c} : claim'[d] = claim[d]
        /\ claim'[c].pc = "idle"
    BY <1>2, IsAnswered
  <2> QED BY <1>1, <1>2, <2>1 DEF ClaimInv, InOneGo, OneUndecided, Undecided, CreatesFirst,
                                  MarkerFollows, OneAtMost
<1>3. CASE ClaimGoto(c, "marker") /\ orgs' = orgs \cup {claim[c].form}
  <2>1. /\ ClaimsTyped' /\ \A d \in Claims \ {c} : claim'[d] = claim[d]
        /\ claim'[c].pc = "marker"
    BY <1>3, GoesTo
  <2>2. ASSUME ~slipped' PROVE InOneGo'
    <3>1. InOneGo /\ orgs = {} /\ \A d \in Claims \ {c} : ~Undecided(d)
      BY <1>1, <2>2 DEF ClaimInv, InOneGo, OneUndecided, Undecided, CreatesFirst
    <3> QED BY <1>3, <2>1, <3>1 DEF InOneGo, OneUndecided, Undecided, CreatesFirst,
                                    MarkerFollows, OneAtMost
  <2> QED BY <2>1, <2>2 DEF ClaimInv
<1> QED BY <1>2, <1>3 DEF ClaimCreate

LEMMA MarkerKeeps ==
    ASSUME ClaimInv, NEW c \in Claims, ClaimMarker(c) PROVE ClaimInv'
<1>1. claim[c].pc = "marker" /\ spent' = TRUE /\ UNCHANGED <<orgs, slipped>>
  BY DEF ClaimMarker, Database, History
<1>2. /\ ClaimsTyped' /\ \A d \in Claims \ {c} : claim'[d] = claim[d]
      /\ claim'[c].pc = "unlink"
  BY GoesTo DEF ClaimMarker
<1> QED BY <1>1, <1>2 DEF ClaimInv, InOneGo, OneUndecided, Undecided, CreatesFirst,
                          MarkerFollows, OneAtMost

LEMMA UnlinkKeeps ==
    ASSUME ClaimInv, NEW c \in Claims, ClaimUnlink(c) PROVE ClaimInv'
<1>1. claim[c].pc = "unlink" /\ UNCHANGED <<spent, orgs, slipped>>
  BY DEF ClaimUnlink, Database, History
<1>2. /\ ClaimsTyped' /\ \A d \in Claims \ {c} : claim'[d] = claim[d]
      /\ claim'[c].pc = "audit"
  BY GoesTo DEF ClaimUnlink
<1> QED BY <1>1, <1>2 DEF ClaimInv, InOneGo, OneUndecided, Undecided, CreatesFirst,
                          MarkerFollows, OneAtMost

LEMMA AuditKeeps ==
    ASSUME ClaimInv, NEW c \in Claims, ClaimAudit(c) PROVE ClaimInv'
<1>1. claim[c].pc = "audit" /\ UNCHANGED <<spent, orgs, slipped>>
  BY DEF ClaimAudit, Token, Database, History
<1>2. /\ ClaimsTyped' /\ \A d \in Claims \ {c} : claim'[d] = claim[d]
      /\ claim'[c].pc = "idle"
  BY IsAnswered DEF ClaimAudit
<1> QED BY <1>1, <1>2 DEF ClaimInv, InOneGo, OneUndecided, Undecided, CreatesFirst,
                          MarkerFollows, OneAtMost

(* What dies with its process before the organization is made left nothing *)
(* behind; after it, it slipped.                                           *)
LEMMA CrashKeeps ==
    ASSUME ClaimInv, NEW p \in Processes, Crash(p) PROVE ClaimInv'
<1>1. \A c \in Claims : claim'[c] = IF claim[c].at = p THEN NoClaim ELSE claim[c]
  BY DEF Crash, EndOf
<1>2. UNCHANGED <<spent, orgs>>
  BY DEF Crash, Token, Database
<1>3. NoClaim \in Claim /\ NoClaim.pc = "idle"
  BY DEF NoClaim, Claim
<1>4. ClaimsTyped'
  BY <1>1, <1>3 DEF ClaimInv, ClaimsTyped, Crash, EndOf
<1>5. ASSUME ~slipped' PROVE InOneGo'
  <2>1. ~slipped /\ \A c \in Claims : claim[c].at = p => claim[c].pc # "marker"
    BY <1>5 DEF Crash
  <2>2. \A c \in Claims : claim'[c].pc = claim[c].pc \/ claim'[c].pc = "idle"
    BY <1>1, <1>3
  <2>3. \A c \in Claims : claim[c].pc = "marker" => claim'[c].pc = "marker"
    BY <1>1, <2>1
  <2> QED BY <1>2, <2>1, <2>2, <2>3 DEF ClaimInv, InOneGo, OneUndecided, Undecided, CreatesFirst,
                                        MarkerFollows, OneAtMost
<1> QED BY <1>4, <1>5 DEF ClaimInv

LEMMA NextClaimInv == ClaimInv /\ [Next]_vars => ClaimInv'
<1> SUFFICES ASSUME ClaimInv, [Next]_vars PROVE ClaimInv'
  OBVIOUS
<1>1. ASSUME NEW p \in Processes, NEW job \in Jobs, NEW build \in Builds, NEW setting \in Settings,
             Begin(p, job, build, setting)
      PROVE  ClaimInv'
  BY <1>1, ClaimsKept DEF Begin, Token, Database
<1>2. ASSUME NEW p \in Processes, Starts(p) PROVE ClaimInv'
  BY <1>2, StartKeepsClaims
<1>3. ASSUME NEW p \in Processes, Restart(p) PROVE ClaimInv'
  BY <1>3, ClaimsKept DEF Restart, Token, Database, History
<1>4. ASSUME NEW p \in Processes, Crash(p) PROVE ClaimInv'
  BY <1>4, CrashKeeps
<1>5. ASSUME NEW c \in Claims, NEW p \in Processes, NEW f \in Forms, ClaimMatch(c, p, f)
      PROVE  ClaimInv'
  BY <1>5, MatchKeeps
<1>6. ASSUME NEW c \in Claims, ClaimStep(c) PROVE ClaimInv'
  BY <1>6, CreateKeeps, MarkerKeeps, UnlinkKeeps, AuditKeeps DEF ClaimStep
<1>7. ASSUME NEW c \in Claims, ClaimFails(c) PROVE ClaimInv'
  <2>1. ClaimsTyped'
    BY <1>7, IsAnswered DEF ClaimFails
  <2> QED BY <1>7, <2>1 DEF ClaimFails, ClaimInv
<1>8. ASSUME NEW n \in Names, RemoveSecret(n) PROVE ClaimInv'
  BY <1>8, ClaimsKept DEF RemoveSecret, Token, Database
<1>9. CASE UNCHANGED vars
  BY <1>9, ClaimsKept DEF vars
<1> QED BY <1>1, <1>2, <1>3, <1>4, <1>5, <1>6, <1>7, <1>8, <1>9 DEF Next

(* However many processes start, stop and die, and however often the        *)
(* installation is claimed, there is one organization unless two claims     *)
(* overlapped or one was created and its token never spent (createIn-      *)
(* stallation and spendBootstrapToken are two steps).                      *)
THEOREM ClaimedOnce == Spec => []OneInstallation
<1>1. ClaimInv => OneInstallation
  <2> SUFFICES ASSUME ClaimInv, ~slipped PROVE Cardinality(orgs) <= 1
    BY DEF OneInstallation
  <2>1. PICK f : orgs \subseteq {f}
    BY DEF ClaimInv, InOneGo, OneAtMost
  <2>2. Cardinality({f}) = 1 /\ Cardinality({}) = 0
    BY FS_Singleton, FS_EmptySet
  <2>3. orgs = {} \/ orgs = {f}
    BY <2>1
  <2> QED BY <2>2, <2>3
<1> QED BY <1>1, InitClaimInv, NextClaimInv, PTL DEF Spec

-----------------------------------------------------------------------------
(* Processes *)

USE StartupAssumption

Typed == process \in [Processes -> Process]
Rest(p) == \A q \in Processes \ {p} : process'[q] = process[q]

LEMMA Positions ==
    /\ Len(Secrets) \in Nat \ {0}
    /\ 1 \in 1..(Count + Len(Secrets))
    /\ \A m \in Migrations : m + 1 \in 1..(Count + Len(Secrets))
    /\ \A i \in 1..Len(Secrets) : i \in 1..(Count + Len(Secrets)) /\ Secrets[i] \in Names
<1>1. Len(Secrets) \in Nat /\ Len(Secrets) > 0 /\ Count \in Nat
  OBVIOUS
<1> QED BY <1>1 DEF Migrations, Names

LEMMA IdleFields ==
    /\ Idle \in Process
    /\ Idle.pc = "idle" /\ Idle.job = "serve" /\ Idle.next = 1 /\ Idle.refused = FALSE
    /\ Idle.sure = "no" /\ Idle.seen \in [Migrations -> Nat] /\ Idle.org = NoForm
<1>1. 1 \in 1..(Count + Len(Secrets))
  BY Positions
<1> QED BY <1>1 DEF Idle, Process, PCs, Jobs, Contents, Sureness

LEMMA ExitEffect ==
    ASSUME Typed, NEW p \in Processes, Exit(p)
    PROVE  Typed' /\ Rest(p) /\ process'[p] = Idle
  BY IdleFields DEF Typed, Rest, Exit, Become

LEMMA BecomeEffect ==
    ASSUME Typed, NEW p \in Processes, NEW x \in Process, Become(p, x)
    PROVE  Typed' /\ Rest(p) /\ process'[p] = x
  BY DEF Typed, Rest, Become

LEMMA FieldsOf ==
    ASSUME NEW y \in Process
    PROVE  /\ y.pc \in PCs /\ y.job \in Jobs /\ y.build \in Builds /\ y.setting \in Settings
           /\ y.next \in 1..(Count + Len(Secrets)) /\ y.next \in Nat
           /\ y.holds \in [Names -> Contents]
           /\ y.refused \in BOOLEAN /\ y.seen \in [Migrations -> Nat]
           /\ y.org \in Forms \cup {NoForm} /\ y.sure \in Sureness
  BY DEF Process

(* Every field but the program counter stays.                              *)
Alike(x, y) ==
    /\ x.job = y.job /\ x.build = y.build /\ x.next = y.next /\ x.holds = y.holds
    /\ x.refused = y.refused /\ x.seen = y.seen /\ x.sure = y.sure

LEMMA GotoFields ==
    ASSUME NEW y \in Process, NEW pc \in PCs
    PROVE  LET x == [y EXCEPT !.pc = pc] IN x \in Process /\ x.pc = pc /\ Alike(x, y)
  BY DEF Process, Alike

LEMMA GotoEffect ==
    ASSUME Typed, NEW p \in Processes, NEW pc \in PCs, Goto(p, pc)
    PROVE  Typed' /\ Rest(p) /\ process'[p].pc = pc /\ Alike(process'[p], process[p])
<1> DEFINE x == [process[p] EXCEPT !.pc = pc]
<1>1. x \in Process /\ x.pc = pc /\ Alike(x, process[p])
  BY GotoFields DEF Typed
<1>2. Become(p, x)
  BY DEF Goto
<1> HIDE DEF x
<1> QED BY <1>1, <1>2, BecomeEffect

LEMMA BeginEffect ==
    ASSUME Typed, NEW p \in Processes, NEW job \in Jobs, NEW build \in Builds,
           NEW setting \in Settings, Begin(p, job, build, setting)
    PROVE  /\ Typed' /\ Rest(p)
           /\ process'[p].pc = IF job \in {"serve", "preflight"} THEN "look" ELSE "applied"
           /\ process'[p].job = job /\ process'[p].next = 1 /\ process'[p].refused = FALSE
<1> DEFINE pc == IF job \in {"serve", "preflight"} THEN "look" ELSE "applied"
           x == [Idle EXCEPT !.job = job, !.build = build, !.setting = setting, !.pc = pc]
<1>1. pc \in PCs
  BY DEF PCs, SecretPCs
<1>2. Become(p, x)
  BY DEF Begin
<1> HIDE DEF pc
<1>3. x \in Process /\ x.pc = pc /\ x.job = job /\ x.next = 1 /\ x.refused = FALSE
  BY <1>1, IdleFields DEF Process
<1> HIDE DEF x
<1> QED BY <1>2, <1>3, BecomeEffect DEF pc

LEMMA ReadEffect ==
    ASSUME Typed, file \in [Names -> Contents], NEW p \in Processes, Read(p),
           process[p].next <= Len(Secrets)
    PROVE  /\ Typed' /\ Rest(p)
           /\ \/ process'[p] = Idle
              \/ /\ process'[p].job = process[p].job
                 /\ process'[p].refused = (process[p].refused \/ Weak(file[Secret(p)]))
                 /\ process'[p].holds = [process[p].holds EXCEPT ![Secret(p)] = file[Secret(p)]]
                 /\ \/ /\ process[p].next < Len(Secrets)
                       /\ process'[p].pc = "look" /\ process'[p].next = process[p].next + 1
                    \/ /\ process[p].next = Len(Secrets) /\ ~process'[p].refused
                       /\ process'[p].pc = "bind" /\ process'[p].next = 1
<1> DEFINE content == file[Secret(p)]
           refused == process[p].refused \/ Weak(content)
           more == process[p].next < Len(Secrets)
           pc == IF more THEN "look" ELSE "bind"
           next == IF more THEN process[p].next + 1 ELSE 1
           holds == [process[p].holds EXCEPT ![Secret(p)] = content]
           x == [process[p] EXCEPT !.pc = pc, !.next = next, !.refused = refused,
                                   !.holds = holds]
<1>1. process[p] \in Process
  BY DEF Typed
<1>2. process[p].next \in 1..Len(Secrets) /\ Len(Secrets) \in Nat /\ Count \in Nat
  BY <1>1, FieldsOf, Positions
<1>3. pc \in PCs /\ next \in 1..(Count + Len(Secrets))
  <2>1. pc \in PCs
    BY DEF PCs, SecretPCs
  <2>2. next \in 1..(Count + Len(Secrets))
    BY <1>2
  <2> QED BY <2>1, <2>2
<1>4. content \in Contents /\ Secret(p) \in Names
  BY <1>2, Positions DEF Secret
<1>5. holds \in [Names -> Contents] /\ refused \in BOOLEAN
  <2>1. process[p].holds \in [Names -> Contents] /\ process[p].refused \in BOOLEAN
    BY <1>1, FieldsOf
  <2>2. holds \in [Names -> Contents]
    BY <1>4, <2>1
  <2>3. refused \in BOOLEAN
    BY <2>1 DEF Weak
  <2> QED BY <2>2, <2>3
<1>6. Exit(p) \/ ((more \/ ~refused) /\ Become(p, x))
  BY DEF Read
<1>7. more \/ process[p].next = Len(Secrets)
  BY <1>2
<1>8. (more => pc = "look" /\ next = process[p].next + 1) /\ (~more => pc = "bind" /\ next = 1)
  OBVIOUS
<1>9. (more <=> process[p].next < Len(Secrets)) /\ (refused <=> (process[p].refused \/ Weak(content)))
  OBVIOUS
<1> HIDE DEF pc, next, refused, holds, more
<1>10. /\ x \in Process /\ x.pc = pc /\ x.next = next /\ x.refused = refused
       /\ x.holds = holds /\ x.job = process[p].job
  BY <1>1, <1>3, <1>5 DEF Process
<1> HIDE DEF x
<1>11. CASE Exit(p)
  BY <1>11, ExitEffect
<1>12. CASE (more \/ ~refused) /\ Become(p, x)
  <2>1. Typed' /\ Rest(p) /\ process'[p] = x
    BY <1>10, <1>12, BecomeEffect
  <2>2. refused = (process[p].refused \/ Weak(content))
    BY DEF refused
  <2>3. holds = [process[p].holds EXCEPT ![Secret(p)] = content]
    BY DEF holds
  <2>4. \/ process[p].next < Len(Secrets) /\ x.pc = "look" /\ x.next = process[p].next + 1
        \/ process[p].next = Len(Secrets) /\ ~x.refused /\ x.pc = "bind" /\ x.next = 1
    BY <1>7, <1>8, <1>9, <1>10, <1>12
  <2> QED BY <1>10, <2>1, <2>2, <2>3, <2>4
<1> QED BY <1>6, <1>11, <1>12

LEMMA ReadAppliedEffect ==
    ASSUME Typed, applied \in [Migrations -> Nat], NEW p \in Processes, ReadApplied(p)
    PROVE  /\ Typed' /\ Rest(p)
           /\ process'[p].pc = (IF process[p].job = "down" THEN "down" ELSE "up")
           /\ process'[p].job = process[p].job /\ process'[p].build = process[p].build
           /\ process'[p].next = 1 /\ process'[p].holds = process[p].holds
           /\ process'[p].seen = applied
<1> DEFINE pc == IF process[p].job = "down" THEN "down" ELSE "up"
           x == [process[p] EXCEPT !.pc = pc, !.next = 1, !.seen = applied, !.sure = "read"]
<1>1. pc \in PCs /\ 1 \in 1..(Count + Len(Secrets)) /\ "read" \in Sureness
  BY Positions DEF PCs, Sureness
<1>2. Become(p, x)
  BY DEF ReadApplied
<1> HIDE DEF pc
<1>3. /\ x \in Process /\ x.pc = pc /\ x.job = process[p].job /\ x.build = process[p].build
      /\ x.next = 1 /\ x.holds = process[p].holds /\ x.seen = applied
  BY <1>1 DEF Typed, Process
<1> HIDE DEF x
<1> QED BY <1>2, <1>3, BecomeEffect DEF pc

LEMMA RoundEffect ==
    ASSUME Typed, NEW p \in Processes, NEW m \in Migrations, m = process[p].next,
           Become(p, [process[p] EXCEPT !.next = m + 1])
    PROVE  /\ Typed' /\ Rest(p) /\ process'[p].pc = process[p].pc
           /\ process'[p].job = process[p].job /\ process'[p].build = process[p].build
           /\ process'[p].next = m + 1 /\ process'[p].holds = process[p].holds
           /\ process'[p].seen = process[p].seen /\ process'[p].sure = process[p].sure
<1> DEFINE next == m + 1
           x == [process[p] EXCEPT !.next = next]
<1>1. next \in 1..(Count + Len(Secrets))
  BY Positions
<1> HIDE DEF next
<1>2. /\ x \in Process /\ x.pc = process[p].pc /\ x.job = process[p].job
      /\ x.build = process[p].build /\ x.next = next /\ x.holds = process[p].holds
      /\ x.seen = process[p].seen /\ x.sure = process[p].sure
  BY <1>1 DEF Typed, Process
<1>3. Become(p, x)
  BY DEF next
<1> HIDE DEF x
<1> QED BY <1>2, <1>3, BecomeEffect DEF next

LEMMA MigratedUpEffect ==
    ASSUME Typed, NEW p \in Processes, MigratedUp(p)
    PROVE  /\ Typed' /\ Rest(p)
           /\ \/ process'[p] = Idle
              \/ /\ process'[p].pc = "check" /\ process[p].job # "up"
                 /\ process'[p].job = process[p].job /\ process'[p].build = process[p].build
                 /\ process'[p].holds = process[p].holds /\ process'[p].sure = process[p].sure
<1>1. CASE Exit(p)
  BY <1>1, ExitEffect
<1>2. CASE ~Exit(p)
  <2> DEFINE seen == Idle.seen
             x == [process[p] EXCEPT !.pc = "check", !.next = 1, !.seen = seen]
  <2>1. Become(p, x) /\ process[p].job # "up"
    BY <1>2 DEF MigratedUp
  <2>2. seen \in [Migrations -> Nat] /\ 1 \in 1..(Count + Len(Secrets)) /\ "check" \in PCs
    BY IdleFields, Positions DEF PCs
  <2> HIDE DEF seen
  <2>3. /\ x \in Process /\ x.pc = "check" /\ x.job = process[p].job
        /\ x.build = process[p].build /\ x.holds = process[p].holds /\ x.sure = process[p].sure
    BY <2>2 DEF Typed, Process
  <2> HIDE DEF x
  <2> QED BY <2>1, <2>3, BecomeEffect
<1> QED BY <1>1, <1>2

LEMMA CheckEffect ==
    ASSUME Typed, NEW p \in Processes, Check(p)
    PROVE  /\ Typed' /\ Rest(p)
           /\ \/ process'[p] = Idle
              \/ /\ process'[p].pc = "mint"
                 /\ \A m \in Migrations : Has(p, m) => applied[m] # 0
                 /\ process'[p].job = process[p].job /\ process'[p].build = process[p].build
                 /\ process'[p].holds = process[p].holds
                 /\ process'[p].sure = "read" => process[p].sure = "read"
<1>1. CASE Exit(p)
  BY <1>1, ExitEffect
<1>2. CASE ~Exit(p)
  <2> DEFINE sure == IF process[p].sure = "no" THEN "checked" ELSE process[p].sure
             x == [process[p] EXCEPT !.pc = "mint", !.sure = sure]
  <2>1. Become(p, x) /\ \A m \in Migrations : Has(p, m) => applied[m] # 0
    BY <1>2 DEF Check
  <2>2. sure \in Sureness /\ "mint" \in PCs /\ (sure = "read" => process[p].sure = "read")
    BY FieldsOf DEF Typed, Sureness, PCs
  <2> HIDE DEF sure
  <2>3. /\ x \in Process /\ x.pc = "mint" /\ x.job = process[p].job
        /\ x.build = process[p].build /\ x.holds = process[p].holds /\ x.sure = sure
    BY <2>2 DEF Typed, Process
  <2> HIDE DEF x
  <2> QED BY <2>1, <2>2, <2>3, BecomeEffect
<1> QED BY <1>1, <1>2

LEMMA OrganizationsEffect ==
    ASSUME Typed, orgs \subseteq Forms, NEW p \in Processes, Organizations(p)
    PROVE  /\ Typed' /\ Rest(p)
           /\ \/ process'[p] = Idle
              \/ process'[p].pc \in {"serving", "identity"} /\ Alike(process'[p], process[p])
<1>1. CASE Goto(p, "serving")
  BY <1>1, GotoEffect DEF PCs
<1>2. CASE Exit(p)
  BY <1>2, ExitEffect
<1>3. ASSUME NEW f \in orgs, Become(p, [process[p] EXCEPT !.pc = "identity", !.org = f])
      PROVE  /\ Typed' /\ Rest(p) /\ process'[p].pc = "identity"
             /\ Alike(process'[p], process[p])
  <2> DEFINE x == [process[p] EXCEPT !.pc = "identity", !.org = f]
  <2>1. "identity" \in PCs /\ f \in Forms \cup {NoForm}
    BY DEF PCs
  <2>2. x \in Process /\ x.pc = "identity" /\ Alike(x, process[p])
    BY <2>1 DEF Typed, Process, Alike
  <2> HIDE DEF x
  <2>3. Become(p, x)
    BY <1>3 DEF x
  <2> QED BY <2>2, <2>3, BecomeEffect
<1> QED BY <1>1, <1>2, <1>3 DEF Organizations

(* A roll-back makes every other process unsure.                           *)
LEMMA MigrateDownEffect ==
    ASSUME Typed, NEW p \in Processes, MigrateDown(p)
    PROVE  /\ Typed' /\ process'[p] = Idle
           /\ \A q \in Processes \ {p} :
                 /\ process'[q].pc = process[q].pc /\ process'[q].job = process[q].job
                 /\ process'[q].next = process[q].next /\ process'[q].refused = process[q].refused
                 /\ process'[q].holds = process[q].holds /\ process'[q].sure = "no"
<1>1. process' = [q \in Processes |-> IF q = p THEN Idle ELSE [process[q] EXCEPT !.sure = "no"]]
  BY DEF MigrateDown
<1>2. ASSUME NEW q \in Processes
      PROVE  LET x == [process[q] EXCEPT !.sure = "no"]
             IN  /\ x \in Process /\ x.pc = process[q].pc /\ x.job = process[q].job
                 /\ x.next = process[q].next /\ x.refused = process[q].refused
                 /\ x.holds = process[q].holds /\ x.sure = "no"
  <2>1. "no" \in Sureness
    BY DEF Sureness
  <2> QED BY <2>1 DEF Typed, Process
<1>3. Typed'
  BY <1>1, <1>2, IdleFields DEF Typed
<1> QED BY <1>1, <1>2, <1>3

-----------------------------------------------------------------------------
(* Types *)

AtSecret(p) == process[p].pc \in SecretPCs => process[p].next <= Len(Secrets)

(* The types of what the processes move.                                   *)
HostTyped ==
    /\ Typed /\ \A p \in Processes : AtSecret(p)
    /\ file \in [Names -> Contents]
    /\ token \in {Absent, Torn, Good}
    /\ applied \in [Migrations -> Nat]
    /\ identities \subseteq orgs /\ orgs \subseteq Forms

FormNamed == \A c \in Claims : claim[c].pc = "create" => claim[c].form \in Forms
FlagsTyped ==
    spent \in BOOLEAN /\ trouble \in 0..MaxTrouble /\ crossed \in BOOLEAN /\ slipped \in BOOLEAN

TypeInv == ClaimInv /\ HostTyped /\ FormNamed /\ FlagsTyped

(* A process elsewhere than at the secrets, or as far along them.          *)
LEMMA PlaceKept ==
    ASSUME HostTyped, NEW p \in Processes, Typed', Rest(p),
           process'[p].pc \in SecretPCs => process'[p].next <= Len(Secrets)
    PROVE  Typed' /\ \A q \in Processes : AtSecret(q)'
  BY DEF HostTyped, AtSecret, Rest

LEMMA IdleIsPlaced == Idle.pc \notin SecretPCs
  BY IdleFields DEF SecretPCs

LEMMA SecretSteps ==
    ASSUME HostTyped, NEW p \in Processes, Look(p) \/ Truncate(p) \/ Fill(p) \/ Read(p)
    PROVE  HostTyped'
<1>1. Typed /\ AtSecret(p)
  BY DEF HostTyped
<1>2. ASSUME NEW pc \in SecretPCs, process[p].pc \in SecretPCs, Goto(p, pc)
      PROVE  Typed' /\ \A q \in Processes : AtSecret(q)'
  <2>1. pc \in PCs
    BY DEF PCs
  <2>2. Typed' /\ Rest(p) /\ process'[p].pc = pc /\ Alike(process'[p], process[p])
    BY <1>1, <1>2, <2>1, GotoEffect
  <2> QED BY <1>1, <1>2, <2>2, PlaceKept DEF AtSecret, Alike
<1>3. CASE Look(p)
  <2>1. Typed' /\ \A q \in Processes : AtSecret(q)'
    <3> DEFINE pc == IF file[Secret(p)] = Absent THEN "truncate" ELSE "read"
    <3>1. pc \in SecretPCs /\ process[p].pc \in SecretPCs /\ Goto(p, pc)
      BY <1>3 DEF Look, At, SecretPCs
    <3> HIDE DEF pc
    <3> QED BY <1>2, <3>1
  <2> QED BY <1>3, <2>1 DEF Look, Token, Database, HostTyped
<1>4. CASE Truncate(p)
  <2>1. Typed' /\ \A q \in Processes : AtSecret(q)'
    BY <1>2, <1>4 DEF Truncate, At, SecretPCs
  <2>2. file' \in [Names -> Contents]
    BY <1>4 DEF Truncate, HostTyped, Contents
  <2> QED BY <1>4, <2>1, <2>2 DEF Truncate, Token, Database, HostTyped
<1>5. CASE Fill(p)
  <2>1. Typed' /\ \A q \in Processes : AtSecret(q)'
    BY <1>2, <1>5 DEF Fill, At, SecretPCs
  <2>2. file' \in [Names -> Contents]
    BY <1>5 DEF Fill, HostTyped, Contents
  <2> QED BY <1>5, <2>1, <2>2 DEF Fill, Token, Database, HostTyped
<1>6. CASE Read(p)
  <2>1. process[p].next <= Len(Secrets) /\ file \in [Names -> Contents]
    BY <1>1, <1>6 DEF Read, At, AtSecret, SecretPCs, HostTyped
  <2>2. /\ Typed' /\ Rest(p)
        /\ \/ process'[p] = Idle
           \/ process[p].next < Len(Secrets) /\ process'[p].next = process[p].next + 1
           \/ process'[p].pc = "bind"
    BY <1>1, <1>6, <2>1, ReadEffect
  <2>3. process[p].next \in Nat /\ Len(Secrets) \in Nat
    BY <1>1, FieldsOf, Positions DEF Typed
  <2>4. process'[p].pc \in SecretPCs => process'[p].next <= Len(Secrets)
    BY <2>2, <2>3, IdleIsPlaced DEF SecretPCs
  <2> QED BY <1>6, <2>2, <2>4, PlaceKept DEF Read, Token, Database, HostTyped
<1> QED BY <1>3, <1>4, <1>5, <1>6

LEMMA LaterSteps ==
    ASSUME HostTyped, NEW p \in Processes,
           \/ Bind(p) \/ ReadApplied(p) \/ MigrateUp(p) \/ MigratedUp(p) \/ MigrateDown(p)
           \/ Check(p) \/ Mint(p) \/ TokenTruncate(p) \/ TokenFill(p)
           \/ Organizations(p) \/ Identity(p) \/ IdentityInsert(p)
    PROVE  HostTyped'
<1>1. Typed /\ orgs \subseteq Forms /\ applied \in [Migrations -> Nat]
  BY DEF HostTyped
<1>2. ASSUME NEW pc \in PCs \ SecretPCs, Goto(p, pc)
      PROVE  Typed' /\ \A q \in Processes : AtSecret(q)'
  <2>1. Typed' /\ Rest(p) /\ process'[p].pc = pc
    BY <1>1, <1>2, GotoEffect
  <2> QED BY <1>2, <2>1, PlaceKept
<1>3. ASSUME Exit(p) PROVE Typed' /\ \A q \in Processes : AtSecret(q)'
  BY <1>1, <1>3, ExitEffect, PlaceKept, IdleIsPlaced
<1>4. CASE Bind(p)
  <2>1. Goto(p, "applied") \/ Exit(p)
    BY <1>4 DEF Bind
  <2>2. "applied" \in PCs \ SecretPCs
    BY DEF PCs, SecretPCs
  <2> QED BY <1>2, <1>3, <1>4, <2>1, <2>2 DEF Bind, Token, Database, HostTyped
<1>5. CASE ReadApplied(p)
  <2>1. Typed' /\ Rest(p) /\ process'[p].pc \in {"down", "up"}
    BY <1>1, <1>5, ReadAppliedEffect
  <2>2. Typed' /\ \A q \in Processes : AtSecret(q)'
    BY <2>1, PlaceKept DEF SecretPCs
  <2> QED BY <1>5, <2>2 DEF ReadApplied, Token, Database, HostTyped
<1>6. CASE MigrateUp(p)
  <2> DEFINE m == process[p].next
  <2>1. m \in Migrations /\ process[p].pc = "up"
    BY <1>6 DEF MigrateUp, At
  <2>2. Exit(p) \/ Become(p, [process[p] EXCEPT !.next = m + 1])
    BY <1>6 DEF MigrateUp
  <2>3. ASSUME Become(p, [process[p] EXCEPT !.next = m + 1])
        PROVE  Typed' /\ \A q \in Processes : AtSecret(q)'
    <3>1. Typed' /\ Rest(p) /\ process'[p].pc = "up"
      BY <1>1, <2>1, <2>3, RoundEffect
    <3> QED BY <3>1, PlaceKept DEF SecretPCs
  <2>4. applied' \in [Migrations -> Nat]
    <3>1. Sum(p, m) \in Nat
      BY <1>1, <2>1, FieldsOf DEF Typed, Sum
    <3> QED BY <1>1, <1>6, <2>1, <3>1 DEF MigrateUp
  <2>5. UNCHANGED <<file, Token, orgs, identities>>
    BY <1>6 DEF MigrateUp
  <2> QED BY <1>3, <2>2, <2>3, <2>4, <2>5 DEF Token, HostTyped
<1>7. CASE MigratedUp(p)
  <2>1. Typed' /\ Rest(p) /\ (process'[p] = Idle \/ process'[p].pc = "check")
    BY <1>1, <1>7, MigratedUpEffect
  <2>2. Typed' /\ \A q \in Processes : AtSecret(q)'
    BY <2>1, PlaceKept, IdleIsPlaced DEF SecretPCs
  <2> QED BY <1>7, <2>2 DEF MigratedUp, Token, Database, HostTyped
<1>8. CASE MigrateDown(p)
  <2>1. /\ Typed' /\ process'[p] = Idle
        /\ \A q \in Processes \ {p} : process'[q].pc = process[q].pc /\ process'[q].next = process[q].next
    BY <1>1, <1>8, MigrateDownEffect
  <2>2. \A q \in Processes : AtSecret(q)'
    BY <2>1, IdleIsPlaced DEF HostTyped, AtSecret
  <2>3. /\ applied' \in [Migrations -> Nat]
        /\ (orgs' = orgs /\ identities' = identities) \/ (orgs' = {} /\ identities' = {})
    BY <1>1, <1>8 DEF MigrateDown, Database
  <2> QED BY <1>8, <2>1, <2>2, <2>3 DEF MigrateDown, Token, HostTyped
<1>9. CASE Check(p)
  <2>1. Typed' /\ Rest(p) /\ (process'[p] = Idle \/ process'[p].pc = "mint")
    BY <1>1, <1>9, CheckEffect
  <2>2. Typed' /\ \A q \in Processes : AtSecret(q)'
    BY <2>1, PlaceKept, IdleIsPlaced DEF SecretPCs
  <2> QED BY <1>9, <2>2 DEF Check, Token, Database, HostTyped
<1>10. CASE Mint(p)
  <2>1. Goto(p, "orgs") \/ Goto(p, "tokenTruncate")
    BY <1>10 DEF Mint
  <2>2. {"orgs", "tokenTruncate"} \subseteq PCs \ SecretPCs
    BY DEF PCs, SecretPCs
  <2> QED BY <1>2, <1>10, <2>1, <2>2 DEF Mint, Token, Database, HostTyped
<1>11. CASE TokenTruncate(p) \/ TokenFill(p)
  <2>1. Goto(p, "orgs") \/ Goto(p, "tokenFill")
    BY <1>11 DEF TokenTruncate, TokenFill
  <2>2. {"orgs", "tokenFill"} \subseteq PCs \ SecretPCs
    BY DEF PCs, SecretPCs
  <2> QED BY <1>2, <1>11, <2>1, <2>2 DEF TokenTruncate, TokenFill, Database, HostTyped
<1>12. CASE Organizations(p)
  <2>1. Typed' /\ Rest(p) /\ (process'[p] = Idle \/ process'[p].pc \in {"serving", "identity"})
    BY <1>1, <1>12, OrganizationsEffect
  <2>2. Typed' /\ \A q \in Processes : AtSecret(q)'
    BY <2>1, PlaceKept, IdleIsPlaced DEF SecretPCs
  <2> QED BY <1>12, <2>2 DEF Organizations, Token, Database, HostTyped
<1>13. CASE Identity(p)
  <2>1. Goto(p, "serving") \/ Goto(p, "identityInsert")
    BY <1>13 DEF Identity
  <2>2. {"serving", "identityInsert"} \subseteq PCs \ SecretPCs
    BY DEF PCs, SecretPCs
  <2> QED BY <1>2, <1>13, <2>1, <2>2 DEF Identity, Token, Database, HostTyped
<1>14. CASE IdentityInsert(p)
  <2>1. Goto(p, "serving") \/ Exit(p)
    BY <1>14 DEF IdentityInsert
  <2>2. "serving" \in PCs \ SecretPCs
    BY DEF PCs, SecretPCs
  <2>3. identities' \subseteq orgs
    BY <1>14 DEF IdentityInsert, HostTyped
  <2> QED BY <1>2, <1>3, <1>14, <2>1, <2>2, <2>3 DEF IdentityInsert, Token, HostTyped
<1> QED BY <1>4, <1>5, <1>6, <1>7, <1>8, <1>9, <1>10, <1>11, <1>12, <1>13, <1>14

LEMMA HostSteps ==
    ASSUME HostTyped, NEW p \in Processes,
           \/ \E job \in Jobs, build \in Builds, setting \in Settings : Begin(p, job, build, setting)
           \/ Restart(p) \/ Crash(p)
    PROVE  HostTyped'
<1>1. Typed
  BY DEF HostTyped
<1>2. ASSUME NEW job \in Jobs, NEW build \in Builds, NEW setting \in Settings,
             Begin(p, job, build, setting)
      PROVE  HostTyped'
  <2>1. Typed' /\ Rest(p) /\ process'[p].next = 1
    BY <1>1, <1>2, BeginEffect
  <2>2. process'[p].next <= Len(Secrets)
    BY <2>1, Positions
  <2> QED BY <1>2, <2>1, <2>2, PlaceKept DEF Begin, Token, Database, HostTyped
<1>3. ASSUME Exit(p) PROVE Typed' /\ \A q \in Processes : AtSecret(q)'
  BY <1>1, <1>3, ExitEffect, PlaceKept, IdleIsPlaced
<1>4. CASE Restart(p)
  BY <1>3, <1>4 DEF Restart, Token, Database, HostTyped
<1>5. CASE Crash(p)
  BY <1>3, <1>5 DEF Crash, Token, Database, HostTyped
<1> QED BY <1>2, <1>4, <1>5

LEMMA ClaimSteps ==
    ASSUME HostTyped, ClaimInv, FormNamed, NEW c \in Claims,
           ClaimStep(c) \/ ClaimFails(c)
    PROVE  HostTyped'
<1>1. CASE ClaimCreate(c)
  <2>1. claim[c].form \in Forms
    BY <1>1 DEF ClaimCreate, FormNamed
  <2>2. orgs \subseteq orgs' /\ orgs' \subseteq Forms
    BY <1>1, <2>1 DEF ClaimCreate, HostTyped
  <2> QED BY <1>1, <2>2 DEF ClaimCreate, Token, HostTyped, Typed, AtSecret
<1>2. CASE ClaimMarker(c)
  BY <1>2 DEF ClaimMarker, Database, HostTyped, Typed, AtSecret
<1>3. CASE ClaimUnlink(c)
  BY <1>3 DEF ClaimUnlink, Database, HostTyped, Typed, AtSecret
<1>4. CASE ClaimAudit(c)
  BY <1>4 DEF ClaimAudit, Database, Token, HostTyped, Typed, AtSecret
<1>5. CASE ClaimFails(c)
  BY <1>5 DEF ClaimFails, Database, Token, HostTyped, Typed, AtSecret
<1> QED BY <1>1, <1>2, <1>3, <1>4, <1>5 DEF ClaimStep

(* A claim's form is what was typed into it.                               *)
LEMMA ClaimStepNames ==
    ASSUME ClaimInv, FormNamed, NEW c \in Claims, ClaimStep(c) \/ ClaimFails(c)
    PROVE  FormNamed'
<1>1. ASSUME NEW pc \in {"marker", "unlink", "audit"}, ClaimGoto(c, pc) PROVE FormNamed'
  <2>1. claim'[c].pc = pc /\ \A d \in Claims \ {c} : claim'[d] = claim[d]
    BY <1>1, GoesTo
  <2> QED BY <2>1 DEF FormNamed
<1>2. ASSUME Answered(c) PROVE FormNamed'
  <2>1. claim'[c].pc = "idle" /\ \A d \in Claims \ {c} : claim'[d] = claim[d]
    BY <1>2, IsAnswered
  <2> QED BY <2>1 DEF FormNamed
<1> QED BY <1>1, <1>2 DEF ClaimStep, ClaimCreate, ClaimMarker, ClaimUnlink, ClaimAudit, ClaimFails

LEMMA NextNames ==
    ASSUME ClaimInv, FormNamed, [Next]_vars PROVE FormNamed'
<1>1. ASSUME UNCHANGED claim PROVE FormNamed'
  BY <1>1 DEF FormNamed
<1>2. ASSUME NEW p \in Processes,
             \/ \E job \in Jobs, build \in Builds, setting \in Settings :
                   Begin(p, job, build, setting)
             \/ Starts(p) \/ Restart(p)
      PROVE  FormNamed'
  <2>1. CASE Starts(p)
    <3>1. CASE Look(p) \/ Truncate(p) \/ Fill(p) \/ Read(p) \/ Bind(p) \/ ReadApplied(p)
               \/ MigrateUp(p) \/ MigratedUp(p) \/ MigrateDown(p)
      BY <1>1, <3>1 DEF Look, Truncate, Fill, Read, Bind, ReadApplied, MigrateUp, MigratedUp,
                        MigrateDown
    <3>2. CASE Check(p) \/ Mint(p) \/ TokenTruncate(p) \/ TokenFill(p)
               \/ Organizations(p) \/ Identity(p) \/ IdentityInsert(p)
      BY <1>1, <3>2 DEF Check, Mint, TokenTruncate, TokenFill, Organizations, Identity,
                        IdentityInsert
    <3> QED BY <2>1, <3>1, <3>2 DEF Starts
  <2>2. CASE ~Starts(p)
    BY <1>1, <1>2, <2>2 DEF Begin, Restart
  <2> QED BY <2>1, <2>2
<1>3. ASSUME NEW p \in Processes, Crash(p) PROVE FormNamed'
  <2>1. \A c \in Claims : claim'[c] = IF claim[c].at = p THEN NoClaim ELSE claim[c]
    BY <1>3 DEF Crash, EndOf
  <2>2. NoClaim.pc = "idle"
    BY DEF NoClaim
  <2> QED BY <2>1, <2>2 DEF FormNamed
<1>4. ASSUME NEW c \in Claims, NEW p \in Processes, NEW f \in Forms, ClaimMatch(c, p, f)
      PROVE  FormNamed'
  BY <1>4 DEF ClaimMatch, ClaimInv, ClaimsTyped, FormNamed
<1>5. CASE (\E n \in Names : RemoveSecret(n)) \/ UNCHANGED vars
  BY <1>1, <1>5 DEF RemoveSecret, vars
<1> QED BY <1>2, <1>3, <1>4, <1>5, ClaimStepNames DEF Next

LEMMA NextFlags ==
    ASSUME FlagsTyped, [Next]_vars PROVE FlagsTyped'
<1>1. ASSUME Trouble PROVE trouble' \in 0..MaxTrouble
  BY <1>1 DEF Trouble, FlagsTyped
<1>2. ASSUME UNCHANGED <<spent, trouble, crossed, slipped>> PROVE FlagsTyped'
  BY <1>2 DEF FlagsTyped
<1>3. ASSUME NEW p \in Processes, Starts(p) PROVE FlagsTyped'
  <2>1. CASE Look(p) \/ Truncate(p) \/ Fill(p) \/ Read(p) \/ Bind(p) \/ ReadApplied(p)
             \/ MigrateUp(p) \/ MigratedUp(p) \/ MigrateDown(p)
    BY <1>2, <2>1 DEF Look, Truncate, Fill, Read, Bind, ReadApplied, MigrateUp, MigratedUp,
                      MigrateDown, Token, History
  <2>2. CASE Check(p) \/ Mint(p) \/ TokenTruncate(p) \/ TokenFill(p)
             \/ Organizations(p) \/ Identity(p) \/ IdentityInsert(p)
    BY <1>2, <2>2 DEF Check, Mint, TokenTruncate, TokenFill, Organizations, Identity,
                      IdentityInsert, Token, History
  <2> QED BY <1>3, <2>1, <2>2 DEF Starts
<1>4. ASSUME NEW p \in Processes, NEW job \in Jobs, NEW build \in Builds, NEW setting \in Settings,
             Begin(p, job, build, setting)
      PROVE  FlagsTyped'
  <2>1. trouble' \in 0..MaxTrouble
    BY <1>1, <1>4 DEF Begin, FlagsTyped
  <2>2. crossed' \in BOOLEAN
    BY <1>4, Zenon DEF Begin, FlagsTyped
  <2>3. UNCHANGED <<spent, slipped>>
    BY <1>4 DEF Begin, Token
  <2> QED BY <2>1, <2>2, <2>3 DEF FlagsTyped
<1>5. ASSUME NEW p \in Processes, Restart(p) \/ Crash(p) PROVE FlagsTyped'
  <2>1. CASE Restart(p)
    BY <1>2, <2>1 DEF Restart, Token, History
  <2>2. CASE Crash(p)
    <3>1. trouble' \in 0..MaxTrouble /\ UNCHANGED <<spent, crossed>>
      BY <1>1, <2>2 DEF Crash, Token
    <3>2. slipped' \in BOOLEAN
      BY <2>2, Zenon DEF Crash, FlagsTyped
    <3> QED BY <3>1, <3>2 DEF FlagsTyped
  <2> QED BY <1>5, <2>1, <2>2
<1>6. ASSUME NEW c \in Claims, NEW p \in Processes, NEW f \in Forms, ClaimMatch(c, p, f)
      PROVE  FlagsTyped'
  <2>1. UNCHANGED <<spent, trouble, crossed>>
    BY <1>6 DEF ClaimMatch, Token
  <2>2. slipped' \in BOOLEAN
    BY <1>6, Zenon DEF ClaimMatch, FlagsTyped
  <2> QED BY <2>1, <2>2 DEF FlagsTyped
<1>7. ASSUME NEW c \in Claims, ClaimStep(c) PROVE FlagsTyped'
  BY <1>7 DEF ClaimStep, ClaimCreate, ClaimMarker, ClaimUnlink, ClaimAudit, Token, History,
              FlagsTyped
<1>8. ASSUME NEW c \in Claims, ClaimFails(c) PROVE FlagsTyped'
  BY <1>1, <1>8 DEF ClaimFails, Token, FlagsTyped
<1>9. ASSUME NEW n \in Names, RemoveSecret(n) PROVE FlagsTyped'
  <2>1. UNCHANGED <<spent, trouble, slipped>>
    BY <1>9 DEF RemoveSecret, Token
  <2>2. crossed' \in BOOLEAN
    BY <1>9, Zenon DEF RemoveSecret, FlagsTyped
  <2> QED BY <2>1, <2>2 DEF FlagsTyped
<1>10. CASE UNCHANGED vars
  BY <1>2, <1>10 DEF vars
<1> QED BY <1>3, <1>4, <1>5, <1>6, <1>7, <1>8, <1>9, <1>10 DEF Next

LEMMA NextHost ==
    ASSUME HostTyped, ClaimInv, FormNamed, [Next]_vars PROVE HostTyped'
<1>1. ASSUME NEW p \in Processes, Starts(p) PROVE HostTyped'
  BY <1>1, SecretSteps, LaterSteps DEF Starts
<1>2. ASSUME NEW c \in Claims, NEW p \in Processes, NEW f \in Forms, ClaimMatch(c, p, f)
      PROVE  HostTyped'
  BY <1>2 DEF ClaimMatch, Token, Database, HostTyped, Typed, AtSecret
<1>3. ASSUME NEW n \in Names, RemoveSecret(n) PROVE HostTyped'
  <2>1. file' \in [Names -> Contents]
    BY <1>3 DEF RemoveSecret, HostTyped, Contents
  <2> QED BY <1>3, <2>1 DEF RemoveSecret, Token, Database, HostTyped, Typed, AtSecret
<1>4. CASE UNCHANGED vars
  BY <1>4 DEF vars, HostTyped, Typed, AtSecret
<1> QED BY <1>1, <1>2, <1>3, <1>4, HostSteps, ClaimSteps DEF Next

LEMMA InitTypeInv == Init => TypeInv
<1> SUFFICES ASSUME Init PROVE TypeInv
  OBVIOUS
<1>1. \A p \in Processes : process[p] = Idle
  BY DEF Init
<1>2. Typed /\ \A p \in Processes : AtSecret(p)
  BY <1>1, IdleFields, IdleIsPlaced DEF Init, Typed, AtSecret
<1>3. file \in [Names -> Contents] /\ applied \in [Migrations -> Nat]
  BY DEF Init, Contents
<1>4. HostTyped
  BY <1>2, <1>3 DEF Init, HostTyped
<1>5. FormNamed
  <2>1. \A c \in Claims : claim[c].pc = "idle"
    BY DEF Init, NoClaim
  <2> QED BY <2>1 DEF FormNamed
<1>6. FlagsTyped
  <2>1. 0 \in 0..MaxTrouble
    OBVIOUS
  <2> QED BY <2>1, Zenon DEF Init, FlagsTyped
<1> QED BY <1>4, <1>5, <1>6, InitClaimInv DEF TypeInv

LEMMA NextTypeInv == TypeInv /\ [Next]_vars => TypeInv'
  BY NextClaimInv, NextHost, NextNames, NextFlags DEF TypeInv

(* Files, token, migrations, organizations, processes and claims keep       *)
(* their types; a process at the secrets is at one of them.                *)
THEOREM TypeCorrect == Spec => []TypeOK
<1>1. TypeInv => TypeOK
  BY DEF TypeInv, ClaimInv, ClaimsTyped, HostTyped, Typed, AtSecret, FlagsTyped, TypeOK
<1> QED BY <1>1, InitTypeInv, NextTypeInv, PTL DEF Spec

-----------------------------------------------------------------------------
(* What each job reaches *)

Started == {"check", "mint", "tokenTruncate", "tokenFill", "orgs", "identity",
            "identityInsert", "serving"}

JobAt(p) ==
    /\ process[p].pc \in SecretPCs \cup {"bind"} => process[p].job \in {"serve", "preflight"}
    /\ process[p].pc = "applied" => process[p].job # "preflight"
    /\ process[p].pc = "up" => process[p].job \in {"serve", "up"}
    /\ process[p].pc \in Started => process[p].job = "serve"

JobsInPlace == \A p \in Processes : JobAt(p)

LEMMA JobMoves ==
    ASSUME JobsInPlace, NEW p \in Processes, Rest(p), JobAt(p)'
    PROVE  JobsInPlace'
<1>1. ASSUME NEW q \in Processes \ {p} PROVE JobAt(q)'
  <2>1. process'[q] = process[q] /\ JobAt(q)
    BY DEF Rest, JobsInPlace
  <2> QED BY <2>1 DEF JobAt
<1> QED BY <1>1 DEF JobsInPlace

LEMMA JobExits ==
    ASSUME HostTyped, JobsInPlace, NEW p \in Processes, Exit(p) PROVE JobsInPlace'
<1>1. Rest(p) /\ process'[p].pc = "idle"
  BY ExitEffect, IdleFields DEF HostTyped
<1> QED BY <1>1, JobMoves DEF JobAt, Started, SecretPCs

LEMMA JobGoes ==
    ASSUME HostTyped, JobsInPlace, NEW p \in Processes, NEW pc \in PCs, Goto(p, pc),
           \/ pc \in SecretPCs \cup {"bind"} /\ process[p].pc \in SecretPCs
           \/ pc \in Started /\ process[p].pc \in Started
           \/ pc = "applied" /\ process[p].job # "preflight"
    PROVE  JobsInPlace'
<1>1. Rest(p) /\ process'[p].pc = pc /\ process'[p].job = process[p].job
  BY GotoEffect DEF HostTyped, Alike
<1> QED BY <1>1, JobMoves DEF JobsInPlace, JobAt, Started, SecretPCs

LEMMA StartsInPlace ==
    ASSUME HostTyped, JobsInPlace, NEW p \in Processes, Starts(p) PROVE JobsInPlace'
<1>1. JobAt(p) /\ Typed /\ AtSecret(p) /\ file \in [Names -> Contents] /\ orgs \subseteq Forms
      /\ applied \in [Migrations -> Nat] /\ process[p].job \in Jobs
  BY FieldsOf DEF JobsInPlace, HostTyped, Typed
<1>2. CASE Look(p)
  BY <1>2, JobGoes DEF Look, At, PCs, SecretPCs
<1>3. CASE Truncate(p)
  BY <1>3, JobGoes DEF Truncate, At, PCs, SecretPCs
<1>4. CASE Fill(p)
  BY <1>4, JobGoes DEF Fill, At, PCs, SecretPCs
<1>5. CASE Read(p)
  <2>1. process[p].pc = "read" /\ process[p].next <= Len(Secrets)
    BY <1>1, <1>5 DEF Read, At, AtSecret, SecretPCs
  <2>2. /\ Rest(p)
        /\ \/ process'[p] = Idle
           \/ process'[p].pc \in {"look", "bind"} /\ process'[p].job = process[p].job
    BY <1>1, <1>5, <2>1, ReadEffect
  <2>3. JobAt(p)'
    BY <1>1, <2>1, <2>2, IdleFields DEF JobAt, SecretPCs, Started
  <2> QED BY <2>2, <2>3, JobMoves
<1>6. CASE Bind(p)
  <2>1. Exit(p) \/ (Goto(p, "applied") /\ process[p].job # "preflight")
    BY <1>6 DEF Bind
  <2> QED BY <2>1, JobExits, JobGoes DEF PCs
<1>7. CASE ReadApplied(p)
  <2>1. /\ Rest(p) /\ process'[p].job = process[p].job
        /\ process'[p].pc = (IF process[p].job = "down" THEN "down" ELSE "up")
    BY <1>1, <1>7, ReadAppliedEffect
  <2>2. JobAt(p)'
    BY <1>1, <1>7, <2>1 DEF ReadApplied, At, JobAt, SecretPCs, Started, Jobs
  <2> QED BY <2>1, <2>2, JobMoves
<1>8. CASE MigrateUp(p)
  <2> DEFINE m == process[p].next
  <2>1. Exit(p) \/ (m \in Migrations /\ Become(p, [process[p] EXCEPT !.next = m + 1]))
    BY <1>8 DEF MigrateUp
  <2>2. ASSUME m \in Migrations, Become(p, [process[p] EXCEPT !.next = m + 1])
        PROVE  JobsInPlace'
    <3>1. Rest(p) /\ process'[p].pc = process[p].pc /\ process'[p].job = process[p].job
      BY <1>1, <2>2, RoundEffect
    <3> QED BY <1>1, <3>1, JobMoves DEF JobAt
  <2> QED BY <2>1, <2>2, JobExits
<1>9. CASE MigratedUp(p)
  <2>1. /\ Rest(p)
        /\ \/ process'[p] = Idle
           \/ process'[p].pc = "check" /\ process[p].job # "up"
              /\ process'[p].job = process[p].job
    BY <1>1, <1>9, MigratedUpEffect
  <2>2. JobAt(p)'
    BY <1>1, <1>9, <2>1, IdleFields DEF MigratedUp, At, JobAt, SecretPCs, Started
  <2> QED BY <2>1, <2>2, JobMoves
<1>10. CASE MigrateDown(p)
  <2>1. /\ process'[p] = Idle
        /\ \A q \in Processes \ {p} : process'[q].pc = process[q].pc /\ process'[q].job = process[q].job
    BY <1>1, <1>10, MigrateDownEffect
  <2> QED BY <2>1, IdleFields DEF JobsInPlace, JobAt, SecretPCs, Started
<1>11. CASE Check(p)
  <2>1. /\ Rest(p)
        /\ \/ process'[p] = Idle
           \/ process'[p].pc = "mint" /\ process'[p].job = process[p].job
    BY <1>1, <1>11, CheckEffect
  <2>2. JobAt(p)'
    BY <1>1, <1>11, <2>1, IdleFields DEF Check, At, JobAt, SecretPCs, Started
  <2> QED BY <2>1, <2>2, JobMoves
<1>12. CASE Mint(p)
  BY <1>12, JobGoes DEF Mint, At, PCs, Started
<1>13. CASE TokenTruncate(p) \/ TokenFill(p)
  BY <1>13, JobGoes DEF TokenTruncate, TokenFill, At, PCs, Started
<1>14. CASE Organizations(p)
  <2>1. /\ Rest(p)
        /\ \/ process'[p] = Idle
           \/ process'[p].pc \in {"serving", "identity"} /\ process'[p].job = process[p].job
    BY <1>1, <1>14, OrganizationsEffect DEF Alike
  <2>2. JobAt(p)'
    BY <1>1, <1>14, <2>1, IdleFields DEF Organizations, At, JobAt, SecretPCs, Started
  <2> QED BY <2>1, <2>2, JobMoves
<1>15. CASE Identity(p)
  BY <1>15, JobGoes DEF Identity, At, PCs, Started
<1>16. CASE IdentityInsert(p)
  BY <1>16, JobGoes, JobExits DEF IdentityInsert, At, PCs, Started
<1> QED BY <1>2, <1>3, <1>4, <1>5, <1>6, <1>7, <1>8, <1>9, <1>10, <1>11, <1>12, <1>13, <1>14,
           <1>15, <1>16 DEF Starts

LEMMA NextInPlace ==
    ASSUME HostTyped, JobsInPlace, [Next]_vars PROVE JobsInPlace'
<1>1. ASSUME NEW p \in Processes, NEW job \in Jobs, NEW build \in Builds, NEW setting \in Settings,
             Begin(p, job, build, setting)
      PROVE  JobsInPlace'
  <2>1. /\ Rest(p) /\ process'[p].job = job
        /\ process'[p].pc = (IF job \in {"serve", "preflight"} THEN "look" ELSE "applied")
    BY <1>1, BeginEffect DEF HostTyped
  <2>2. JobAt(p)'
    BY <2>1 DEF JobAt, SecretPCs, Started
  <2> QED BY <2>1, <2>2, JobMoves
<1>2. ASSUME NEW p \in Processes, Restart(p) \/ Crash(p) PROVE JobsInPlace'
  BY <1>2, JobExits DEF Restart, Crash
<1>3. ASSUME UNCHANGED process PROVE JobsInPlace'
  BY <1>3 DEF JobsInPlace, JobAt
<1>4. ASSUME NEW c \in Claims,
             \/ \E p \in Processes, f \in Forms : ClaimMatch(c, p, f)
             \/ ClaimStep(c) \/ ClaimFails(c)
      PROVE  UNCHANGED process
  BY <1>4 DEF ClaimMatch, ClaimStep, ClaimCreate, ClaimMarker, ClaimUnlink, ClaimAudit, ClaimFails
<1>5. CASE (\E n \in Names : RemoveSecret(n)) \/ UNCHANGED vars
  BY <1>3, <1>5 DEF RemoveSecret, vars
<1> QED BY <1>1, <1>2, <1>3, <1>4, <1>5, StartsInPlace DEF Next

-----------------------------------------------------------------------------
(* The secrets *)

Loaded(p) ==
    process[p].pc \notin SecretPCs \cup {"idle"} /\ process[p].job \in {"serve", "preflight"}

(* Whoever is past the secrets holds the files, which are whole; whoever is *)
(* at them, and will not be refused, holds those before the one it is at;   *)
(* and what it found of that one is still so.                              *)
Owned(p, n) == process[p].holds[n] = file[n] /\ file[n] \in Processes
Holds(p) == Loaded(p) => \A n \in Names : Owned(p, n)
SoFar(p) ==
    process[p].pc \in SecretPCs /\ ~process[p].refused =>
        \A i \in 1..Len(Secrets) : i < process[p].next => Owned(p, Secrets[i])
Finds(p) ==
    /\ process[p].pc = "truncate" => file[Secret(p)] = Absent
    /\ process[p].pc = "fill" => file[Secret(p)] = Torn
    /\ process[p].pc = "read" => file[Secret(p)] # Absent

Alone ==
    \A p, q \in Processes : process[p].pc \in SecretPCs /\ process[q].pc \in SecretPCs => p = q

KeysInHand == Alone /\ \A p \in Processes : Holds(p) /\ SoFar(p) /\ Finds(p)
KeysInv == ~crossed => KeysInHand

(* Nobody moves at the secrets, and whoever comes past them held them.     *)
LEMMA KeysKept ==
    ASSUME KeysInHand, UNCHANGED file, NEW p \in Processes, Rest(p),
           process'[p].pc \notin SecretPCs,
           Loaded(p)' => Loaded(p) /\ process'[p].holds = process[p].holds
    PROVE  KeysInHand'
<1>1. ASSUME NEW q \in Processes \ {p} PROVE Holds(q)' /\ SoFar(q)' /\ Finds(q)'
  <2>1. process'[q] = process[q] /\ Holds(q) /\ SoFar(q) /\ Finds(q)
    BY DEF Rest, KeysInHand
  <2> QED BY <2>1 DEF Holds, Loaded, SoFar, Finds, Owned, Secret
<1>2. Holds(p)'
  BY DEF KeysInHand, Holds, Owned
<1>3. SoFar(p)' /\ Finds(p)'
  BY DEF SoFar, Finds, SecretPCs
<1>4. Alone'
  BY DEF KeysInHand, Alone, Rest
<1> QED BY <1>1, <1>2, <1>3, <1>4 DEF KeysInHand

LEMMA KeysExit ==
    ASSUME HostTyped, KeysInHand, UNCHANGED file, NEW p \in Processes, Exit(p)
    PROVE  KeysInHand'
<1>1. Rest(p) /\ process'[p].pc = "idle"
  BY ExitEffect, IdleFields DEF HostTyped
<1> QED BY <1>1, KeysKept DEF Loaded, SecretPCs

LEMMA KeysGo ==
    ASSUME HostTyped, KeysInHand, UNCHANGED file, NEW p \in Processes, NEW pc \in PCs \ SecretPCs,
           Goto(p, pc), process[p].pc \notin SecretPCs \cup {"idle"}
    PROVE  KeysInHand'
<1>1. Rest(p) /\ process'[p].pc = pc /\ Alike(process'[p], process[p])
  BY GotoEffect DEF HostTyped
<1> QED BY <1>1, KeysKept DEF Loaded, Alike

(* A process that is alone at the secrets moves on among them; the files    *)
(* but the one it is at stay.                                              *)
LEMMA OthersWhileLoading ==
    ASSUME KeysInHand, NEW p \in Processes, process[p].pc \in SecretPCs, Rest(p), UNCHANGED file
    PROVE  \A q \in Processes \ {p} : Holds(q)' /\ SoFar(q)' /\ Finds(q)'
<1> SUFFICES ASSUME NEW q \in Processes \ {p} PROVE Holds(q)' /\ SoFar(q)' /\ Finds(q)'
  OBVIOUS
<1>1. process'[q] = process[q] /\ Holds(q) /\ SoFar(q) /\ Finds(q)
  BY DEF Rest, KeysInHand
<1> QED BY <1>1 DEF Holds, Loaded, SoFar, Finds, Owned, Secret

LEMMA KeysLook ==
    ASSUME HostTyped, KeysInHand, NEW p \in Processes, Look(p) PROVE KeysInHand'
<1> DEFINE pc == IF file[Secret(p)] = Absent THEN "truncate" ELSE "read"
<1>1. process[p].pc = "look" /\ Goto(p, pc) /\ UNCHANGED file /\ pc \in PCs /\ pc \in SecretPCs
  BY DEF Look, At, PCs, SecretPCs
<1> HIDE DEF pc
<1>2. Rest(p) /\ process'[p].pc = pc /\ Alike(process'[p], process[p])
  BY <1>1, GotoEffect DEF HostTyped
<1>3. \A q \in Processes \ {p} : Holds(q)' /\ SoFar(q)' /\ Finds(q)'
  BY <1>1, <1>2, OthersWhileLoading DEF SecretPCs
<1>4. SoFar(p)
  BY DEF KeysInHand
<1>5. Holds(p)' /\ SoFar(p)'
  BY <1>1, <1>2, <1>4 DEF Holds, Loaded, SoFar, Owned, Alike, SecretPCs
<1>6. Finds(p)'
  BY <1>1, <1>2 DEF Finds, Secret, Alike, pc
<1>7. Alone'
  BY <1>1, <1>2 DEF KeysInHand, Alone, Rest, SecretPCs
<1> QED BY <1>3, <1>5, <1>6, <1>7 DEF KeysInHand

(* Nobody is past the secrets while one of them is missing or torn.        *)
LEMMA NobodyLoaded ==
    ASSUME KeysInHand, NEW n \in Names, file[n] \in {Absent, Torn}
    PROVE  \A q \in Processes : ~Loaded(q)
  BY DEF KeysInHand, Holds, Owned

LEMMA KeysWrite ==
    ASSUME HostTyped, KeysInHand, NEW p \in Processes, NEW pc \in SecretPCs, NEW content \in Contents,
           process[p].pc \in {"truncate", "fill"}, Goto(p, pc),
           file' = [file EXCEPT ![Secret(p)] = content],
           (pc = "fill" /\ content = Torn) \/ (pc = "read" /\ content = p)
    PROVE  KeysInHand'
<1>1. /\ process[p].pc \in SecretPCs /\ pc \in PCs /\ process[p].next <= Len(Secrets)
      /\ process[p] \in Process /\ Typed /\ file \in [Names -> Contents]
  BY DEF PCs, SecretPCs, HostTyped, AtSecret, Typed
<1>2. Rest(p) /\ process'[p].pc = pc /\ Alike(process'[p], process[p])
  BY <1>1, GotoEffect
<1>3. process[p].next \in 1..Len(Secrets) /\ Secret(p) \in Names
  <2>1. process[p].next \in 1..Len(Secrets)
    BY <1>1, FieldsOf, Positions
  <2> QED BY <2>1, Positions DEF Secret
<1>4. file[Secret(p)] \in {Absent, Torn}
  BY DEF KeysInHand, Finds
<1>5. Secret(p)' = Secret(p) /\ file'[Secret(p)] = content
  BY <1>1, <1>2, <1>3 DEF Secret, Alike
<1>6. \A n \in Names : file[n] \in Processes => file'[n] = file[n]
  BY <1>1, <1>4
<1>7. Alone'
  BY <1>1, <1>2 DEF KeysInHand, Alone, Rest
<1>8. ASSUME NEW q \in Processes \ {p} PROVE Holds(q)' /\ SoFar(q)' /\ Finds(q)'
  <2>1. process'[q] = process[q] /\ process[q].pc \notin SecretPCs
    BY <1>1, <1>2 DEF Rest, KeysInHand, Alone
  <2>2. ~Loaded(q)
    BY <1>3, <1>4, NobodyLoaded
  <2> QED BY <2>1, <2>2 DEF Holds, Loaded, SoFar, Finds, SecretPCs
<1>9. Holds(p)'
  BY <1>2 DEF Holds, Loaded
<1>10. SoFar(p)'
  <2>1. SUFFICES ASSUME ~process[p].refused, NEW i \in 1..Len(Secrets), i < process[p].next
                 PROVE  Owned(p, Secrets[i])'
    BY <1>2 DEF SoFar, Alike
  <2>2. Owned(p, Secrets[i]) /\ Secrets[i] \in Names
    BY <1>1, <2>1, Positions DEF KeysInHand, SoFar
  <2> QED BY <1>2, <1>6, <2>2 DEF Owned, Alike
<1>11. Finds(p)'
  BY <1>2, <1>5 DEF Finds
<1> QED BY <1>7, <1>8, <1>9, <1>10, <1>11 DEF KeysInHand

LEMMA KeysRead ==
    ASSUME HostTyped, JobsInPlace, KeysInHand, NEW p \in Processes, Read(p) PROVE KeysInHand'
<1>1. /\ process[p].pc = "read" /\ process[p].pc \in SecretPCs /\ UNCHANGED file
      /\ process[p].next <= Len(Secrets) /\ process[p] \in Process /\ Typed
      /\ file \in [Names -> Contents]
  BY DEF Read, At, SecretPCs, HostTyped, AtSecret, Typed
<1>2. /\ process[p].next \in 1..Len(Secrets) /\ Secret(p) \in Names
      /\ process[p].holds \in [Names -> Contents]
  <2>1. process[p].next \in 1..Len(Secrets)
    BY <1>1, FieldsOf, Positions
  <2> QED BY <1>1, <2>1, FieldsOf, Positions DEF Secret
<1>3. /\ Rest(p)
      /\ \/ process'[p] = Idle
         \/ /\ process'[p].job = process[p].job
            /\ process'[p].refused = (process[p].refused \/ Weak(file[Secret(p)]))
            /\ process'[p].holds = [process[p].holds EXCEPT ![Secret(p)] = file[Secret(p)]]
            /\ \/ /\ process[p].next < Len(Secrets)
                  /\ process'[p].pc = "look" /\ process'[p].next = process[p].next + 1
               \/ /\ process[p].next = Len(Secrets) /\ ~process'[p].refused
                  /\ process'[p].pc = "bind" /\ process'[p].next = 1
  BY <1>1, ReadEffect
<1>4. CASE process'[p] = Idle
  BY <1>1, <1>3, <1>4, KeysKept, IdleFields DEF Loaded, SecretPCs
<1>5. CASE process'[p] # Idle
  <2>1. \A q \in Processes \ {p} : Holds(q)' /\ SoFar(q)' /\ Finds(q)'
    BY <1>1, <1>3, OthersWhileLoading
  <2>2. ASSUME ~process'[p].refused
        PROVE  \A i \in 1..Len(Secrets) : i <= process[p].next => Owned(p, Secrets[i])'
    <3>1. ~process[p].refused /\ file[Secret(p)] # Torn
      BY <1>3, <1>5, <2>2 DEF Weak
    <3>2. file[Secret(p)] \in Processes
      BY <1>1, <1>2, <3>1 DEF KeysInHand, Finds, Contents
    <3>3. SUFFICES ASSUME NEW i \in 1..Len(Secrets), i <= process[p].next
                   PROVE  Owned(p, Secrets[i])'
      OBVIOUS
    <3>4. Secrets[i] \in Names
      BY Positions
    <3>5. CASE Secrets[i] = Secret(p)
      BY <1>1, <1>2, <1>3, <1>5, <3>2, <3>5 DEF Owned
    <3>6. CASE Secrets[i] # Secret(p)
      <4>1. i < process[p].next
        BY <1>2, <3>3, <3>6 DEF Secret
      <4>2. Owned(p, Secrets[i])
        BY <1>1, <3>1, <4>1 DEF KeysInHand, SoFar
      <4> QED BY <1>1, <1>2, <1>3, <1>5, <3>4, <3>6, <4>2 DEF Owned
    <3> QED BY <3>5, <3>6
  <2>3. CASE process[p].next < Len(Secrets) /\ process'[p].pc = "look"
             /\ process'[p].next = process[p].next + 1
    <3>1. SoFar(p)'
      BY <1>2, <2>2, <2>3 DEF SoFar
    <3>2. Holds(p)' /\ Finds(p)'
      BY <2>3 DEF Holds, Loaded, Finds, SecretPCs
    <3>3. Alone'
      BY <1>1, <1>3, <2>3 DEF KeysInHand, Alone, Rest, SecretPCs
    <3> QED BY <2>1, <3>1, <3>2, <3>3 DEF KeysInHand
  <2>4. CASE process[p].next = Len(Secrets) /\ ~process'[p].refused /\ process'[p].pc = "bind"
    <3>1. \A i \in 1..Len(Secrets) : Owned(p, Secrets[i])'
      BY <2>2, <2>4
    <3>2. Holds(p)'
      BY <3>1 DEF Holds, Names
    <3>3. SoFar(p)' /\ Finds(p)'
      BY <2>4 DEF SoFar, Finds, SecretPCs
    <3>4. Alone'
      BY <1>1, <1>3, <2>4 DEF KeysInHand, Alone, Rest, SecretPCs
    <3> QED BY <2>1, <3>2, <3>3, <3>4 DEF KeysInHand
  <2> QED BY <1>3, <1>5, <2>3, <2>4
<1> QED BY <1>4, <1>5

LEMMA StartsKeepKeys ==
    ASSUME HostTyped, JobsInPlace, KeysInHand, NEW p \in Processes, Starts(p) PROVE KeysInHand'
<1>1. Typed /\ applied \in [Migrations -> Nat] /\ orgs \subseteq Forms
  BY DEF HostTyped
<1>2. CASE Look(p) \/ Truncate(p) \/ Fill(p) \/ Read(p)
  <2>1. CASE Truncate(p)
    <3>1. "fill" \in SecretPCs /\ Torn \in Contents
      BY DEF SecretPCs, Contents
    <3>2. /\ process[p].pc \in {"truncate", "fill"} /\ Goto(p, "fill")
          /\ file' = [file EXCEPT ![Secret(p)] = Torn]
      BY <2>1 DEF Truncate, At
    <3> QED BY <3>1, <3>2, KeysWrite
  <2>2. CASE Fill(p)
    <3>1. "read" \in SecretPCs /\ p \in Contents
      BY DEF SecretPCs, Contents
    <3>2. /\ process[p].pc \in {"truncate", "fill"} /\ Goto(p, "read")
          /\ file' = [file EXCEPT ![Secret(p)] = p]
      BY <2>2 DEF Fill, At
    <3> QED BY <3>1, <3>2, KeysWrite
  <2> QED BY <1>2, <2>1, <2>2, KeysLook, KeysRead
<1>3. CASE Bind(p)
  <2>1. UNCHANGED file /\ process[p].pc \notin SecretPCs \cup {"idle"}
    BY <1>3 DEF Bind, At, SecretPCs
  <2>2. Exit(p) \/ Goto(p, "applied")
    BY <1>3 DEF Bind
  <2>3. "applied" \in PCs \ SecretPCs
    BY DEF PCs, SecretPCs
  <2> QED BY <2>1, <2>2, <2>3, KeysExit, KeysGo
<1>4. CASE ReadApplied(p)
  <2>1. /\ Rest(p) /\ process'[p].pc \in {"down", "up"}
        /\ process'[p].job = process[p].job /\ process'[p].holds = process[p].holds
    BY <1>1, <1>4, ReadAppliedEffect
  <2>2. UNCHANGED file /\ process[p].pc = "applied"
    BY <1>4 DEF ReadApplied, At
  <2> QED BY <2>1, <2>2, KeysKept DEF Loaded, SecretPCs
<1>5. CASE MigrateUp(p)
  <2> DEFINE m == process[p].next
  <2>1. UNCHANGED file /\ process[p].pc = "up" /\ m \in Migrations
    BY <1>5 DEF MigrateUp, At
  <2>2. Exit(p) \/ Become(p, [process[p] EXCEPT !.next = m + 1])
    BY <1>5 DEF MigrateUp
  <2>3. ASSUME Become(p, [process[p] EXCEPT !.next = m + 1]) PROVE KeysInHand'
    <3>1. /\ Rest(p) /\ process'[p].pc = process[p].pc /\ process'[p].job = process[p].job
          /\ process'[p].holds = process[p].holds
      BY <1>1, <2>1, <2>3, RoundEffect
    <3> QED BY <2>1, <3>1, KeysKept DEF Loaded, SecretPCs
  <2> QED BY <2>1, <2>2, <2>3, KeysExit
<1>6. CASE MigratedUp(p)
  <2>1. /\ Rest(p)
        /\ \/ process'[p] = Idle
           \/ process'[p].pc = "check" /\ process'[p].job = process[p].job
              /\ process'[p].holds = process[p].holds
    BY <1>1, <1>6, MigratedUpEffect
  <2>2. UNCHANGED file /\ process[p].pc = "up"
    BY <1>6 DEF MigratedUp, At
  <2> QED BY <2>1, <2>2, IdleFields, KeysKept DEF Loaded, SecretPCs
<1>7. CASE MigrateDown(p)
  <2>1. /\ process'[p].pc = "idle" /\ UNCHANGED file
        /\ \A q \in Processes \ {p} :
              /\ process'[q].pc = process[q].pc /\ process'[q].job = process[q].job
              /\ process'[q].next = process[q].next /\ process'[q].refused = process[q].refused
              /\ process'[q].holds = process[q].holds
    BY <1>1, <1>7, MigrateDownEffect, IdleFields DEF MigrateDown
  <2>2. Alone'
    BY <2>1 DEF KeysInHand, Alone, SecretPCs
  <2>3. ASSUME NEW q \in Processes \ {p} PROVE Holds(q)' /\ SoFar(q)' /\ Finds(q)'
    <3>1. Holds(q) /\ SoFar(q) /\ Finds(q)
      BY DEF KeysInHand
    <3> QED BY <2>1, <3>1 DEF Holds, Loaded, SoFar, Finds, Owned, Secret
  <2>4. Holds(p)' /\ SoFar(p)' /\ Finds(p)'
    BY <2>1 DEF Holds, Loaded, SoFar, Finds, SecretPCs
  <2> QED BY <2>2, <2>3, <2>4 DEF KeysInHand
<1>8. CASE Check(p)
  <2>1. /\ Rest(p)
        /\ \/ process'[p] = Idle
           \/ process'[p].pc = "mint" /\ process'[p].job = process[p].job
              /\ process'[p].holds = process[p].holds
    BY <1>1, <1>8, CheckEffect
  <2>2. UNCHANGED file /\ process[p].pc = "check"
    BY <1>8 DEF Check, At
  <2> QED BY <2>1, <2>2, IdleFields, KeysKept DEF Loaded, SecretPCs
<1>9. CASE Mint(p) \/ TokenTruncate(p) \/ TokenFill(p) \/ Identity(p) \/ IdentityInsert(p)
  <2>1. UNCHANGED file /\ process[p].pc \notin SecretPCs \cup {"idle"}
    BY <1>9 DEF Mint, TokenTruncate, TokenFill, Identity, IdentityInsert, At, SecretPCs
  <2>2. Exit(p) \/ \E pc \in {"orgs", "tokenTruncate", "tokenFill", "serving", "identityInsert"} :
                      Goto(p, pc)
    BY <1>9 DEF Mint, TokenTruncate, TokenFill, Identity, IdentityInsert
  <2>3. {"orgs", "tokenTruncate", "tokenFill", "serving", "identityInsert"} \subseteq PCs \ SecretPCs
    BY DEF PCs, SecretPCs
  <2> QED BY <2>1, <2>2, <2>3, KeysExit, KeysGo
<1>10. CASE Organizations(p)
  <2>1. /\ Rest(p)
        /\ \/ process'[p] = Idle
           \/ process'[p].pc \in {"serving", "identity"} /\ process'[p].job = process[p].job
              /\ process'[p].holds = process[p].holds
    BY <1>1, <1>10, OrganizationsEffect DEF Alike
  <2>2. UNCHANGED file /\ process[p].pc = "orgs"
    BY <1>10 DEF Organizations, At
  <2> QED BY <2>1, <2>2, IdleFields, KeysKept DEF Loaded, SecretPCs
<1> QED BY <1>2, <1>3, <1>4, <1>5, <1>6, <1>7, <1>8, <1>9, <1>10 DEF Starts

LEMMA BeginKeepsKeys ==
    ASSUME HostTyped, KeysInHand, NEW p \in Processes, NEW job \in Jobs, NEW build \in Builds,
           NEW setting \in Settings, Begin(p, job, build, setting), ~crossed'
    PROVE  KeysInHand'
<1>1. /\ Rest(p) /\ process'[p].job = job /\ process'[p].next = 1
      /\ process'[p].pc = (IF job \in {"serve", "preflight"} THEN "look" ELSE "applied")
  BY BeginEffect DEF HostTyped
<1>2. UNCHANGED file
  BY DEF Begin
<1>3. CASE job \in {"serve", "preflight"}
  <2>1. \A q \in Processes \ {p} : process[q].pc \notin SecretPCs
    BY <1>3 DEF Begin
  <2>2. Alone'
    BY <1>1, <2>1 DEF Alone, Rest
  <2>3. ASSUME NEW q \in Processes \ {p} PROVE Holds(q)' /\ SoFar(q)' /\ Finds(q)'
    <3>1. process'[q] = process[q] /\ Holds(q) /\ SoFar(q) /\ Finds(q)
      BY <1>1 DEF Rest, KeysInHand
    <3> QED BY <1>2, <3>1 DEF Holds, Loaded, SoFar, Finds, Owned, Secret
  <2>4. Holds(p)' /\ SoFar(p)' /\ Finds(p)'
    BY <1>1, <1>3 DEF Holds, Loaded, SoFar, Finds, SecretPCs
  <2> QED BY <2>2, <2>3, <2>4 DEF KeysInHand
<1>4. CASE job \notin {"serve", "preflight"}
  BY <1>1, <1>2, <1>4, KeysKept DEF Loaded, SecretPCs
<1> QED BY <1>3, <1>4

(* A torn file is removed while nobody is at the secrets: then nobody is    *)
(* past them either.                                                       *)
LEMMA RemovalKeepsKeys ==
    ASSUME HostTyped, KeysInHand, NEW n \in Names, RemoveSecret(n), ~crossed'
    PROVE  KeysInHand'
<1>1. UNCHANGED process /\ file[n] = Torn /\ \A p \in Processes : process[p].pc \notin SecretPCs
  BY DEF RemoveSecret
<1>2. \A p \in Processes : ~Loaded(p)
  BY <1>1, NobodyLoaded
<1> QED BY <1>1, <1>2 DEF KeysInHand, Alone, Holds, Loaded, SoFar, Finds, SecretPCs

LEMMA NextKeys ==
    ASSUME HostTyped, JobsInPlace, KeysInv, [Next]_vars PROVE KeysInv'
<1>1. ASSUME KeysInHand, UNCHANGED <<file, process>> PROVE KeysInHand'
  BY <1>1 DEF KeysInHand, Alone, Holds, Loaded, SoFar, Finds, Owned, Secret
<1>2. ASSUME NEW p \in Processes, Starts(p) PROVE UNCHANGED crossed
  <2>1. CASE Look(p) \/ Truncate(p) \/ Fill(p) \/ Read(p) \/ Bind(p) \/ ReadApplied(p)
             \/ MigrateUp(p) \/ MigratedUp(p) \/ MigrateDown(p)
    BY <2>1 DEF Look, Truncate, Fill, Read, Bind, ReadApplied, MigrateUp, MigratedUp,
                MigrateDown, History
  <2>2. CASE Check(p) \/ Mint(p) \/ TokenTruncate(p) \/ TokenFill(p)
             \/ Organizations(p) \/ Identity(p) \/ IdentityInsert(p)
    BY <2>2 DEF Check, Mint, TokenTruncate, TokenFill, Organizations, Identity,
                IdentityInsert, History
  <2> QED BY <1>2, <2>1, <2>2 DEF Starts
<1>3. ASSUME NEW p \in Processes, Starts(p) PROVE KeysInv'
  BY <1>2, <1>3, StartsKeepKeys DEF KeysInv
<1>4. ASSUME NEW p \in Processes, NEW job \in Jobs, NEW build \in Builds, NEW setting \in Settings,
             Begin(p, job, build, setting)
      PROVE  KeysInv'
  <2>1. crossed => crossed'
    BY <1>4 DEF Begin
  <2> QED BY <1>4, <2>1, BeginKeepsKeys DEF KeysInv
<1>5. ASSUME NEW p \in Processes, Restart(p) \/ Crash(p) PROVE KeysInv'
  <2>1. Exit(p) /\ UNCHANGED <<file, crossed>>
    BY <1>5 DEF Restart, Crash, History
  <2> QED BY <2>1, KeysExit DEF KeysInv
<1>6. ASSUME NEW c \in Claims,
             \/ \E p \in Processes, f \in Forms : ClaimMatch(c, p, f)
             \/ ClaimStep(c) \/ ClaimFails(c)
      PROVE  UNCHANGED <<file, process, crossed>>
  BY <1>6 DEF ClaimMatch, ClaimStep, ClaimCreate, ClaimMarker, ClaimUnlink, ClaimAudit,
              ClaimFails, History
<1>7. ASSUME NEW n \in Names, RemoveSecret(n) PROVE KeysInv'
  <2>1. crossed => crossed'
    BY <1>7 DEF RemoveSecret
  <2> QED BY <1>7, <2>1, RemovalKeepsKeys DEF KeysInv
<1>8. CASE UNCHANGED vars
  BY <1>1, <1>8 DEF vars, KeysInv
<1>9. ASSUME UNCHANGED <<file, process, crossed>> PROVE KeysInv'
  BY <1>1, <1>9 DEF KeysInv
<1> QED BY <1>3, <1>4, <1>5, <1>6, <1>7, <1>8, <1>9 DEF Next

LEMMA InitKeys == Init => JobsInPlace /\ KeysInv
<1> SUFFICES ASSUME Init PROVE JobsInPlace /\ KeysInv
  OBVIOUS
<1>1. \A p \in Processes : process[p].pc = "idle"
  BY IdleFields DEF Init
<1> QED BY <1>1 DEF JobsInPlace, JobAt, Started, KeysInv, KeysInHand, Alone, Holds, Loaded,
                    SoFar, Finds, SecretPCs

(* However many secrets there are and processes that start, die in the      *)
(* middle of a write and start again: unless two were at the secrets at     *)
(* once, or the operator beside one, who serves holds what the files hold,  *)
(* and every file is whole.                                                *)
THEOREM ServedFromTheFiles == Spec => []KeysAgree
<1> DEFINE Inv == TypeInv /\ JobsInPlace /\ KeysInv
<1>1. Init => Inv
  BY InitTypeInv, InitKeys
<1>2. Inv /\ [Next]_vars => Inv'
  BY NextTypeInv, NextInPlace, NextKeys DEF TypeInv
<1>3. Inv => KeysAgree
  <2> SUFFICES ASSUME Inv, ~crossed, NEW p \in Processes, At(p, "serving"), NEW n \in Names
               PROVE  Owned(p, n)
    BY DEF KeysAgree, Owned
  <2>1. Loaded(p)
    BY DEF JobsInPlace, JobAt, Started, Loaded, At, SecretPCs
  <2> QED BY <2>1 DEF KeysInv, KeysInHand, Holds
<1> HIDE DEF Inv
<1> QED BY <1>1, <1>2, <1>3, PTL DEF Spec

-----------------------------------------------------------------------------
(* The schema *)

Complete(p) == \A m \in Migrations : Has(p, m) => applied[m] = Sum(p, m)
Present(p) == \A m \in Migrations : Has(p, m) => applied[m] # 0

(* Nothing was rolled back since it looked: what was there then is, and     *)
(* what it has come past is applied in its edition.  It keeps that through  *)
(* its start; and what it checked is there unless it was rolled back since. *)
Climbs(p) ==
    process[p].pc = "up" /\ process[p].sure = "read" =>
        \A m \in Migrations :
            /\ process[p].seen[m] # 0 => applied[m] = process[p].seen[m]
            /\ m < process[p].next /\ Has(p, m) => applied[m] = Sum(p, m)
Climbed(p) ==
    /\ process[p].pc \in Started /\ process[p].sure = "read" => Complete(p)
    /\ process[p].pc \in Started \ {"check"} /\ process[p].sure # "no" => Present(p)

SchemaInv == \A p \in Processes : Climbs(p) /\ Climbed(p)

(* Migrations are only added, and one process moves.                       *)
LEMMA SchemaKept ==
    ASSUME SchemaInv, NEW p \in Processes, Rest(p),
           \A m \in Migrations : applied[m] # 0 => applied'[m] = applied[m],
           Climbs(p)', Climbed(p)'
    PROVE  SchemaInv'
<1>1. ASSUME NEW q \in Processes \ {p} PROVE Climbs(q)' /\ Climbed(q)'
  <2>1. process'[q] = process[q] /\ Climbs(q) /\ Climbed(q)
    BY DEF Rest, SchemaInv
  <2>2. Climbs(q)'
    BY <2>1 DEF Climbs, Has, Sum
  <2>3. Climbed(q)'
    BY <2>1 DEF Climbed, Complete, Present, Has, Sum
  <2> QED BY <2>2, <2>3
<1> QED BY <1>1 DEF SchemaInv

LEMMA SchemaElsewhere ==
    ASSUME SchemaInv, UNCHANGED applied, NEW p \in Processes, Rest(p),
           process'[p].pc \notin Started \cup {"up"}
    PROVE  SchemaInv'
<1>1. Climbs(p)' /\ Climbed(p)'
  BY DEF Climbs, Climbed
<1> QED BY <1>1, SchemaKept

LEMMA SchemaExit ==
    ASSUME HostTyped, SchemaInv, UNCHANGED applied, NEW p \in Processes, Exit(p)
    PROVE  SchemaInv'
<1>1. Rest(p) /\ process'[p].pc = "idle"
  BY ExitEffect, IdleFields DEF HostTyped
<1> QED BY <1>1, SchemaElsewhere DEF Started

LEMMA SchemaGo ==
    ASSUME HostTyped, SchemaInv, UNCHANGED applied, NEW p \in Processes, Rest(p),
           Alike(process'[p], process[p]),
           process[p].pc \in Started \ {"check"}, process'[p].pc \in Started
    PROVE  SchemaInv'
<1>1. Climbed(p)
  BY DEF SchemaInv
<1>2. Climbed(p)'
  BY <1>1 DEF Climbed, Complete, Present, Has, Sum, Alike
<1>3. Climbs(p)'
  BY DEF Climbs, Started
<1> QED BY <1>2, <1>3, SchemaKept

LEMMA MigrateUpKeeps ==
    ASSUME HostTyped, SchemaInv, NEW p \in Processes, MigrateUp(p) PROVE SchemaInv'
<1> DEFINE m == process[p].next
<1>1. /\ m \in Migrations /\ process[p].pc = "up" /\ Typed /\ Climbs(p)
      /\ applied \in [Migrations -> Nat] /\ Sum(p, m) \in Nat
      /\ process[p].seen \in [Migrations -> Nat]
  BY FieldsOf DEF MigrateUp, At, HostTyped, SchemaInv, Typed, Sum
<1>2. CASE Exit(p) /\ UNCHANGED applied
  BY <1>2, SchemaExit
<1>3. ASSUME Become(p, [process[p] EXCEPT !.next = m + 1]),
             \A n \in Migrations \ {m} : applied'[n] = applied[n],
             applied[m] # 0 => applied'[m] = applied[m],
             process[p].sure = "read" /\ Has(p, m) => applied'[m] = Sum(p, m),
             process[p].seen[m] # 0 => applied'[m] = applied[m]
      PROVE  SchemaInv'
  <2>1. /\ Rest(p) /\ process'[p].pc = "up" /\ process'[p].build = process[p].build
        /\ process'[p].next = m + 1 /\ process'[p].seen = process[p].seen
        /\ process'[p].sure = process[p].sure
    BY <1>1, <1>3, RoundEffect
  <2>2. Climbed(p)'
    BY <2>1 DEF Climbed, Started
  <2>3. Climbs(p)'
    <3>1. SUFFICES ASSUME process[p].sure = "read", NEW n \in Migrations
                   PROVE  /\ process[p].seen[n] # 0 => applied'[n] = process[p].seen[n]
                          /\ n < m + 1 /\ Has(p, n) => applied'[n] = Sum(p, n)
      BY <2>1 DEF Climbs, Has, Sum
    <3>2. /\ process[p].seen[n] # 0 => applied[n] = process[p].seen[n]
          /\ n < m /\ Has(p, n) => applied[n] = Sum(p, n)
      BY <1>1, <3>1 DEF Climbs
    <3>3. CASE n = m
      BY <1>3, <3>1, <3>2, <3>3
    <3>4. CASE n # m
      <4>1. n < m + 1 => n < m
        BY <1>1, <3>4 DEF Migrations
      <4> QED BY <1>3, <3>2, <3>4, <4>1
    <3> QED BY <3>3, <3>4
  <2>4. \A n \in Migrations : applied[n] # 0 => applied'[n] = applied[n]
    BY <1>3
  <2> QED BY <2>1, <2>2, <2>3, <2>4, SchemaKept
<1>4. CASE (~Has(p, m) \/ process[p].seen[m] = Sum(p, m))
  <2>1. Become(p, [process[p] EXCEPT !.next = m + 1]) /\ UNCHANGED applied
    BY <1>4 DEF MigrateUp
  <2>2. process[p].sure = "read" /\ Has(p, m) => applied[m] = Sum(p, m)
    BY <1>1, <1>4 DEF Climbs, Has
  <2> QED BY <1>3, <2>1, <2>2
<1>5. CASE ~(~Has(p, m) \/ process[p].seen[m] = Sum(p, m)) /\ ~(Edited(p, m) \/ ~Runs(m))
  <2>1. /\ Become(p, [process[p] EXCEPT !.next = m + 1])
        /\ applied' = [applied EXCEPT ![m] = Sum(p, m)]
    BY <1>5 DEF MigrateUp
  <2>2. applied[m] = 0 /\ process[p].seen[m] = 0
    BY <1>1, <1>5 DEF Runs, Edited
  <2> QED BY <1>1, <1>3, <2>1, <2>2
<1>6. CASE ~(~Has(p, m) \/ process[p].seen[m] = Sum(p, m)) /\ (Edited(p, m) \/ ~Runs(m))
  BY <1>2, <1>6 DEF MigrateUp
<1> QED BY <1>4, <1>5, <1>6

LEMMA StartsKeepSchema ==
    ASSUME HostTyped, SchemaInv, NEW p \in Processes, Starts(p) PROVE SchemaInv'
<1>1. Typed /\ AtSecret(p) /\ applied \in [Migrations -> Nat] /\ orgs \subseteq Forms
      /\ file \in [Names -> Contents] /\ Climbs(p) /\ Climbed(p)
  BY DEF HostTyped, SchemaInv
<1>2. ASSUME UNCHANGED applied, NEW pc \in PCs \ (Started \cup {"up"}), Goto(p, pc)
      PROVE  SchemaInv'
  <2>1. Rest(p) /\ process'[p].pc = pc
    BY <1>1, <1>2, GotoEffect
  <2> QED BY <1>2, <2>1, SchemaElsewhere
<1>3. CASE Look(p) \/ Truncate(p) \/ Fill(p) \/ Bind(p)
  <2>1. UNCHANGED applied
    BY <1>3 DEF Look, Truncate, Fill, Bind, Database
  <2>2. Exit(p) \/ \E pc \in {"truncate", "fill", "read", "applied"} : Goto(p, pc)
    BY <1>3 DEF Look, Truncate, Fill, Bind
  <2>3. {"truncate", "fill", "read", "applied"} \subseteq PCs \ (Started \cup {"up"})
    BY DEF PCs, SecretPCs, Started
  <2> QED BY <1>2, <2>1, <2>2, <2>3, SchemaExit
<1>4. CASE Read(p)
  <2>1. UNCHANGED applied /\ process[p].next <= Len(Secrets)
    BY <1>1, <1>4 DEF Read, At, AtSecret, SecretPCs, Database
  <2>2. Rest(p) /\ (process'[p] = Idle \/ process'[p].pc \in {"look", "bind"})
    BY <1>1, <1>4, <2>1, ReadEffect
  <2> QED BY <2>1, <2>2, IdleFields, SchemaElsewhere DEF Started
<1>5. CASE ReadApplied(p)
  <2>1. /\ Rest(p) /\ process'[p].next = 1 /\ process'[p].seen = applied
        /\ process'[p].pc \in {"up", "down"} /\ UNCHANGED applied
    BY <1>1, <1>5, ReadAppliedEffect DEF ReadApplied, Database
  <2>2. \A m \in Migrations : ~(m < 1)
    BY DEF Migrations
  <2>3. Climbs(p)' /\ Climbed(p)'
    BY <2>1, <2>2 DEF Climbs, Climbed, Started
  <2> QED BY <2>1, <2>3, SchemaKept
<1>6. CASE MigratedUp(p)
  <2>1. /\ Rest(p)
        /\ \/ process'[p] = Idle
           \/ process'[p].pc = "check" /\ process'[p].build = process[p].build
              /\ process'[p].sure = process[p].sure
    BY <1>1, <1>6, MigratedUpEffect
  <2>2. UNCHANGED applied /\ process[p].pc = "up" /\ process[p].next > Count
    BY <1>6 DEF MigratedUp, At, Database
  <2>3. process[p].next \in Nat
    BY <1>1, FieldsOf DEF Typed
  <2>4. \A m \in Migrations : m < process[p].next
    BY <2>2, <2>3 DEF Migrations
  <2>5. process[p].sure = "read" => Complete(p)
    BY <1>1, <2>2, <2>4 DEF Climbs, Complete
  <2>6. Climbs(p)' /\ Climbed(p)'
    BY <2>1, <2>2, <2>5, IdleFields DEF Climbs, Climbed, Complete, Has, Sum, Started
  <2> QED BY <2>1, <2>2, <2>6, SchemaKept
<1>7. CASE MigrateDown(p)
  <2>1. /\ process'[p].pc = "idle"
        /\ \A q \in Processes \ {p} : process'[q].sure = "no"
    BY <1>1, <1>7, MigrateDownEffect, IdleFields
  <2> QED BY <2>1 DEF SchemaInv, Climbs, Climbed, Started
<1>8. CASE Check(p)
  <2>1. /\ Rest(p)
        /\ \/ process'[p] = Idle
           \/ /\ process'[p].pc = "mint" /\ Present(p)
              /\ process'[p].build = process[p].build
              /\ process'[p].sure = "read" => process[p].sure = "read"
    BY <1>1, <1>8, CheckEffect DEF Present
  <2>2. UNCHANGED applied /\ process[p].pc = "check"
    BY <1>8 DEF Check, At, Database
  <2>3. process[p].sure = "read" => Complete(p)
    BY <1>1, <2>2 DEF Climbed, Started
  <2>4. Climbs(p)' /\ Climbed(p)'
    BY <2>1, <2>2, <2>3, IdleFields DEF Climbs, Climbed, Complete, Present, Has, Sum, Started
  <2> QED BY <2>1, <2>2, <2>4, SchemaKept
<1>9. CASE Mint(p) \/ TokenTruncate(p) \/ TokenFill(p) \/ Identity(p) \/ IdentityInsert(p)
  <2>1. UNCHANGED applied /\ process[p].pc \in Started \ {"check"}
    BY <1>9 DEF Mint, TokenTruncate, TokenFill, Identity, IdentityInsert, At, Started, Database
  <2>2. Exit(p) \/ \E pc \in {"orgs", "tokenTruncate", "tokenFill", "serving", "identityInsert"} :
                      Goto(p, pc)
    BY <1>9 DEF Mint, TokenTruncate, TokenFill, Identity, IdentityInsert
  <2>3. ASSUME NEW pc \in {"orgs", "tokenTruncate", "tokenFill", "serving", "identityInsert"},
               Goto(p, pc)
        PROVE  SchemaInv'
    <3>1. pc \in PCs /\ pc \in Started
      BY DEF PCs, Started
    <3>2. Rest(p) /\ process'[p].pc = pc /\ Alike(process'[p], process[p])
      BY <1>1, <2>3, <3>1, GotoEffect
    <3> QED BY <2>1, <3>1, <3>2, SchemaGo
  <2> QED BY <2>1, <2>2, <2>3, SchemaExit
<1>10. CASE Organizations(p)
  <2>1. /\ Rest(p)
        /\ \/ process'[p] = Idle
           \/ process'[p].pc \in {"serving", "identity"} /\ Alike(process'[p], process[p])
    BY <1>1, <1>10, OrganizationsEffect
  <2>2. UNCHANGED applied /\ process[p].pc = "orgs"
    BY <1>10 DEF Organizations, At, Database
  <2> QED BY <2>1, <2>2, IdleFields, SchemaElsewhere, SchemaGo DEF Started
<1> QED BY <1>3, <1>4, <1>5, <1>6, <1>7, <1>8, <1>9, <1>10, MigrateUpKeeps DEF Starts

LEMMA NextSchema ==
    ASSUME HostTyped, SchemaInv, [Next]_vars PROVE SchemaInv'
<1>1. ASSUME UNCHANGED <<applied, process>> PROVE SchemaInv'
  BY <1>1 DEF SchemaInv, Climbs, Climbed, Complete, Present, Has, Sum
<1>2. ASSUME NEW p \in Processes, NEW job \in Jobs, NEW build \in Builds, NEW setting \in Settings,
             Begin(p, job, build, setting)
      PROVE  SchemaInv'
  <2>1. Rest(p) /\ process'[p].pc \in {"look", "applied"} /\ UNCHANGED applied
    BY <1>2, BeginEffect DEF Begin, HostTyped, Database
  <2> QED BY <2>1, SchemaElsewhere DEF Started
<1>3. ASSUME NEW p \in Processes, Restart(p) \/ Crash(p) PROVE SchemaInv'
  BY <1>3, SchemaExit DEF Restart, Crash, Database
<1>4. ASSUME NEW c \in Claims,
             \/ \E p \in Processes, f \in Forms : ClaimMatch(c, p, f)
             \/ ClaimStep(c) \/ ClaimFails(c)
      PROVE  UNCHANGED <<applied, process>>
  BY <1>4 DEF ClaimMatch, ClaimStep, ClaimCreate, ClaimMarker, ClaimUnlink, ClaimAudit,
              ClaimFails, Database
<1>5. CASE (\E n \in Names : RemoveSecret(n)) \/ UNCHANGED vars
  BY <1>1, <1>5 DEF RemoveSecret, vars, Database
<1> QED BY <1>1, <1>2, <1>3, <1>4, <1>5, StartsKeepSchema DEF Next

(* However many processes of whatever builds apply and roll back beside it, *)
(* who serves has every migration of its build, unless one was rolled back  *)
(* since it checked; and in its build's edition, unless one was rolled back *)
(* since it first looked.                                                  *)
THEOREM NeverBehind == Spec => []ServedWhole
<1> DEFINE Inv == TypeInv /\ SchemaInv
<1>1. Init => Inv
  <2> SUFFICES ASSUME Init PROVE SchemaInv
    BY InitTypeInv
  <2>1. \A p \in Processes : process[p].pc = "idle"
    BY IdleFields DEF Init
  <2> QED BY <2>1 DEF SchemaInv, Climbs, Climbed, Started
<1>2. Inv /\ [Next]_vars => Inv'
  BY NextTypeInv, NextSchema DEF TypeInv
<1>3. Inv => ServedWhole
  BY DEF SchemaInv, Climbed, Started, Complete, Present, ServedWhole, At
<1> HIDE DEF Inv
<1> QED BY <1>1, <1>2, <1>3, PTL DEF Spec
=============================================================================
