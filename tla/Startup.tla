------------------------------- MODULE Startup -------------------------------
(***************************************************************************)
(* How an installation comes up: src/src/main.ts, which loads the secrets  *)
(* (src/src/crypto/secrets.ts), checks the bind address (boot.ts), applies *)
(* the migrations (db/migrate.ts), mints the first-run token               *)
(* (api/bootstrap_token.ts), finds the sign-in identity and serves; the    *)
(* commands that do parts of it (scripts/preflight, db/cli.ts); and the    *)
(* claim, POST /bootstrap, that makes the organization it will serve.      *)
(*                                                                         *)
(* Nothing excludes a second process on the same directory and database.   *)
(* A file is looked for, then truncated, then filled, then read back; a    *)
(* migration and its bookkeeping row are one transaction.                  *)
(***************************************************************************)
EXTENDS Network, Sequences

CONSTANTS
    Processes,      \* processes of one host, each may start again
    Secrets,        \* SECRET_SPECS, in their order
    Count,          \* how many migrations there are
    Needs,          \* <<m, n>>: the script of m does not run without n
    Builds,         \* releases of the code that may be started
    Newest,         \* the release the host is left with
    Checksum,       \* of each build's migrations, 0 where it has none
    Settings,       \* the bind address, the host's interfaces, the acknowledgement
    Proper,         \* the setting the host is left with
    Claims,         \* requests to POST /bootstrap
    Forms,          \* what is typed into one: no two share a slug or an email
    MaxTrouble      \* bound on crashes, failed writes and commands that are no start

Migrations == 1..Count
Names == {Secrets[i] : i \in 1..Len(Secrets)}
Absent == "absent"
Torn == "torn"          \* truncated, and not filled yet
Good == "good"

ASSUME StartupAssumption ==
    /\ Secrets \in Seq(Names) /\ Len(Secrets) > 0
    /\ {Absent, Torn} \cap Processes = {}   \* a file is one of these, or whose it is
    /\ Count \in Nat
    /\ Needs \subseteq {pair \in Migrations \X Migrations : pair[2] < pair[1]}
    /\ Newest \in Builds /\ Proper \in Settings
    /\ Checksum \in [Builds -> [Migrations -> Nat]]
    /\ MaxTrouble \in Nat

VARIABLES
    file,       \* the secrets directory: who wrote each secret
    token,      \* bootstrap.token
    spent,      \* bootstrap.spent is there
    applied,    \* schema_migrations: the checksum of each, 0 where there is none
    orgs,       \* organizations, by the form that claimed them
    identities, \* organizations with a sign-in identity
    process,
    claim,
    trouble,
    crossed,    \* history: two were at the secrets at once, or one and the operator
    slipped     \* history: a claim overlapped another, or was created and not spent

vars == <<file, token, spent, applied, orgs, identities, process, claim, trouble,
          crossed, slipped>>

-----------------------------------------------------------------------------
(* Files, processes and claims *)

Contents == Processes \cup {Absent, Torn}

Jobs == {"serve", "preflight", "up", "down"}
SecretPCs == {"look", "truncate", "fill", "read"}
PCs == SecretPCs \cup {"idle", "bind", "applied", "up", "down", "check", "mint",
                       "tokenTruncate", "tokenFill", "orgs", "identity",
                       "identityInsert", "serving"}

(* History: nothing was rolled back since the process read the applied      *)
(* migrations, since it checked them, or neither can be said.               *)
Sureness == {"read", "checked", "no"}

NoForm == "none"
NoProcess == "none"
Process == [pc : PCs, job : Jobs, build : Builds, setting : Settings,
            next : 1..(Count + Len(Secrets)),       \* the secret or migration it is at
            holds : [Names -> Contents],            \* the secrets as it read them
            refused : BOOLEAN,                      \* problems were found
            seen : [Migrations -> Nat],             \* appliedMigrations as it read it
            org : Forms \cup {NoForm},
            sure : Sureness]

Idle == [pc |-> "idle", job |-> "serve", build |-> Newest, setting |-> Proper,
         next |-> 1, holds |-> [n \in Names |-> Absent], refused |-> FALSE,
         seen |-> [m \in Migrations |-> 0], org |-> NoForm, sure |-> "no"]

Claim == [pc : {"idle", "create", "marker", "unlink", "audit"},
          at : Processes \cup {NoProcess}, form : Forms \cup {NoForm}]
NoClaim == [pc |-> "idle", at |-> NoProcess, form |-> NoForm]

TypeOK ==
    /\ file \in [Names -> Contents]
    /\ token \in {Absent, Torn, Good}
    /\ spent \in BOOLEAN
    /\ applied \in [Migrations -> Nat]
    /\ identities \subseteq orgs /\ orgs \subseteq Forms
    /\ process \in [Processes -> Process]
    /\ \A p \in Processes : process[p].pc \in SecretPCs => process[p].next <= Len(Secrets)
    /\ claim \in [Claims -> Claim]
    /\ trouble \in 0..MaxTrouble
    /\ crossed \in BOOLEAN /\ slipped \in BOOLEAN

Init ==
    /\ file = [n \in Names |-> Absent]
    /\ token = Absent
    /\ spent = FALSE
    /\ applied = [m \in Migrations |-> 0]
    /\ orgs = {} /\ identities = {}
    /\ process = [p \in Processes |-> Idle]
    /\ claim = [c \in Claims |-> NoClaim]
    /\ trouble = 0
    /\ crossed = FALSE /\ slipped = FALSE

At(p, pc) == process[p].pc = pc
Become(p, new) == process' = [process EXCEPT ![p] = new]
Goto(p, pc) == Become(p, [process[p] EXCEPT !.pc = pc])
Exit(p) == Become(p, Idle)

Database == <<applied, orgs, identities>>
Token == <<token, spent>>
History == <<crossed, slipped>>

Trouble == trouble < MaxTrouble /\ trouble' = trouble + 1

-----------------------------------------------------------------------------
(* loadSecrets *)

Begin(p, job, build, setting) ==
    /\ At(p, "idle")
    /\ IF job = "serve" /\ build = Newest /\ setting = Proper
       THEN UNCHANGED trouble ELSE Trouble
    /\ job = "preflight" => build = Newest
    /\ job \in {"up", "down"} => setting = Proper
    /\ LET loads == job \in {"serve", "preflight"}
       IN  /\ Become(p, [Idle EXCEPT !.job = job, !.build = build, !.setting = setting,
                                     !.pc = IF loads THEN "look" ELSE "applied"])
           /\ crossed' = \/ crossed
                          \/ /\ loads
                             /\ \E q \in Processes \ {p} : process[q].pc \in SecretPCs
    /\ UNCHANGED <<file, Token, Database, claim, slipped>>

Secret(p) == Secrets[process[p].next]

Look(p) ==
    /\ At(p, "look")
    /\ Goto(p, IF file[Secret(p)] = Absent THEN "truncate" ELSE "read")
    /\ UNCHANGED <<file, Token, Database, claim, trouble, History>>

(* writeFileSync truncates ..                                               *)
Truncate(p) ==
    /\ At(p, "truncate")
    /\ file' = [file EXCEPT ![Secret(p)] = Torn]
    /\ Goto(p, "fill")
    /\ UNCHANGED <<Token, Database, claim, trouble, History>>

(* .. and then writes.                                                      *)
Fill(p) ==
    /\ At(p, "fill")
    /\ file' = [file EXCEPT ![Secret(p)] = p]
    /\ Goto(p, "read")
    /\ UNCHANGED <<Token, Database, claim, trouble, History>>

(* fault: an empty file is a secret *)
WeakNever(content) == FALSE

(* weakSecretReason of an empty file, or of one that is no private key.     *)
Weak(content) == content = Torn

(* The file is read back; a problem is noted, and the next secret loaded.   *)
Read(p) ==
    LET content == file[Secret(p)]
        refused == process[p].refused \/ Weak(content)
        more == process[p].next < Len(Secrets)
    IN  /\ At(p, "read")
        /\ IF ~more /\ refused THEN Exit(p)
           ELSE Become(p, [process[p] EXCEPT !.pc = IF more THEN "look" ELSE "bind",
                                             !.next = IF more THEN @ + 1 ELSE 1,
                                             !.refused = refused,
                                             !.holds[Secret(p)] = content])
        /\ UNCHANGED <<file, Token, Database, claim, trouble, History>>

(* preflight's other half.                                                  *)
Bind(p) ==
    LET setting == process[p].setting IN
    /\ At(p, "bind")
    /\ IF bindRefusal(setting.bind, setting.interfaces, setting.acknowledged)
             \/ process[p].job = "preflight"
       THEN Exit(p)
       ELSE Goto(p, "applied")
    /\ UNCHANGED <<file, Token, Database, claim, trouble, History>>

-----------------------------------------------------------------------------
(* Migrations *)

Sum(p, m) == Checksum[process[p].build][m]
Has(p, m) == Sum(p, m) # 0

(* Rolling back takes the newest that was seen.                             *)
NewestSeen(p) ==
    {m \in Migrations : process[p].seen[m] # 0 /\
                        \A n \in Migrations : process[p].seen[n] # 0 => n <= m}

ReadApplied(p) ==
    /\ At(p, "applied")
    /\ Become(p, [process[p] EXCEPT
                    !.pc = IF process[p].job = "down" THEN "down" ELSE "up",
                    !.next = 1, !.seen = applied, !.sure = "read"])
    /\ UNCHANGED <<file, Token, Database, claim, trouble, History>>

(* An applied migration whose file was edited refuses the start.            *)
Edited(p, m) == process[p].seen[m] # 0 /\ process[p].seen[m] # Sum(p, m)

(* A script fails on what is there already and on what is missing.          *)
Runs(m) ==
    /\ applied[m] = 0
    /\ \A n \in Migrations : <<m, n>> \in Needs => applied[n] # 0

(* fault: what is applied is applied again, and fails *)
MigrateUpAll(p) ==
    LET m == process[p].next
    IN  /\ At(p, "up")
        /\ m \in Migrations
        /\ IF Has(p, m) /\ ~Runs(m)
           THEN Exit(p) /\ UNCHANGED applied
           ELSE /\ applied' = [applied EXCEPT ![m] = Sum(p, m)]
                /\ Become(p, [process[p] EXCEPT !.next = m + 1])
        /\ UNCHANGED <<file, Token, orgs, identities, claim, trouble, History>>

(* One round of migrateUp: the migration is passed over, refused, or        *)
(* applied with its bookkeeping row in one transaction.                     *)
MigrateUp(p) ==
    LET m == process[p].next
    IN  /\ At(p, "up")
        /\ m \in Migrations
        /\ IF ~Has(p, m) \/ process[p].seen[m] = Sum(p, m)
           THEN /\ Become(p, [process[p] EXCEPT !.next = m + 1])
                /\ UNCHANGED applied
           ELSE IF Edited(p, m) \/ ~Runs(m)
           THEN Exit(p) /\ UNCHANGED applied
           ELSE /\ applied' = [applied EXCEPT ![m] = Sum(p, m)]
                /\ Become(p, [process[p] EXCEPT !.next = m + 1])
        /\ UNCHANGED <<file, Token, orgs, identities, claim, trouble, History>>

MigratedUp(p) ==
    /\ At(p, "up")
    /\ process[p].next > Count
    /\ IF process[p].job = "up" THEN Exit(p)
       ELSE Become(p, [process[p] EXCEPT !.pc = "check", !.next = 1, !.seen = Idle.seen])
    /\ UNCHANGED <<file, Token, Database, claim, trouble, History>>

(* migrateDown, by one.  A script drops what is there, and fails on what    *)
(* another applied migration still needs.  The first migrations hold the    *)
(* organizations.                                                           *)
MigrateDown(p) ==
    /\ At(p, "down")
    /\ IF \E m \in NewestSeen(p) :
             Has(p, m) /\ \A n \in Migrations : <<n, m>> \in Needs => applied[n] = 0
       THEN \E m \in NewestSeen(p) :
              /\ applied' = [applied EXCEPT ![m] = 0]
              /\ orgs' = IF m = 1 THEN {} ELSE orgs
              /\ identities' = IF m = 1 THEN {} ELSE identities
       ELSE UNCHANGED Database
    /\ process' = [q \in Processes |->
                     IF q = p THEN Idle ELSE [process[q] EXCEPT !.sure = "no"]]
    /\ UNCHANGED <<file, Token, claim, trouble, History>>

(* fault: migrateUp's return is taken for the schema *)
CheckNothing(p) ==
    /\ At(p, "check")
    /\ Become(p, [process[p] EXCEPT !.pc = "mint", !.sure = IF @ = "no" THEN "checked" ELSE @])
    /\ UNCHANGED <<file, Token, Database, claim, trouble, History>>

(* main reads the table again, and refuses where one is missing.            *)
Check(p) ==
    /\ At(p, "check")
    /\ IF \E m \in Migrations : Has(p, m) /\ applied[m] = 0
       THEN Exit(p)
       ELSE Become(p, [process[p] EXCEPT !.pc = "mint", !.sure = IF @ = "no" THEN "checked" ELSE @])
    /\ UNCHANGED <<file, Token, Database, claim, trouble, History>>

-----------------------------------------------------------------------------
(* The first-run token and the sign-in identity *)

(* mintBootstrapToken: not once it is spent, and not where a file is.       *)
Mint(p) ==
    /\ At(p, "mint")
    /\ Goto(p, IF spent \/ token # Absent THEN "orgs" ELSE "tokenTruncate")
    /\ UNCHANGED <<file, Token, Database, claim, trouble, History>>

TokenTruncate(p) ==
    /\ At(p, "tokenTruncate")
    /\ token' = Torn
    /\ Goto(p, "tokenFill")
    /\ UNCHANGED <<file, spent, Database, claim, trouble, History>>

TokenFill(p) ==
    /\ At(p, "tokenFill")
    /\ token' = Good
    /\ Goto(p, "orgs")
    /\ UNCHANGED <<file, spent, Database, claim, trouble, History>>

(* resolveSignInIdentity: no organization, one, or a refusal ..             *)
Organizations(p) ==
    /\ At(p, "orgs")
    /\ IF orgs = {} THEN Goto(p, "serving")
       ELSE IF Cardinality(orgs) > 1 THEN Exit(p)
       ELSE \E f \in orgs :
              Become(p, [process[p] EXCEPT !.pc = "identity", !.org = f])
    /\ UNCHANGED <<file, Token, Database, claim, trouble, History>>

(* .. whose identity is looked for ..                                       *)
Identity(p) ==
    /\ At(p, "identity")
    /\ Goto(p, IF process[p].org \in identities THEN "serving" ELSE "identityInsert")
    /\ UNCHANGED <<file, Token, Database, claim, trouble, History>>

(* .. and inserted; a start that lost the race dies of the unique index.    *)
IdentityInsert(p) ==
    LET f == process[p].org
    IN  /\ At(p, "identityInsert")
        /\ IF f \in orgs \ identities
           THEN identities' = identities \cup {f} /\ Goto(p, "serving")
           ELSE UNCHANGED identities /\ Exit(p)
        /\ UNCHANGED <<file, Token, applied, orgs, claim, trouble, History>>

-----------------------------------------------------------------------------
(* POST /bootstrap *)

ClaimGoto(c, pc) == claim' = [claim EXCEPT ![c].pc = pc]
Answered(c) == claim' = [claim EXCEPT ![c] = NoClaim]

(* The token is matched and the form valid.                                 *)
ClaimMatch(c, p, f) ==
    /\ claim[c].pc = "idle"
    /\ At(p, "serving")
    /\ ~spent /\ token = Good
    /\ claim' = [claim EXCEPT ![c] = [pc |-> "create", at |-> p, form |-> f]]
    /\ slipped' = (slipped \/ \E d \in Claims : claim[d].pc \in {"create", "marker"})
    /\ UNCHANGED <<file, Token, Database, process, trouble, crossed>>

(* createInstallation, one transaction: a slug or an email that is taken,   *)
(* or a schema that is not there, fails it.                                 *)
ClaimCreate(c) ==
    LET f == claim[c].form
    IN  /\ claim[c].pc = "create"
        /\ IF applied[1] = 0 \/ f \in orgs
           THEN Answered(c) /\ UNCHANGED orgs
           ELSE ClaimGoto(c, "marker") /\ orgs' = orgs \cup {f}
        /\ UNCHANGED <<file, Token, applied, identities, process, trouble, History>>

(* fault: no marker is written, the token's absence is enough *)
ClaimMarkerNothing(c) ==
    /\ claim[c].pc = "marker"
    /\ ClaimGoto(c, "unlink")
    /\ UNCHANGED <<file, Token, Database, process, trouble, History>>

(* spendBootstrapToken: the marker, then the token.                         *)
ClaimMarker(c) ==
    /\ claim[c].pc = "marker"
    /\ spent' = TRUE
    /\ ClaimGoto(c, "unlink")
    /\ UNCHANGED <<file, token, Database, process, trouble, History>>

ClaimUnlink(c) ==
    /\ claim[c].pc = "unlink"
    /\ token' = Absent
    /\ ClaimGoto(c, "audit")
    /\ UNCHANGED <<file, spent, Database, process, trouble, History>>

(* The audit entry, and the answer.                                         *)
ClaimAudit(c) ==
    /\ claim[c].pc = "audit"
    /\ Answered(c)
    /\ UNCHANGED <<file, Token, Database, process, trouble, History>>

(* The marker cannot be written, and the request ends in an error.          *)
ClaimFails(c) ==
    /\ claim[c].pc = "marker"
    /\ Trouble
    /\ Answered(c)
    /\ slipped' = TRUE
    /\ UNCHANGED <<file, Token, Database, process, crossed>>

-----------------------------------------------------------------------------
(* The host and its operator *)

EndOf(p) == claim' = [c \in Claims |->
                        IF claim[c].at = p THEN NoClaim ELSE claim[c]]

Crash(p) ==
    /\ ~At(p, "idle")
    /\ Trouble
    /\ Exit(p)
    /\ EndOf(p)
    /\ slipped' = (slipped \/ \E c \in Claims : claim[c].at = p /\ claim[c].pc = "marker")
    /\ UNCHANGED <<file, Token, Database, crossed>>

(* A claimed installation is restarted, as the message asks; what it is     *)
(* answering is answered first.                                             *)
Restart(p) ==
    /\ At(p, "serving")
    /\ process[p].org = NoForm /\ orgs # {}
    /\ \A c \in Claims : claim[c].at # p
    /\ Exit(p)
    /\ UNCHANGED <<file, Token, Database, claim, trouble, History>>

(* The remedy of a start refused over a secret: remove the file.  A start    *)
(* that had just found it there reads nothing, and is not refused for that. *)
RemoveSecret(n) ==
    /\ file[n] = Torn
    /\ \A p \in Processes : ~At(p, "fill")
    /\ file' = [file EXCEPT ![n] = Absent]
    /\ crossed' = (crossed \/ \E p \in Processes : process[p].pc \in SecretPCs)
    /\ UNCHANGED <<Token, Database, process, claim, trouble, slipped>>

Starts(p) ==
    \/ Look(p) \/ Truncate(p) \/ Fill(p) \/ Read(p) \/ Bind(p)
    \/ ReadApplied(p) \/ MigrateUp(p) \/ MigratedUp(p) \/ MigrateDown(p) \/ Check(p)
    \/ Mint(p) \/ TokenTruncate(p) \/ TokenFill(p)
    \/ Organizations(p) \/ Identity(p) \/ IdentityInsert(p)

ClaimStep(c) ==
    ClaimCreate(c) \/ ClaimMarker(c) \/ ClaimUnlink(c) \/ ClaimAudit(c)

Next ==
    \/ \E p \in Processes :
          \/ \E job \in Jobs, build \in Builds, setting \in Settings :
                Begin(p, job, build, setting)
          \/ Starts(p) \/ Restart(p) \/ Crash(p)
    \/ \E c \in Claims :
          \/ \E p \in Processes, f \in Forms : ClaimMatch(c, p, f)
          \/ ClaimStep(c) \/ ClaimFails(c)
    \/ \E n \in Names : RemoveSecret(n)

Spec == Init /\ [][Next]_vars

(* What runs goes on, the host starts the newest build again, and the       *)
(* operator claims, restarts and removes what a start refuses.              *)
Fairness ==
    /\ \A p \in Processes :
          /\ WF_vars(Starts(p)) /\ WF_vars(Restart(p))
          /\ WF_vars(Begin(p, "serve", Newest, Proper))
    /\ \A c \in Claims : WF_vars(ClaimStep(c))
    /\ WF_vars(\E c \in Claims, p \in Processes, f \in Forms : ClaimMatch(c, p, f))
    /\ \A n \in Names : WF_vars(RemoveSecret(n))

FairSpec == Spec /\ Fairness
-----------------------------------------------------------------------------
(* Properties *)

(* "Refusing to serve against a schema behind the code" (main.ts 154-163):  *)
(* whatever ran beside its start, a serving process has every migration of  *)
(* its build unless one was rolled back since it checked, and in the        *)
(* edition of its build unless one was rolled back since it first looked.   *)
ServedWhole ==
    \A p \in Processes : At(p, "serving") =>
        \A m \in Migrations : Has(p, m) =>
            /\ process[p].sure # "no" => applied[m] # 0
            /\ process[p].sure = "read" => applied[m] = Sum(p, m)

(* A process serves with the secrets of the directory, whole, if nobody else *)
(* was at them meanwhile: a crash in the middle of a write is refused at the *)
(* next start and never replaced in silence (secrets.ts 212-262).           *)
KeysAgree ==
    ~crossed => \A p \in Processes : At(p, "serving") =>
        \A n \in Names : process[p].holds[n] = file[n] /\ file[n] \in Processes

(* One claim at a time, each spent once it was created, make one            *)
(* organization, however often the installation starts, dies between the    *)
(* marker and the token, or is claimed again (bootstrap_token.ts 35-41).    *)
OneInstallation == ~slipped => Cardinality(orgs) <= 1

(* The operator can sign in at last: some process serves the organization   *)
(* with its identity.  Not where a claim slipped or the token is torn, for  *)
(* which the code has no remedy, nor where a migration was applied in an    *)
(* edition the newest build refuses.                                        *)
Signable == \E p \in Processes : At(p, "serving") /\ process[p].org \in identities
Foreign == \E m \in Migrations : applied[m] \notin {0, Checksum[Newest][m]}
Settles == <>[](Signable \/ slipped \/ token = Torn \/ Foreign)

-----------------------------------------------------------------------------
(* What the comments promise                                                *)

(* "Must exist exactly once": a claimed installation has one organization.  *)
OneOrganization == Cardinality(orgs) <= 1

(* Processes of one installation share its secrets.                         *)
OneSetOfKeys ==
    \A p, q \in Processes :
        At(p, "serving") /\ At(q, "serving") => process[p].holds = process[q].holds

(* An installation nobody claimed can be claimed: "Mint the token if this   *)
(* installation is unclaimed and has none".                                 *)
ClaimableAtLast == <>[](Signable \/ slipped \/ Foreign)
=============================================================================
