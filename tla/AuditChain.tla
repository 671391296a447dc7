------------------------------ MODULE AuditChain ------------------------------
(***************************************************************************)
(* One organization's audit log: recordAudit of src/src/repo/audit.ts and  *)
(* the trigger that chains its entries (migration 6), runAuditVerification *)
(* of src/src/repo/audit_verification.ts and the function it calls         *)
(* (migration 9), and the job of src/src/jobs/audit_verification_job.ts.   *)
(*                                                                         *)
(* Every transaction is READ COMMITTED and both database functions are     *)
(* volatile, so each of their statements sees what is committed when it    *)
(* starts.  A step of an action is one such statement.                     *)
(*                                                                         *)
(* An entry's content is the number of the request that wrote it (every    *)
(* entry holds a request id).  A hash is what was hashed: the hash of the  *)
(* entry before, with the sequence number and the content appended, so two *)
(* hashes are equal when and only when everything under them is.           *)
(***************************************************************************)
EXTENDS Integers, FiniteSets, SequencesExt

CONSTANTS
    Processes,      \* requests and jobs that may overlap
    Overlapping,    \* whether verification runs may overlap
    Failures,       \* whether processes and transactions may fail
    MaxRequests,    \* bound on the requests that append
    MaxRuns,        \* bound on the verification runs
    MaxDamage       \* bound on the entries removed or altered

ASSUME AuditChainAssumption ==
    /\ Overlapping \in BOOLEAN /\ Failures \in BOOLEAN
    /\ MaxRequests \in Nat /\ MaxRuns \in Nat /\ MaxDamage \in Nat

VARIABLES
    log,        \* audit_entries in the order of seq, as committed
    runs,       \* audit_verifications, as committed
    process,    \* what each process is doing
    requests,   \* requests begun so far
    started,    \* runs begun so far
    damage,     \* entries removed or altered so far
    alerted,    \* the runs onAlert was called for
    regrown     \* history: heads the log lost and has grown past

auditVars == <<log, runs, process, requests, started, damage, alerted, regrown>>

Contents == 0..(MaxRequests + MaxRuns)
Altered == 0                    \* a content no request wrote
Hashes == Seq(Nat \X Contents)
Genesis == <<>>                 \* sixty-four zeros

EntryType == [seq : Nat \ {0}, prev : Hashes, content : Contents, hash : Hashes]
NoEntry == [seq |-> 0, prev |-> Genesis, content |-> Altered, hash |-> Genesis]

Outcomes == {"clean", "broken", "truncated"}

(* at: verified_at, the start of the run's transaction.  last and intact    *)
(* are no columns: what the run saw of the entry that the run it is         *)
(* compared with had seen last, and whether nothing it verified was damaged.*)
RunType == [at : Nat, head : Nat, hash : Hashes, outcome : Outcomes,
            last : {"kept", "lost", "regrown"}, intact : BOOLEAN]
NoRun == [at |-> 0, head |-> 0, hash |-> Genesis, outcome |-> "clean",
          last |-> "kept", intact |-> TRUE]

Stages == {"idle", "inserting", "locked", "chained",
           "verifying", "headed", "checked", "compared", "alerting"}

ProcessType == [stage : Stages, content : Contents, entry : EntryType \cup {NoEntry},
                broken : BOOLEAN, run : RunType]
NoTask == [stage |-> "idle", content |-> Altered, entry |-> NoEntry,
         broken |-> FALSE, run |-> NoRun]

AuditTypeOK ==
    /\ log \in Seq(EntryType)
    /\ runs \subseteq RunType
    /\ process \in [Processes -> ProcessType]
    /\ requests \in 0..MaxRequests /\ started \in 0..MaxRuns
    /\ damage \in 0..MaxDamage
    /\ alerted \subseteq 1..MaxRuns
    /\ regrown \subseteq Nat \X Hashes

AuditInit ==
    /\ log = <<>> /\ runs = {}
    /\ process = [p \in Processes |-> NoTask]
    /\ requests = 0 /\ started = 0 /\ damage = 0
    /\ alerted = {} /\ regrown = {}

-----------------------------------------------------------------------------
(* The chain *)

HashOf(seq, prev, content) == Append(prev, <<seq, content>>)

HeadSeq(l) == IF l = <<>> THEN 0 ELSE Last(l).seq
HeadHash(l) == IF l = <<>> THEN Genesis ELSE Last(l).hash

(* audit_entry_chain: the entry a trigger that sees l makes of the row.     *)
Chained(l, content) ==
    LET seq == HeadSeq(l) + 1 IN
    [seq |-> seq, prev |-> HeadHash(l), content |-> content,
     hash |-> HashOf(seq, HeadHash(l), content)]

(* verify_audit_chain finds a break.                                        *)
Broken(l) ==
    \E i \in DOMAIN l :
        \/ l[i].seq # i
        \/ l[i].prev # (IF i = 1 THEN Genesis ELSE l[i - 1].hash)
        \/ l[i].hash # HashOf(l[i].seq, l[i].prev, l[i].content)

(* The run the next one is compared with: order by verified_at desc.        *)
LastRun ==
    IF runs = {} THEN NoRun
    ELSE CHOOSE r \in runs : \A s \in runs : s.at <= r.at

Holds(l, run) ==
    run.head = 0 \/ \E i \in DOMAIN l : l[i].seq = run.head /\ l[i].hash = run.hash

-----------------------------------------------------------------------------
(* Appending *)

(* recordAudit for a request: the insert is issued.                         *)
BeginAppend(p) ==
    /\ process[p].stage = "idle"
    /\ requests < MaxRequests
    /\ requests' = requests + 1
    /\ process' = [process EXCEPT ![p] =
         [NoTask EXCEPT !.stage = "inserting", !.content = requests + 1]]
    /\ UNCHANGED <<log, runs, started, damage, alerted, regrown>>

LockFree(p) == \A q \in Processes \ {p} : process[q].stage \notin {"locked", "chained"}

(* pg_advisory_xact_lock: held until the transaction ends.                  *)
TakeLock(p) ==
    /\ process[p].stage = "inserting"
    /\ LockFree(p)
    /\ process' = [process EXCEPT ![p].stage = "locked"]
    /\ UNCHANGED <<log, runs, requests, started, damage, alerted, regrown>>

(* The rest of the trigger reads the tail and chains the row to it.         *)
ChainEntry(p) ==
    /\ process[p].stage = "locked"
    /\ process' = [process EXCEPT ![p].stage = "chained",
                                  ![p].entry = Chained(log, process[p].content)]
    /\ UNCHANGED <<log, runs, requests, started, damage, alerted, regrown>>

(* The runs that are, or may come to be, what the next is compared with.    *)
Watched == {LastRun} \cup {process[p].run : p \in Processes}

(* The heads that the log has lost and the entry seq carries it past.       *)
Overtaken(seq) ==
    {<<run.head, run.hash>> : run \in
        {w \in Watched : ~Holds(log, w) /\ HeadSeq(log) <= w.head /\ w.head < seq}}

(* The insert commits, unless the sequence number is taken.  A job whose    *)
(* run was not clean goes on to alert.                                      *)
CommitAppend(p) ==
    LET entry == process[p].entry IN
    /\ process[p].stage = "chained"
    /\ \A i \in DOMAIN log : log[i].seq # entry.seq
    /\ log' = Append(log, entry)
    /\ regrown' = regrown \cup Overtaken(entry.seq)
    /\ process' = [process EXCEPT ![p] =
         IF @.run.outcome = "clean" THEN NoTask
         ELSE [@ EXCEPT !.stage = "alerting", !.entry = NoEntry]]
    /\ UNCHANGED <<runs, requests, started, damage, alerted>>

-----------------------------------------------------------------------------
(* Verifying *)

(* verifyAuditChainForTenant: the run's transaction begins.                 *)
BeginRun(p) ==
    /\ process[p].stage = "idle"
    /\ started < MaxRuns
    /\ Overlapping \/ \A q \in Processes : process[q].run = NoRun
    /\ started' = started + 1
    /\ process' = [process EXCEPT ![p] =
         [NoTask EXCEPT !.stage = "verifying", !.run.at = started + 1]]
    /\ UNCHANGED <<log, runs, requests, damage, alerted, regrown>>

SeenOfLast ==
    IF Holds(log, LastRun) THEN "kept"
    ELSE IF <<LastRun.head, LastRun.hash>> \in regrown THEN "regrown" ELSE "lost"

(* The newest entry is read.                                                *)
ReadHead(p) ==
    /\ process[p].stage = "verifying"
    /\ process' = [process EXCEPT
         ![p].stage = "headed",
         ![p].run.head = HeadSeq(log), ![p].run.hash = HeadHash(log),
         ![p].run.last = SeenOfLast]
    /\ UNCHANGED <<log, runs, requests, started, damage, alerted, regrown>>

(* verify_audit_chain, a statement of its own.                              *)
Check(p) ==
    /\ process[p].stage = "headed"
    /\ process' = [process EXCEPT
         ![p].stage = "checked",
         ![p].broken = Broken(log),
         ![p].run.intact = \A i \in DOMAIN log : log[i].seq = i /\ log[i].content # Altered]
    /\ UNCHANGED <<log, runs, requests, started, damage, alerted, regrown>>

(* fault: a head that did not move counts as one that moved backwards *)
NotAhead(run, last) == last.at # 0 /\ run.head <= last.head

(* The head moved backwards since the last run.                             *)
MovedBackwards(run, last) == last.at # 0 /\ run.head < last.head

(* fault: only the position of the head is compared *)
NeverReplaced(run, last) == FALSE

(* The head is where it was and is another entry.                           *)
Replaced(run, last) ==
    last.at # 0 /\ run.head = last.head /\ run.hash # last.hash

(* The last run is read, and the outcome decided.                           *)
Compare(p) ==
    LET run == process[p].run IN
    /\ process[p].stage = "checked"
    /\ process' = [process EXCEPT
         ![p].stage = "compared",
         ![p].run.outcome =
            IF process[p].broken THEN "broken"
            ELSE IF MovedBackwards(run, LastRun) \/ Replaced(run, LastRun) THEN "truncated"
            ELSE "clean"]
    /\ UNCHANGED <<log, runs, requests, started, damage, alerted, regrown>>

(* The run is recorded and its transaction commits; the job then writes an  *)
(* audit entry, whatever the outcome.                                       *)
Record(p) ==
    /\ process[p].stage = "compared"
    /\ runs' = runs \cup {process[p].run}
    /\ process' = [process EXCEPT ![p].stage = "inserting",
                                  ![p].content = MaxRequests + process[p].run.at,
                                  ![p].broken = FALSE]
    /\ UNCHANGED <<log, requests, started, damage, alerted, regrown>>

(* onAlert; the job then throws.                                            *)
Alert(p) ==
    /\ process[p].stage = "alerting"
    /\ alerted' = alerted \cup {process[p].run.at}
    /\ process' = [process EXCEPT ![p] = NoTask]
    /\ UNCHANGED <<log, runs, requests, started, damage, regrown>>

-----------------------------------------------------------------------------
(* The environment *)

(* A transaction is rolled back and its process gives up, or the process    *)
(* ends.                                                                    *)
Fail(p) ==
    /\ Failures
    /\ process[p].stage # "idle"
    /\ process' = [process EXCEPT ![p] = NoTask]
    /\ UNCHANGED <<log, runs, requests, started, damage, alerted, regrown>>

(* What the verification is there to detect: a row disappears, or its       *)
(* content changes under its hash.  Bound: not between the two reads of one *)
(* run, whose verdict would then be about two different logs.               *)
Damageable ==
    damage < MaxDamage /\ \A p \in Processes : process[p].stage # "headed"

LoseEntry(i) ==
    /\ Damageable
    /\ log' = RemoveAt(log, i)
    /\ damage' = damage + 1
    /\ UNCHANGED <<runs, process, requests, started, alerted, regrown>>

AlterEntry(i) ==
    /\ Damageable
    /\ log' = [log EXCEPT ![i].content = Altered]
    /\ damage' = damage + 1
    /\ UNCHANGED <<runs, process, requests, started, alerted, regrown>>

AuditNext ==
    \/ \E p \in Processes :
          \/ BeginAppend(p) \/ TakeLock(p) \/ ChainEntry(p) \/ CommitAppend(p)
          \/ BeginRun(p) \/ ReadHead(p) \/ Check(p) \/ Compare(p) \/ Record(p)
          \/ Alert(p) \/ Fail(p)
    \/ \E i \in DOMAIN log : LoseEntry(i) \/ AlterEntry(i)

AuditSpec == AuditInit /\ [][AuditNext]_auditVars
-----------------------------------------------------------------------------
(* Properties *)

(* A log nobody damaged is clean in every run, however much it grows while  *)
(* the run reads it.                                                        *)
NoFalseAlarm == damage = 0 => \A run \in runs : run.outcome = "clean"

(* A clean run vouches for the log: no entry was altered or taken from      *)
(* between, and the newest entry of the run before it is still there,       *)
(* unless the log, cut short in between, was appended to past that entry's  *)
(* number before anybody looked: all the head alone can tell (migration 9). *)
CleanRunVouches ==
    \A run \in runs : run.outcome = "clean" => run.intact /\ run.last # "lost"

-----------------------------------------------------------------------------
(* What the comments promise, and what only holds of a log nobody cuts short*)

(* The newest entry of the run before is there, with no exception.          *)
CleanRunKeepsHead == \A run \in runs : run.outcome = "clean" => run.last = "kept"

(* "The alert is the useful part, and it must happen": the log is not       *)
(* called clean again over a run nobody was told about.                     *)
AlarmIsRaised ==
    \A run \in runs :
        (run.outcome # "clean" /\ LastRun.outcome = "clean" /\ LastRun.at > run.at)
            => run.at \in alerted
=============================================================================
