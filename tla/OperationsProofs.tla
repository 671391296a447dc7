--------------------------- MODULE OperationsProofs ---------------------------
(***************************************************************************)
(* What an operator relies on, for constants of every size: the runs that  *)
(* verify an audit log (AuditChain.tla), and the commands that rotate the  *)
(* instance's keys (KeyRotation.tla, and the regime of MCKeyRotation.tla). *)
(*                                                                         *)
(* Audit.  Entries lie in the order of their numbers, and an entry is      *)
(* chained by one transaction at a time, the one past the advisory lock.   *)
(* Undamaged, the log has no break and holds the head of every run, so a   *)
(* run's head is never behind the last one's.  Damaged, an entry that a    *)
(* run saw last and the log has lost does not come back, so the next run   *)
(* is behind it, at its number with another hash, or past a gap, unless    *)
(* the log, shorter than it, has grown past its number.                    *)
(*                                                                         *)
(* Keys.  Whatever stamp is on disk, and whatever stamp a command is still *)
(* going to write, was read off the clock before the key that is now in    *)
(* the previous slot was moved there.  A stamp of an earlier rotation, or  *)
(* of one that overlaps, can only close the overlap sooner.                *)
(***************************************************************************)
EXTENDS MCKeyRotation, AuditChain, TLAPS

Newest(r) == r \in runs /\ \A s \in runs : s.at <= r.at

(* Runs are numbered in the order in which they begin, and what a process   *)
(* has for a run at each stage.                                             *)
Numbered ==
    /\ \A p \in Processes : process[p].run = NoRun \/ process[p].run.at \in 1..started
    /\ \A p \in Processes :
          process[p].stage \in {"verifying", "headed", "checked", "compared", "alerting"}
              => process[p].run # NoRun
    /\ \A p \in Processes : process[p].stage = "chained" => process[p].entry # NoEntry
    /\ \A run \in runs : run.at \in 1..started
    /\ runs = {} \/ \E r \in runs : Newest(r)

(* One transaction is past the advisory lock, one run is under way.         *)
OneChains ==
    \A p, q \in Processes :
        (process[p].stage \in {"locked", "chained"} /\ process[q].stage \in {"locked", "chained"})
            => p = q

OneRuns ==
    /\ \A p, q \in Processes : process[p].run # NoRun /\ process[q].run # NoRun => p = q
    /\ \A p \in Processes :
          process[p].stage \in {"verifying", "headed", "checked", "compared"}
              => \A s \in runs : s.at < process[p].run.at

(* The last link of an entry's hash is a content some request wrote.        *)
Vouched(entry) == entry.hash # <<>> /\ Last(entry.hash)[2] # Altered

(* Entries lie in the order of their numbers, and what is chained comes     *)
(* after them all.                                                          *)
Increasing(l) == \A i, j \in DOMAIN l : i < j => l[i].seq < l[j].seq

Ordered ==
    /\ Increasing(log)
    /\ \A i \in DOMAIN log : Vouched(log[i])
    /\ \A p \in Processes :
          /\ process[p].stage \in {"inserting", "locked"} => process[p].content # Altered
          /\ process[p].stage = "chained" =>
                /\ Vouched(process[p].entry)
                /\ \A i \in DOMAIN log : log[i].seq < process[p].entry.seq

(* A run that saw no entry saw no hash.                                     *)
Known == runs \cup {process[p].run : p \in Processes}

Started == \A run \in Known : run.head = 0 => run.hash = Genesis

(* An entry that a run saw last, the log does not hold and has grown past   *)
(* left its number unused.                                                  *)
Gone(l, run) == ~Holds(l, run) /\ HeadSeq(l) > run.head => \A i \in DOMAIN l : l[i].seq # run.head

(* The log was shorter than the run's head and has grown past it.           *)
Forgotten(run) == <<run.head, run.hash>> \in regrown

StaysGone == \A run \in Watched : Gone(log, run) \/ Forgotten(run)

(* Compare calls the log truncated.                                         *)
Lost(run) == MovedBackwards(run, LastRun) \/ Replaced(run, LastRun)

Seen(run) == run.last # "lost"

(* What each step of a run leaves for the next to find: the entry that the  *)
(* last run saw is there or overtaken, or a comparison or the check tells   *)
(* of its loss.                                                             *)
Judged ==
    /\ \A p \in Processes : LET run == process[p].run IN
          /\ process[p].stage = "headed" =>
                Seen(run) \/ Lost(run) \/ \E i \in DOMAIN log : log[i].seq # i
          /\ process[p].stage = "checked" =>
                /\ process[p].broken \/ run.intact
                /\ Seen(run) \/ Lost(run) \/ process[p].broken
          /\ process[p].stage = "compared" =>
                (run.outcome = "clean" => Seen(run) /\ run.intact)
    /\ CleanRunVouches

(* An undamaged log.                                                        *)
NotPast(run) ==
    /\ LastRun.head <= run.head
    /\ LastRun.head = run.head => LastRun.hash = run.hash

Whole ==
    /\ ~Broken(log)
    /\ \A run \in Known : Holds(log, run) /\ run.outcome = "clean"
    /\ \A p \in Processes :
          /\ ~process[p].broken
          /\ process[p].stage = "chained" =>
                process[p].entry = Chained(log, process[p].content)
          /\ process[p].stage \in {"headed", "checked"} => NotPast(process[p].run)

LogInv == AuditTypeOK /\ Numbered /\ OneChains /\ Ordered /\ Started
VouchInv == LogInv /\ OneRuns /\ StaysGone /\ Judged
WholeInv == LogInv /\ OneRuns /\ (damage = 0 => Whole)

-----------------------------------------------------------------------------
(* Types *)

LEMMA Heads ==
    ASSUME NEW l \in Seq(EntryType)
    PROVE  /\ HeadSeq(l) \in Nat /\ HeadHash(l) \in Hashes
           /\ l = <<>> => HeadSeq(l) = 0 /\ HeadHash(l) = Genesis
           /\ l # <<>> => /\ Len(l) \in DOMAIN l
                          /\ HeadSeq(l) = l[Len(l)].seq /\ HeadHash(l) = l[Len(l)].hash
  <1>1. Genesis \in Hashes
    BY DEF Genesis, Hashes
  <1>2. CASE l = <<>>
    BY <1>1, <1>2 DEF HeadSeq, HeadHash
  <1>3. CASE l # <<>>
    <2>1. Len(l) \in DOMAIN l
      BY <1>3
    <2>2. l[Len(l)] \in EntryType
      BY <2>1
    <2>. QED
      BY <1>3, <2>1, <2>2 DEF HeadSeq, HeadHash, Last, EntryType
  <1>. QED
    BY <1>2, <1>3

LEMMA ChainedEntry ==
    ASSUME NEW l \in Seq(EntryType), NEW content \in Contents
    PROVE  /\ Chained(l, content) \in EntryType
           /\ Chained(l, content).seq = HeadSeq(l) + 1
           /\ Chained(l, content).prev = HeadHash(l)
           /\ Chained(l, content).content = content
           /\ Chained(l, content).hash = Append(HeadHash(l), <<HeadSeq(l) + 1, content>>)
  <1>1. HeadSeq(l) + 1 \in Nat \ {0} /\ HeadHash(l) \in Hashes
    BY Heads
  <1>2. Append(HeadHash(l), <<HeadSeq(l) + 1, content>>) \in Hashes
    BY <1>1 DEF Hashes
  <1>. QED
    BY <1>1, <1>2 DEF Chained, HashOf, EntryType

LEMMA Grown ==
    ASSUME NEW l \in Seq(EntryType), NEW entry \in EntryType
    PROVE  /\ Append(l, entry) \in Seq(EntryType) /\ Append(l, entry) # <<>>
           /\ DOMAIN Append(l, entry) = (DOMAIN l) \cup {Len(l) + 1}
           /\ Len(Append(l, entry)) = Len(l) + 1 /\ Len(l) + 1 \notin DOMAIN l
           /\ \A i \in DOMAIN l : Append(l, entry)[i] = l[i] /\ i \in 1..Len(l)
           /\ Append(l, entry)[Len(l) + 1] = entry
  OBVIOUS

(* A log that lost its i-th entry: what is left keeps its order.            *)
LEMMA Shortened ==
    ASSUME NEW l \in Seq(EntryType), NEW i \in DOMAIN l
    PROVE  /\ RemoveAt(l, i) \in Seq(EntryType)
           /\ Len(RemoveAt(l, i)) = Len(l) - 1
           /\ DOMAIN RemoveAt(l, i) = 1..(Len(l) - 1)
           /\ \A j \in 1..(Len(l) - 1) :
                 /\ j \in DOMAIN l /\ j + 1 \in DOMAIN l
                 /\ RemoveAt(l, i)[j] = IF j < i THEN l[j] ELSE l[j + 1]
  <1>1. i \in 1..Len(l) /\ Len(l) \in Nat
    OBVIOUS
  <1>. DEFINE front == SubSeq(l, 1, i - 1)
              rear == SubSeq(l, i + 1, Len(l))
  <1>2. /\ front \in Seq(EntryType) /\ Len(front) = i - 1
        /\ \A j \in 1..(i - 1) : front[j] = l[j]
    BY <1>1
  <1>3. /\ rear \in Seq(EntryType) /\ Len(rear) = Len(l) - i
        /\ \A j \in 1..(Len(l) - i) : rear[j] = l[i + j]
    BY <1>1
  <1>4. RemoveAt(l, i) = front \o rear
    BY DEF RemoveAt
  <1>. HIDE DEF front, rear
  <1>5. /\ front \o rear \in Seq(EntryType) /\ Len(front \o rear) = Len(l) - 1
        /\ \A j \in 1..(Len(l) - 1) :
              (front \o rear)[j] = IF j <= i - 1 THEN front[j] ELSE rear[j - (i - 1)]
    BY <1>1, <1>2, <1>3
  <1>6. ASSUME NEW j \in 1..(Len(l) - 1)
        PROVE  /\ j \in DOMAIN l /\ j + 1 \in DOMAIN l
               /\ (front \o rear)[j] = IF j < i THEN l[j] ELSE l[j + 1]
    <2>1. /\ j \in Nat /\ i \in Nat /\ j \in DOMAIN l /\ j + 1 \in DOMAIN l
          /\ j <= i - 1 <=> j < i
      BY <1>1
    <2>2. CASE j < i
      BY <1>2, <1>5, <2>1, <2>2
    <2>3. CASE ~(j < i)
      <3>1. j - (i - 1) \in 1..(Len(l) - i) /\ i + (j - (i - 1)) = j + 1
        BY <1>1, <2>1, <2>3
      <3>2. rear[j - (i - 1)] = l[j + 1]
        BY <1>3, <3>1
      <3>. QED
        BY <1>5, <2>1, <2>3, <3>2
    <2>. QED
      BY <2>2, <2>3
  <1>7. DOMAIN (front \o rear) = 1..(Len(l) - 1)
    BY <1>5
  <1>. QED
    BY <1>4, <1>5, <1>6, <1>7

LEMMA AlteredEntry ==
    ASSUME NEW l \in Seq(EntryType), NEW i \in DOMAIN l
    PROVE  LET m == [l EXCEPT ![i].content = Altered] IN
           /\ m \in Seq(EntryType) /\ Len(m) = Len(l) /\ DOMAIN m = DOMAIN l
           /\ \A j \in DOMAIN l : m[j].seq = l[j].seq /\ m[j].hash = l[j].hash
  <1>1. l[i] \in EntryType /\ Altered \in Contents
    BY AuditChainAssumption DEF Contents, Altered
  <1>2. [l[i] EXCEPT !.content = Altered] \in EntryType
    BY <1>1 DEF EntryType
  <1>. QED
    BY <1>1, <1>2 DEF EntryType

LEMMA Idles ==
    /\ NoEntry \notin EntryType /\ NoRun \in RunType /\ NoTask \in ProcessType
    /\ NoRun.at = 0 /\ NoRun.head = 0 /\ NoRun.hash = Genesis /\ NoRun.outcome = "clean"
    /\ NoTask.stage = "idle" /\ NoTask.run = NoRun /\ NoTask.broken = FALSE
  BY AuditChainAssumption
     DEF NoEntry, EntryType, NoRun, RunType, NoTask, ProcessType, Stages, Hashes, Genesis,
         Outcomes, Contents, Altered

(* A task's record, when its stage and its run, entry or content change.    *)
LEMMA TaskTypes ==
    ASSUME NEW task \in ProcessType, NEW stage \in Stages
    PROVE  /\ [task EXCEPT !.stage = stage] \in ProcessType
           /\ \A entry \in EntryType \cup {NoEntry} :
                 [task EXCEPT !.stage = stage, !.entry = entry] \in ProcessType
           /\ \A content \in Contents :
                 [task EXCEPT !.stage = stage, !.content = content] \in ProcessType
           /\ \A content \in Contents, broken \in BOOLEAN :
                 [task EXCEPT !.stage = stage, !.content = content, !.broken = broken]
                    \in ProcessType
           /\ \A at \in Nat : [task EXCEPT !.stage = stage, !.run.at = at] \in ProcessType
           /\ \A head \in Nat, hash \in Hashes, last \in {"kept", "lost", "regrown"} :
                 [task EXCEPT !.stage = stage, !.run.head = head, !.run.hash = hash,
                              !.run.last = last] \in ProcessType
           /\ \A broken \in BOOLEAN, intact \in BOOLEAN :
                 [task EXCEPT !.stage = stage, !.broken = broken, !.run.intact = intact]
                    \in ProcessType
           /\ \A outcome \in Outcomes :
                 [task EXCEPT !.stage = stage, !.run.outcome = outcome] \in ProcessType
  BY DEF ProcessType, RunType

LEMMA LastIsNewest ==
    ASSUME Numbered
    PROVE  \/ runs = {} /\ LastRun = NoRun
           \/ Newest(LastRun)
  BY DEF Numbered, Newest, LastRun

LEMMA NextAuditTypeOK ==
    ASSUME AuditTypeOK, Numbered, [AuditNext]_auditVars
    PROVE  AuditTypeOK'
  <1>. USE AuditChainAssumption
  <1>t. /\ log \in Seq(EntryType) /\ runs \subseteq RunType
        /\ process \in [Processes -> ProcessType]
        /\ requests \in 0..MaxRequests /\ started \in 0..MaxRuns
        /\ damage \in 0..MaxDamage /\ alerted \subseteq 1..MaxRuns
        /\ regrown \subseteq Nat \X Hashes
        /\ \A p \in Processes : process[p].content \in Contents /\ process[p].run \in RunType
    BY DEF AuditTypeOK, ProcessType
  <1>1. ASSUME NEW p \in Processes, BeginAppend(p) PROVE AuditTypeOK'
    <2>1. requests + 1 \in Contents /\ "inserting" \in Stages
      BY <1>1, <1>t DEF BeginAppend, Contents, Stages
    <2>2. [NoTask EXCEPT !.stage = "inserting", !.content = requests + 1] \in ProcessType
      BY <2>1, Idles, TaskTypes
    <2>. QED
      BY <1>1, <1>t, <2>2 DEF BeginAppend, AuditTypeOK
  <1>2. ASSUME NEW p \in Processes, TakeLock(p) PROVE AuditTypeOK'
    <2>1. [process[p] EXCEPT !.stage = "locked"] \in ProcessType
      BY <1>t, TaskTypes DEF Stages
    <2>. QED
      BY <1>2, <1>t, <2>1 DEF TakeLock, AuditTypeOK
  <1>3. ASSUME NEW p \in Processes, ChainEntry(p) PROVE AuditTypeOK'
    <2>1. Chained(log, process[p].content) \in EntryType
      BY <1>t, ChainedEntry
    <2>2. [process[p] EXCEPT !.stage = "chained", !.entry = Chained(log, process[p].content)]
             \in ProcessType
      BY <1>t, <2>1, TaskTypes DEF Stages
    <2>. QED
      BY <1>3, <1>t, <2>2 DEF ChainEntry, AuditTypeOK
  <1>4. ASSUME NEW p \in Processes, CommitAppend(p) PROVE AuditTypeOK'
    <2>1. process[p].entry \in EntryType
      BY <1>4, <1>t DEF CommitAppend, Numbered, ProcessType
    <2>2. [process[p] EXCEPT !.stage = "alerting", !.entry = NoEntry] \in ProcessType
      BY <1>t, TaskTypes DEF Stages
    <2>3. Append(log, process[p].entry) \in Seq(EntryType)
      BY <1>t, <2>1, Grown
    <2>4. process' \in [Processes -> ProcessType]
      BY <1>4, <1>t, <2>2, Idles DEF CommitAppend
    <2>5. \A run \in Watched : <<run.head, run.hash>> \in Nat \X Hashes
      <3>1. \A run \in Watched : run \in RunType
        BY <1>4, <1>t, Idles, LastIsNewest DEF Watched, Newest
      <3>. QED
        BY <3>1 DEF RunType
    <2>6. regrown' \subseteq Nat \X Hashes
      <3>1. Overtaken(process[p].entry.seq) \subseteq Nat \X Hashes
        BY <2>5 DEF Overtaken
      <3>. QED
        BY <1>4, <1>t, <3>1 DEF CommitAppend
    <2>. QED
      BY <1>4, <1>t, <2>3, <2>4, <2>6 DEF CommitAppend, AuditTypeOK
  <1>5. ASSUME NEW p \in Processes, BeginRun(p) PROVE AuditTypeOK'
    <2>1. started + 1 \in Nat /\ "verifying" \in Stages /\ started + 1 \in 0..MaxRuns
      BY <1>5, <1>t DEF BeginRun, Stages
    <2>2. [NoTask EXCEPT !.stage = "verifying", !.run.at = started + 1] \in ProcessType
      BY <2>1, Idles, TaskTypes
    <2>. QED
      BY <1>5, <1>t, <2>1, <2>2 DEF BeginRun, AuditTypeOK
  <1>6. ASSUME NEW p \in Processes, ReadHead(p) PROVE AuditTypeOK'
    <2>1. HeadSeq(log) \in Nat /\ HeadHash(log) \in Hashes 
          /\ SeenOfLast \in {"kept", "lost", "regrown"}
      BY <1>t, Heads DEF SeenOfLast
    <2>2. [process[p] EXCEPT !.stage = "headed", !.run.head = HeadSeq(log),
              !.run.hash = HeadHash(log), !.run.last = SeenOfLast] \in ProcessType
      BY <1>t, <2>1, TaskTypes DEF Stages
    <2>. QED
      BY <1>6, <1>t, <2>2 DEF ReadHead, AuditTypeOK
  <1>7. ASSUME NEW p \in Processes, Check(p) PROVE AuditTypeOK'
    <2>1. Broken(log) \in BOOLEAN
      BY DEF Broken
    <2>2. [process[p] EXCEPT !.stage = "checked", !.broken = Broken(log),
              !.run.intact = \A i \in DOMAIN log : log[i].seq = i /\ log[i].content # Altered]
             \in ProcessType
      BY <1>t, <2>1, TaskTypes DEF Stages
    <2>. QED
      BY <1>7, <1>t, <2>2 DEF Check, AuditTypeOK
  <1>8. ASSUME NEW p \in Processes, Compare(p) PROVE AuditTypeOK'
    <2>. DEFINE verdict == IF process[p].broken THEN "broken"
                           ELSE IF MovedBackwards(process[p].run, LastRun)
                                   \/ Replaced(process[p].run, LastRun) THEN "truncated"
                           ELSE "clean"
    <2>1. verdict \in Outcomes
      BY DEF Outcomes
    <2>. HIDE DEF verdict
    <2>2. [process[p] EXCEPT !.stage = "compared", !.run.outcome = verdict] \in ProcessType
      BY <1>t, <2>1, TaskTypes DEF Stages
    <2>. QED
      BY <1>8, <1>t, <2>2 DEF Compare, AuditTypeOK, verdict
  <1>9. ASSUME NEW p \in Processes, Record(p) PROVE AuditTypeOK'
    <2>1. process[p].run \in RunType /\ process[p].run.at \in 1..started
      BY <1>9, <1>t DEF Record, Numbered
    <2>2. MaxRequests + process[p].run.at \in Contents
      BY <1>t, <2>1 DEF Contents
    <2>3. [process[p] EXCEPT !.stage = "inserting",
              !.content = MaxRequests + process[p].run.at, !.broken = FALSE] \in ProcessType
      BY <1>t, <2>2, TaskTypes DEF Stages
    <2>. QED
      BY <1>9, <1>t, <2>1, <2>3 DEF Record, AuditTypeOK
  <1>10. ASSUME NEW p \in Processes, Alert(p) PROVE AuditTypeOK'
    <2>1. process[p].run.at \in 1..MaxRuns
      BY <1>10, <1>t DEF Alert, Numbered
    <2>. QED
      BY <1>10, <1>t, <2>1, Idles DEF Alert, AuditTypeOK
  <1>11. ASSUME NEW p \in Processes, Fail(p) PROVE AuditTypeOK'
    BY <1>11, <1>t, Idles DEF Fail, AuditTypeOK
  <1>12. ASSUME NEW i \in DOMAIN log, LoseEntry(i) PROVE AuditTypeOK'
    <2>1. RemoveAt(log, i) \in Seq(EntryType)
      BY <1>t, Shortened
    <2>. QED
      BY <1>12, <1>t, <2>1 DEF LoseEntry, Damageable, AuditTypeOK
  <1>13. ASSUME NEW i \in DOMAIN log, AlterEntry(i) PROVE AuditTypeOK'
    <2>1. [log EXCEPT ![i].content = Altered] \in Seq(EntryType)
      BY <1>t, AlteredEntry
    <2>. QED
      BY <1>13, <1>t, <2>1 DEF AlterEntry, Damageable, AuditTypeOK
  <1>14. CASE UNCHANGED auditVars
    BY <1>t, <1>14 DEF AuditTypeOK, auditVars
  <1>. QED
    BY <1>1, <1>2, <1>3, <1>4, <1>5, <1>6, <1>7, <1>8, <1>9, <1>10, <1>11, <1>12, <1>13,
       <1>14 DEF AuditNext

LEMMA NextNumbered ==
    ASSUME AuditTypeOK, Numbered, [AuditNext]_auditVars
    PROVE  Numbered'
  <1>. USE AuditChainAssumption
  <1>t. /\ runs \subseteq RunType /\ process \in [Processes -> ProcessType]
        /\ started \in 0..MaxRuns /\ log \in Seq(EntryType)
        /\ \A p \in Processes : process[p].content \in Contents /\ process[p].run \in RunType
        /\ \A run \in RunType : run.at \in Nat
    BY DEF AuditTypeOK, ProcessType, RunType
  <1>n. UNCHANGED runs => (runs = {} \/ \E r \in runs : Newest(r))'
    BY DEF Numbered, Newest
  <1>1. ASSUME NEW p \in Processes, BeginAppend(p) PROVE Numbered'
    BY <1>1, <1>t, <1>n, Idles DEF BeginAppend, Numbered, NoTask
  <1>2. ASSUME NEW p \in Processes, TakeLock(p) PROVE Numbered'
    BY <1>2, <1>t, <1>n DEF TakeLock, Numbered, ProcessType
  <1>3. ASSUME NEW p \in Processes, ChainEntry(p) PROVE Numbered'
    <2>1. Chained(log, process[p].content) # NoEntry
      BY <1>t, ChainedEntry, Idles
    <2>. QED
      BY <1>3, <1>t, <1>n, <2>1 DEF ChainEntry, Numbered, ProcessType
  <1>4. ASSUME NEW p \in Processes, CommitAppend(p) PROVE Numbered'
    BY <1>4, <1>t, <1>n, Idles DEF CommitAppend, Numbered, ProcessType
  <1>5. ASSUME NEW p \in Processes, BeginRun(p) PROVE Numbered'
    <2>1. /\ started' = started + 1 /\ started' \in 1..started'
          /\ \A n \in 1..started : n \in 1..started'
      BY <1>5, <1>t DEF BeginRun
    <2>2. process'[p].run.at = started' /\ process'[p].run # NoRun
      BY <1>5, <1>t, <2>1, Idles DEF BeginRun, NoTask, NoRun
    <2>3. process'[p].stage = "verifying"
      BY <1>5, <1>t, <2>1, Idles DEF BeginRun, NoTask
    <2>4. \A q \in Processes : q # p => process'[q] = process[q]
      BY <1>5, <1>t DEF BeginRun
    <2>5. UNCHANGED runs
      BY <1>5 DEF BeginRun
    <2>. QED
      BY <1>t, <1>n, <2>1, <2>2, <2>3, <2>4, <2>5 DEF Numbered
  <1>6. ASSUME NEW p \in Processes, ReadHead(p) PROVE Numbered'
    <2>1. process[p].run.at \in 1..started
      BY <1>6, <1>t DEF ReadHead, Numbered
    <2>2. process'[p].run.at = process[p].run.at /\ process'[p].stage = "headed"
      BY <1>6, <1>t DEF ReadHead, ProcessType, RunType
    <2>3. process'[p].run # NoRun
      BY <1>t, <2>1, <2>2, Idles
    <2>4. \A q \in Processes : q # p => process'[q] = process[q]
      BY <1>6, <1>t DEF ReadHead
    <2>5. UNCHANGED <<runs, started>>
      BY <1>6 DEF ReadHead
    <2>. QED
      BY <1>t, <1>n, <2>1, <2>2, <2>3, <2>4, <2>5 DEF Numbered
  <1>7. ASSUME NEW p \in Processes, Check(p) PROVE Numbered'
    BY <1>7, <1>t, <1>n, Idles DEF Check, Numbered, ProcessType, RunType
  <1>8. ASSUME NEW p \in Processes, Compare(p) PROVE Numbered'
    <2>1. process[p].run.at \in 1..started
      BY <1>8, <1>t DEF Compare, Numbered
    <2>2. process'[p].run.at = process[p].run.at /\ process'[p].stage = "compared"
      BY <1>8, <1>t DEF Compare, ProcessType, RunType
    <2>3. process'[p].run # NoRun
      BY <1>t, <2>1, <2>2, Idles
    <2>4. \A q \in Processes : q # p => process'[q] = process[q]
      BY <1>8, <1>t DEF Compare
    <2>5. UNCHANGED <<runs, started>>
      BY <1>8 DEF Compare
    <2>. QED
      BY <1>t, <1>n, <2>1, <2>2, <2>3, <2>4, <2>5 DEF Numbered
  <1>9. ASSUME NEW p \in Processes, Record(p) PROVE Numbered'
    <2>1. process[p].run.at \in 1..started
      BY <1>9, <1>t DEF Record, Numbered
    <2>2. \E r \in runs' : Newest(r)'
      <3>. DEFINE run == process[p].run
      <3>1. CASE runs = {}
        BY <1>9, <3>1, <1>t DEF Record, Newest
      <3>2. ASSUME NEW r \in runs, Newest(r) PROVE \E s \in runs' : Newest(s)'
        <4>1. run.at \in Nat /\ r.at \in Nat /\ \A s \in runs : s.at \in Nat
          BY <1>t, <3>2
        <4>2. CASE run.at <= r.at
          BY <1>9, <3>2, <4>1, <4>2 DEF Record, Newest
        <4>3. CASE r.at <= run.at
          BY <1>9, <3>2, <4>1, <4>3 DEF Record, Newest
        <4>. QED
          BY <4>1, <4>2, <4>3
      <3>. QED
        BY <3>1, <3>2 DEF Numbered
    <2>. QED
      BY <1>9, <1>t, <2>1, <2>2 DEF Record, Numbered, ProcessType
  <1>10. ASSUME NEW p \in Processes, Alert(p) PROVE Numbered'
    BY <1>10, <1>t, <1>n, Idles DEF Alert, Numbered
  <1>11. ASSUME NEW p \in Processes, Fail(p) PROVE Numbered'
    BY <1>11, <1>t, <1>n, Idles DEF Fail, Numbered
  <1>12. CASE UNCHANGED <<runs, process, started>>
    BY <1>12, <1>n DEF Numbered
  <1>. QED
    BY <1>1, <1>2, <1>3, <1>4, <1>5, <1>6, <1>7, <1>8, <1>9, <1>10, <1>11, <1>12
       DEF AuditNext, auditVars, LoseEntry, AlterEntry

-----------------------------------------------------------------------------
(* One transaction chains, one run is under way *)

Step(p) ==
    \/ BeginAppend(p) \/ TakeLock(p) \/ ChainEntry(p) \/ CommitAppend(p)
    \/ BeginRun(p) \/ ReadHead(p) \/ Check(p) \/ Compare(p) \/ Record(p)
    \/ Alert(p) \/ Fail(p)

(* A step of a process leaves what the others are doing.                    *)
LEMMA OthersStay ==
    ASSUME AuditTypeOK, NEW p \in Processes, Step(p)
    PROVE  \A q \in Processes : q # p => process'[q] = process[q]
  BY DEF AuditTypeOK, Step, BeginAppend, TakeLock, ChainEntry, CommitAppend, BeginRun,
         ReadHead, Check, Compare, Record, Alert, Fail

LEMMA NextOneChains ==
    ASSUME AuditTypeOK, OneChains, [AuditNext]_auditVars
    PROVE  OneChains'
  <1>. DEFINE Past(p) == process[p].stage \in {"locked", "chained"}
  <1>t. process \in [Processes -> ProcessType]
    BY DEF AuditTypeOK
  <1>1. ASSUME NEW p \in Processes, TakeLock(p) PROVE OneChains'
    BY <1>1, <1>t DEF TakeLock, LockFree, OneChains
  <1>2. ASSUME NEW p \in Processes, Step(p), ~TakeLock(p) PROVE Past(p)' => Past(p)
    <2>1. CASE ChainEntry(p)
      BY <2>1 DEF ChainEntry
    <2>2. CASE BeginAppend(p) \/ BeginRun(p) \/ Alert(p) \/ Fail(p)
      <3>1. process'[p].stage \in {"inserting", "verifying", "idle"}
        BY <2>2, <1>t, Idles DEF BeginAppend, BeginRun, Alert, Fail, NoTask
      <3>. QED
        BY <3>1
    <2>3. CASE CommitAppend(p)
      <3>1. process'[p].stage \in {"idle", "alerting"}
        BY <2>3, <1>t, Idles DEF CommitAppend, ProcessType
      <3>. QED
        BY <3>1
    <2>4. CASE ReadHead(p) \/ Check(p) \/ Compare(p) \/ Record(p)
      <3>1. process'[p].stage \in {"headed", "checked", "compared", "inserting"}
        BY <2>4, <1>t DEF ReadHead, Check, Compare, Record, ProcessType
      <3>. QED
        BY <3>1
    <2>. QED
      BY <1>2, <2>1, <2>2, <2>3, <2>4 DEF Step
  <1>3. ASSUME NEW p \in Processes, Step(p), ~TakeLock(p) PROVE OneChains'
    <2>1. \A q \in Processes : Past(q)' => Past(q)
      BY <1>2, <1>3, OthersStay
    <2>. QED
      BY <2>1 DEF OneChains
  <1>4. CASE UNCHANGED process
    BY <1>4 DEF OneChains
  <1>. QED
    BY <1>1, <1>3, <1>4 DEF AuditNext, auditVars, Step, LoseEntry, AlterEntry

(* What a run has seen of the log is what it read, or what it had seen.     *)
LEMMA RunsSaw ==
    ASSUME AuditTypeOK, [AuditNext]_auditVars, NEW q \in Processes
    PROVE  \/ /\ ReadHead(q) /\ UNCHANGED <<log, runs>>
              /\ process'[q].run.head = HeadSeq(log) /\ process'[q].run.hash = HeadHash(log)
           \/ process'[q].run.head = 0 /\ process'[q].run.hash = Genesis
           \/ /\ process'[q].run.head = process[q].run.head
              /\ process'[q].run.hash = process[q].run.hash
  <1>t. process \in [Processes -> ProcessType]
    BY DEF AuditTypeOK
  <1>1. CASE ReadHead(q)
    BY <1>1, <1>t DEF ReadHead, ProcessType, RunType
  <1>2. CASE Step(q) /\ ~ReadHead(q)
    <2>1. CASE TakeLock(q) \/ ChainEntry(q) \/ Record(q)
      <3>1. process'[q].run = process[q].run
        BY <2>1, <1>t DEF TakeLock, ChainEntry, Record, ProcessType
      <3>. QED
        BY <3>1
    <2>2. CASE BeginAppend(q) \/ CommitAppend(q) \/ Alert(q) \/ Fail(q)
      <3>1. CASE CommitAppend(q)
        <4>1. process'[q].run \in {NoRun, process[q].run}
          BY <3>1, <1>t, Idles DEF CommitAppend, ProcessType
        <4>. QED
          BY <4>1, Idles
      <3>2. CASE BeginAppend(q) \/ Alert(q) \/ Fail(q)
        <4>1. process'[q].run = NoRun
          BY <3>2, <1>t, Idles DEF BeginAppend, Alert, Fail, NoTask
        <4>. QED
          BY <4>1, Idles
      <3>. QED
        BY <2>2, <3>1, <3>2
    <2>3. CASE BeginRun(q)
      <3>1. process'[q].run.head = NoRun.head /\ process'[q].run.hash = NoRun.hash
        BY <2>3, <1>t, Idles DEF BeginRun, NoTask, NoRun
      <3>. QED
        BY <3>1, Idles
    <2>4. CASE Check(q)
      BY <2>4, <1>t DEF Check, ProcessType, RunType
    <2>5. CASE Compare(q)
      BY <2>5, <1>t DEF Compare, ProcessType, RunType
    <2>. QED
      BY <1>2, <2>1, <2>2, <2>3, <2>4, <2>5 DEF Step
  <1>3. ASSUME NEW p \in Processes, Step(p), p # q PROVE process'[q] = process[q]
    BY <1>3, OthersStay
  <1>4. CASE UNCHANGED process
    BY <1>4
  <1>. QED
    BY <1>1, <1>2, <1>3, <1>4 DEF AuditNext, auditVars, Step, LoseEntry, AlterEntry

LEMMA RunsRecorded ==
    ASSUME [AuditNext]_auditVars
    PROVE  \/ UNCHANGED runs
           \/ \E p \in Processes : Record(p) /\ runs' = runs \cup {process[p].run}
  BY DEF AuditNext, auditVars, BeginAppend, TakeLock, ChainEntry, CommitAppend, BeginRun,
         ReadHead, Check, Compare, Record, Alert, Fail, LoseEntry, AlterEntry

LEMMA NextOneRuns ==
    ASSUME ~Overlapping, AuditTypeOK, Numbered, OneRuns, [AuditNext]_auditVars
    PROVE  OneRuns'
  <1>. DEFINE Under(p) == process[p].run # NoRun
              Open(p) == process[p].stage \in {"verifying", "headed", "checked", "compared"}
  <1>t. process \in [Processes -> ProcessType] /\ runs \subseteq RunType /\ started \in Nat
    BY AuditChainAssumption DEF AuditTypeOK
  <1>1. ASSUME NEW p \in Processes, BeginRun(p) PROVE OneRuns'
    <2>1. \A q \in Processes : ~Under(q)
      BY <1>1 DEF BeginRun
    <2>2. \A q \in Processes : q # p => process'[q] = process[q]
      BY <1>1, OthersStay DEF Step
    <2>3. \A q \in Processes : q # p => ~Under(q)' /\ ~Open(q)'
      BY <2>1, <2>2 DEF Numbered
    <2>4. process'[p].run.at = started + 1 /\ UNCHANGED runs
      BY <1>1, <1>t, Idles DEF BeginRun, NoTask, NoRun
    <2>5. \A s \in runs : s.at < started + 1
      BY <1>t DEF Numbered
    <2>. QED
      BY <2>3, <2>4, <2>5 DEF OneRuns
  <1>u. \A p \in Processes : Open(p) => Under(p)
    BY DEF Numbered
  <1>2. ASSUME NEW p \in Processes, Step(p), ~BeginRun(p)
        PROVE  /\ Under(p)' => Under(p)
               /\ Open(p)' => (Open(p) /\ process'[p].run.at = process[p].run.at)
               /\ Record(p) => ~Open(p)'
    <2>1. CASE ReadHead(p)
      <3>1. Open(p) /\ ~Record(p)
        BY <2>1 DEF ReadHead, Record
      <3>2. process'[p].run.at = process[p].run.at
        BY <2>1, <1>t DEF ReadHead, ProcessType, RunType
      <3>. QED
        BY <1>u, <3>1, <3>2
    <2>2. CASE Check(p)
      <3>1. Open(p) /\ ~Record(p)
        BY <2>2 DEF Check, Record
      <3>2. process'[p].run.at = process[p].run.at
        BY <2>2, <1>t DEF Check, ProcessType, RunType
      <3>. QED
        BY <1>u, <3>1, <3>2
    <2>3. CASE Compare(p)
      <3>1. Open(p) /\ ~Record(p)
        BY <2>3 DEF Compare, Record
      <3>2. process'[p].run.at = process[p].run.at
        BY <2>3, <1>t DEF Compare, ProcessType, RunType
      <3>. QED
        BY <1>u, <3>1, <3>2
    <2>4. CASE TakeLock(p) \/ ChainEntry(p) \/ Record(p)
      <3>1. process'[p].run = process[p].run
        BY <2>4, <1>t DEF TakeLock, ChainEntry, Record, ProcessType
      <3>2. process'[p].stage \in {"locked", "chained", "inserting"}
        BY <2>4, <1>t DEF TakeLock, ChainEntry, Record, ProcessType
      <3>. QED
        BY <3>1, <3>2
    <2>5. CASE CommitAppend(p)
      <3>1. process'[p].run \in {process[p].run, NoRun}
        BY <2>5, <1>t, Idles DEF CommitAppend, ProcessType
      <3>2. process'[p].stage \in {"idle", "alerting"} /\ ~Record(p)
        BY <2>5, <1>t, Idles DEF CommitAppend, ProcessType, Record
      <3>. QED
        BY <3>1, <3>2
    <2>6. CASE BeginAppend(p) \/ Alert(p) \/ Fail(p)
      <3>1. process'[p].run = NoRun
        BY <2>6, <1>t, Idles DEF BeginAppend, Alert, Fail, NoTask
      <3>2. process'[p].stage \in {"idle", "inserting"}
        BY <2>6, <1>t, Idles DEF BeginAppend, Alert, Fail, NoTask
      <3>. QED
        BY <3>1, <3>2
    <2>. QED
      BY <1>2, <2>1, <2>2, <2>3, <2>4, <2>5, <2>6 DEF Step
  <1>3. ASSUME NEW p \in Processes, Step(p), ~BeginRun(p) PROVE OneRuns'
    <2>1. \A q \in Processes : q # p => process'[q] = process[q]
      BY <1>3, OthersStay
    <2>2. \A q \in Processes : /\ Under(q)' => Under(q)
                               /\ Open(q)' => /\ Open(q) /\ process'[q].run.at = process[q].run.at
      BY <1>2, <1>3, <2>1
    <2>3. CASE UNCHANGED runs
      BY <2>2, <2>3 DEF OneRuns
    <2>4. CASE Record(p)
      <3>1. Under(p)
        BY <2>4 DEF Record, Numbered
      <3>2. \A q \in Processes : ~Open(q)'
        BY <1>2, <1>3, <2>2, <2>4, <3>1 DEF OneRuns, Numbered
      <3>. QED
        BY <2>2, <3>2 DEF OneRuns
    <2>. QED
      BY <1>3, <2>3, <2>4 DEF Step, BeginAppend, TakeLock, ChainEntry, CommitAppend,
         ReadHead, Check, Compare, Alert, Fail
  <1>4. CASE UNCHANGED <<process, runs>>
    BY <1>4 DEF OneRuns
  <1>. QED
    BY <1>1, <1>3, <1>4 DEF AuditNext, auditVars, Step, LoseEntry, AlterEntry

(* The run that is recorded is the one the next is compared with.           *)
LEMMA RecordedIsLast ==
    ASSUME AuditTypeOK, Numbered, OneRuns, NEW p \in Processes, Record(p)
    PROVE  LastRun' = process[p].run
  <1>. DEFINE run == process[p].run
  <1>1. runs' = runs \cup {run} /\ \A s \in runs : s.at < run.at
    BY DEF Record, OneRuns
  <1>2. run.at \in Nat /\ \A s \in runs : s.at \in Nat
    BY DEF AuditTypeOK, ProcessType, RunType
  <1>. HIDE DEF run
  <1>3. runs' # {} /\ run \in runs' /\ \A s \in runs' : s.at <= run.at
    BY <1>1, <1>2
  <1>4. \A r \in runs' : (\A s \in runs' : s.at <= r.at) => r = run
    BY <1>1, <1>2, <1>3
  <1>5. LastRun' = CHOOSE r \in runs' : \A s \in runs' : s.at <= r.at
    BY <1>3 DEF LastRun
  <1>. QED
    BY <1>3, <1>4, <1>5 DEF run

-----------------------------------------------------------------------------
(* The order of the log, and what a step does to it *)

(* The log of a step: it grows by what a process chained, shrinks by one    *)
(* entry, has one altered, or stays.                                        *)
LEMMA LogSteps ==
    ASSUME [AuditNext]_auditVars
    PROVE  \/ \E p \in Processes : CommitAppend(p)
           \/ \E i \in DOMAIN log : LoseEntry(i)
           \/ \E i \in DOMAIN log : AlterEntry(i)
           \/ UNCHANGED log /\ \A p \in Processes : ~CommitAppend(p)
  <1>1. CASE \E p \in Processes : Step(p)
    BY <1>1 DEF Step, BeginAppend, TakeLock, ChainEntry, BeginRun, ReadHead, Check, Compare,
                Record, Alert, Fail, CommitAppend
  <1>2. CASE UNCHANGED auditVars /\ \A p \in Processes : ~CommitAppend(p)
    BY <1>2 DEF auditVars
  <1>. QED
    BY <1>1, <1>2 DEF AuditNext, Step

(* The last entry of an increasing log bears its largest number.            *)
LEMMA HeadIsLargest ==
    ASSUME NEW l \in Seq(EntryType), Increasing(l)
    PROVE  \A i \in DOMAIN l : l[i].seq <= HeadSeq(l) /\ l # <<>>
  <1>. SUFFICES ASSUME NEW i \in DOMAIN l PROVE l[i].seq <= HeadSeq(l) /\ l # <<>>
    OBVIOUS
  <1>1. l # <<>> /\ i \in 1..Len(l) /\ Len(l) \in Nat
    OBVIOUS
  <1>2. Len(l) \in DOMAIN l /\ HeadSeq(l) = l[Len(l)].seq
    BY <1>1, Heads
  <1>3. l[i].seq \in Nat /\ l[Len(l)].seq \in Nat
    <2>1. l[i] \in EntryType /\ l[Len(l)] \in EntryType
      BY <1>2
    <2>. QED
      BY <2>1 DEF EntryType
  <1>4. CASE i = Len(l)
    BY <1>1, <1>2, <1>3, <1>4
  <1>5. CASE i < Len(l)
    BY <1>1, <1>2, <1>3, <1>5 DEF Increasing
  <1>. QED
    BY <1>1, <1>4, <1>5

LEMMA ChainedIsVouched ==
    ASSUME NEW l \in Seq(EntryType), NEW content \in Contents, content # Altered
    PROVE  Vouched(Chained(l, content))
  <1>. DEFINE n == HeadSeq(l) + 1
              link == <<n, content>>
              hash == Append(HeadHash(l), link)
  <1>1. HeadHash(l) \in Seq(Nat \X Contents) /\ link \in Nat \X Contents
    BY Heads DEF Hashes
  <1>2. hash # <<>> /\ Last(hash) = link
    <2>. HIDE DEF link
    <2>. QED
      BY <1>1 DEF Last
  <1>3. Chained(l, content).hash = hash
    BY ChainedEntry
  <1>. QED
    BY <1>2, <1>3 DEF Vouched

(* A process comes to hold an entry by chaining it.                          *)
LEMMA OnlyChained ==
    ASSUME AuditTypeOK, NEW q \in Processes, Step(q), ~ChainEntry(q)
    PROVE  process'[q].stage # "chained"
  <1>t. process \in [Processes -> ProcessType]
    BY DEF AuditTypeOK
  <1>1. CASE BeginAppend(q) \/ BeginRun(q) \/ Alert(q) \/ Fail(q)
    <2>1. process'[q].stage \in {"inserting", "verifying", "idle"}
      BY <1>t, <1>1, Idles DEF BeginAppend, BeginRun, Alert, Fail, NoTask
    <2>. QED
      BY <2>1
  <1>2. CASE TakeLock(q) \/ ReadHead(q) \/ Check(q) \/ Compare(q) \/ Record(q)
    <2>1. process'[q].stage \in {"locked", "headed", "checked", "compared", "inserting"}
      BY <1>t, <1>2 DEF TakeLock, ReadHead, Check, Compare, Record, ProcessType
    <2>. QED
      BY <2>1
  <1>3. CASE CommitAppend(q)
    <2>1. process'[q].stage \in {"idle", "alerting"}
      BY <1>t, <1>3, Idles DEF CommitAppend, ProcessType
    <2>. QED
      BY <2>1
  <1>. QED
    BY <1>1, <1>2, <1>3 DEF Step

(* Entries are appended in the order of their numbers, whatever was lost.   *)
LEMMA NextOrdered ==
    ASSUME AuditTypeOK, Numbered, OneChains, Ordered, [AuditNext]_auditVars
    PROVE  Ordered'
  <1>. USE AuditChainAssumption
  <1>. DEFINE Writes(p) ==
         /\ process[p].stage \in {"inserting", "locked"} => process[p].content # Altered
         /\ process[p].stage = "chained" => Vouched(process[p].entry)
              Rows(l) == Increasing(l) /\ \A i \in DOMAIN l : Vouched(l[i])
              Ahead(p) == process[p].stage = "chained" =>
                             \A i \in DOMAIN log : log[i].seq < process[p].entry.seq
  <1>t. /\ process \in [Processes -> ProcessType] /\ log \in Seq(EntryType)
        /\ \A p \in Processes : process[p].content \in Contents
        /\ requests \in Nat /\ MaxRequests \in Nat /\ started \in Nat
    BY DEF AuditTypeOK, ProcessType
  <1>s. \A i \in DOMAIN log : log[i].seq \in Nat
    <2>1. \A i \in DOMAIN log : log[i] \in EntryType
      BY <1>t
    <2>. QED
      BY <2>1 DEF EntryType
  <1>o. Ordered <=> Rows(log) /\ \A p \in Processes : Writes(p) /\ Ahead(p)
    BY DEF Ordered
  <1>p. Ordered' <=> Rows(log') /\ \A p \in Processes : Writes(p)' /\ Ahead(p)'
    BY DEF Ordered
  <1>1. ASSUME NEW p \in Processes, Step(p) PROVE Writes(p)'
    <2>1. CASE BeginAppend(p)
      <3>1. process'[p].stage = "inserting" /\ process'[p].content = requests + 1
        BY <2>1, <1>t, Idles DEF BeginAppend, NoTask
      <3>. QED
        BY <1>t, <3>1 DEF Altered
    <2>2. CASE TakeLock(p)
      <3>1. /\ process'[p].stage = "locked" /\ process'[p].content = process[p].content
            /\ process[p].stage = "inserting"
        BY <2>2, <1>t DEF TakeLock, ProcessType
      <3>. QED
        BY <1>o, <3>1
    <2>3. CASE ChainEntry(p)
      <3>1. /\ process'[p].stage = "chained" /\ process[p].stage = "locked"
            /\ process'[p].entry = Chained(log, process[p].content)
        BY <2>3, <1>t DEF ChainEntry, ProcessType
      <3>2. Vouched(Chained(log, process[p].content))
        BY <1>o, <1>t, <3>1, ChainedIsVouched
      <3>3. Vouched(process'[p].entry) <=> Vouched(Chained(log, process[p].content))
        BY <3>1
      <3>. QED
        BY <3>1, <3>2, <3>3
    <2>4. CASE Record(p)
      <3>1. process[p].run.at \in 1..started
        BY <2>4, <1>t DEF Record, Numbered
      <3>2. /\ process'[p].stage = "inserting"
            /\ process'[p].content = MaxRequests + process[p].run.at
        BY <2>4, <1>t DEF Record, ProcessType
      <3>. QED
        BY <1>t, <3>1, <3>2 DEF Altered
    <2>5. CASE BeginRun(p) \/ Alert(p) \/ Fail(p)
      <3>1. process'[p].stage \in {"verifying", "idle"}
        BY <2>5, <1>t, Idles DEF BeginRun, Alert, Fail, NoTask
      <3>. QED
        BY <3>1
    <2>6. CASE CommitAppend(p)
      <3>1. process'[p].stage \in {"idle", "alerting"}
        BY <2>6, <1>t, Idles DEF CommitAppend, ProcessType
      <3>. QED
        BY <3>1
    <2>7. CASE ReadHead(p) \/ Check(p) \/ Compare(p)
      <3>1. process'[p].stage \in {"headed", "checked", "compared"}
        BY <2>7, <1>t DEF ReadHead, Check, Compare, ProcessType
      <3>. QED
        BY <3>1
    <2>. QED
      BY <1>1, <2>1, <2>2, <2>3, <2>4, <2>5, <2>6, <2>7 DEF Step
  <1>2. \A q \in Processes : Writes(q)'
    <2>1. ASSUME NEW q \in Processes, process'[q] = process[q] PROVE Writes(q)'
      BY <1>o, <2>1 DEF Vouched
    <2>2. ASSUME NEW p \in Processes, Step(p) PROVE \A q \in Processes : Writes(q)'
      BY <1>1, <2>1, <2>2, OthersStay
    <2>. QED
      BY <2>1, <2>2 DEF AuditNext, auditVars, Step, LoseEntry, AlterEntry
  <1>3. ASSUME NEW p \in Processes, CommitAppend(p) PROVE Ordered'
    <2>. DEFINE entry == process[p].entry
    <2>1. /\ process[p].stage = "chained" /\ log' = Append(log, entry)
          /\ entry \in EntryType /\ Vouched(entry)
          /\ \A i \in DOMAIN log : log[i].seq < entry.seq
      BY <1>3, <1>t, <1>o DEF CommitAppend, Numbered, ProcessType
    <2>. HIDE DEF entry
    <2>2. Rows(log')
      <3>. DEFINE last == Len(log) + 1
      <3>1. /\ DOMAIN log' = DOMAIN log \cup {last} /\ last \notin DOMAIN log
            /\ log'[last] = entry /\ last \in Nat
            /\ \A i \in DOMAIN log : log'[i] = log[i] /\ i \in 1..Len(log)
        BY <1>t, <2>1, Grown
      <3>2. \A i \in DOMAIN log' : Vouched(log'[i])
        BY <1>o, <2>1, <3>1
      <3>3. \A i \in DOMAIN log : i < last
        BY <1>t, <3>1
      <3>. HIDE DEF last
      <3>4. ASSUME NEW i \in DOMAIN log', NEW j \in DOMAIN log', i < j
            PROVE  log'[i].seq < log'[j].seq
        <4>1. i \in DOMAIN log
          BY <3>1, <3>3, <3>4
        <4>2. CASE j \in DOMAIN log
          BY <1>o, <3>1, <3>4, <4>1, <4>2 DEF Increasing
        <4>3. CASE j = last
          BY <2>1, <3>1, <4>1, <4>3
        <4>. QED
          BY <3>1, <4>2, <4>3
      <3>. QED
        BY <3>2, <3>4 DEF Increasing
    <2>3. \A q \in Processes : process'[q].stage # "chained"
      <3>1. process'[p].stage \in {"idle", "alerting"}
        BY <1>3, <1>t, Idles DEF CommitAppend, ProcessType
      <3>2. \A q \in Processes : q # p => process'[q] = process[q] /\ process[q].stage # "chained"
        BY <1>3, <2>1, OthersStay DEF Step, OneChains
      <3>. QED
        BY <3>1, <3>2
    <2>. QED
      BY <1>p, <1>2, <2>2, <2>3
  <1>4. ASSUME NEW i \in DOMAIN log, LoseEntry(i) PROVE Ordered'
    <2>1. /\ log' = RemoveAt(log, i) /\ UNCHANGED process
          /\ DOMAIN log' = 1..(Len(log) - 1) /\ i \in Nat
          /\ \A j \in 1..(Len(log) - 1) :
                /\ j \in DOMAIN log /\ j + 1 \in DOMAIN log
                /\ log'[j] = IF j < i THEN log[j] ELSE log[j + 1]
      BY <1>4, <1>t, Shortened DEF LoseEntry
    <2>2. \A j \in DOMAIN log' : \E k \in DOMAIN log : log'[j] = log[k]
      BY <2>1
    <2>3. ASSUME NEW j \in DOMAIN log', NEW k \in DOMAIN log', j < k
          PROVE  log'[j].seq < log'[k].seq
      <3>1. j \in Nat /\ k \in Nat /\ j + 1 < k + 1
        BY <1>t, <2>1, <2>3
      <3>2. CASE k < i
        <4>1. log'[j] = log[j] /\ log'[k] = log[k]
          BY <2>1, <2>3, <3>1, <3>2
        <4>. QED
          BY <1>o, <2>1, <2>3, <4>1 DEF Increasing
      <3>3. CASE j < i /\ ~(k < i)
        <4>1. log'[j] = log[j] /\ log'[k] = log[k + 1] /\ j < k + 1
          BY <2>1, <2>3, <3>1, <3>3
        <4>. QED
          BY <1>o, <2>1, <4>1 DEF Increasing
      <3>4. CASE ~(j < i)
        <4>1. log'[j] = log[j + 1] /\ log'[k] = log[k + 1]
          BY <2>1, <2>3, <3>1, <3>4
        <4>. QED
          BY <1>o, <2>1, <3>1, <4>1 DEF Increasing
      <3>. QED
        BY <2>1, <2>3, <3>1, <3>2, <3>3, <3>4
    <2>4. Rows(log')
      BY <1>o, <2>2, <2>3 DEF Increasing
    <2>5. \A q \in Processes : Ahead(q)'
      BY <1>o, <2>1, <2>2
    <2>. QED
      BY <1>p, <1>2, <2>4, <2>5
  <1>5. ASSUME NEW i \in DOMAIN log, AlterEntry(i) PROVE Ordered'
    <2>1. /\ UNCHANGED process /\ DOMAIN log' = DOMAIN log
          /\ \A j \in DOMAIN log : log'[j].seq = log[j].seq /\ log'[j].hash = log[j].hash
      BY <1>5, <1>t, AlteredEntry DEF AlterEntry
    <2>2. Rows(log')
      BY <1>o, <2>1 DEF Increasing, Vouched
    <2>3. \A q \in Processes : Ahead(q)'
      BY <1>o, <2>1
    <2>. QED
      BY <1>p, <1>2, <2>2, <2>3
  <1>6. CASE UNCHANGED log /\ \A p \in Processes : ~CommitAppend(p)
    <2>1. ASSUME NEW q \in Processes, process'[q] = process[q] PROVE Ahead(q)'
      BY <1>o, <1>6, <2>1
    <2>2. ASSUME NEW q \in Processes, ChainEntry(q) PROVE Ahead(q)'
      <3>1. process'[q].entry = Chained(log, process[q].content)
        BY <1>t, <2>2 DEF ChainEntry, ProcessType
      <3>2. process'[q].entry.seq = HeadSeq(log) + 1 /\ HeadSeq(log) \in Nat
        BY <1>t, <3>1, ChainedEntry, Heads
      <3>3. \A i \in DOMAIN log : log[i].seq <= HeadSeq(log)
        BY <1>o, <1>t, HeadIsLargest
      <3>. QED
        BY <1>s, <1>6, <3>2, <3>3
    <2>3. ASSUME NEW q \in Processes, Step(q), ~ChainEntry(q)
          PROVE  process'[q].stage # "chained"
      BY <2>3, OnlyChained
    <2>4. ASSUME NEW p \in Processes, Step(p) PROVE \A q \in Processes : Ahead(q)'
      BY <1>6, <2>1, <2>2, <2>3, <2>4, OthersStay
    <2>5. \A q \in Processes : Ahead(q)'
      BY <2>1, <2>4 DEF AuditNext, auditVars, Step, LoseEntry, AlterEntry
    <2>. QED
      BY <1>o, <1>p, <1>2, <1>6, <2>5
  <1>. QED
    BY <1>3, <1>4, <1>5, <1>6, LogSteps

-----------------------------------------------------------------------------
(* What runs know of the log *)

LEMMA LastIsKnown ==
    ASSUME AuditTypeOK, Numbered
    PROVE  /\ LastRun \in RunType
           /\ LastRun = NoRun \/ (LastRun \in runs /\ LastRun.at # 0)
  <1>1. CASE runs = {} /\ LastRun = NoRun
    BY <1>1, Idles
  <1>2. CASE Newest(LastRun)
    <2>1. LastRun \in runs /\ LastRun.at \in 1..started /\ started \in Nat
      BY <1>2, AuditChainAssumption DEF Newest, Numbered, AuditTypeOK
    <2>. QED
      BY <2>1 DEF AuditTypeOK
  <1>. QED
    BY <1>1, <1>2, LastIsNewest

(* An increasing log holds its own head.                                    *)
LEMMA HeadIsHeld ==
    ASSUME NEW l \in Seq(EntryType), NEW run \in RunType,
           run.head = HeadSeq(l), run.hash = HeadHash(l)
    PROVE  Holds(l, run) /\ (run.head = 0 => l = <<>> /\ run.hash = Genesis)
  <1>1. CASE l = <<>>
    BY <1>1, Heads DEF Holds
  <1>2. CASE l # <<>>
    <2>1. Len(l) \in DOMAIN l /\ l[Len(l)].seq = run.head /\ l[Len(l)].hash = run.hash
      BY <1>2, Heads
    <2>2. l[Len(l)] \in EntryType
      BY <2>1
    <2>3. run.head # 0
      BY <2>1, <2>2 DEF EntryType
    <2>. QED
      BY <2>1, <2>3 DEF Holds
  <1>. QED
    BY <1>1, <1>2

LEMMA NextStarted ==
    ASSUME AuditTypeOK, Numbered, Started, [AuditNext]_auditVars, AuditTypeOK'
    PROVE  Started'
  <1>1. ASSUME NEW q \in Processes
        PROVE  process'[q].run.head = 0 => process'[q].run.hash = Genesis
    <2>1. CASE /\ ReadHead(q) /\ process'[q].run.head = HeadSeq(log)
               /\ process'[q].run.hash = HeadHash(log)
      BY <2>1, HeadIsHeld DEF AuditTypeOK, ProcessType
    <2>2. CASE /\ process'[q].run.head = process[q].run.head
               /\ process'[q].run.hash = process[q].run.hash
      BY <2>2 DEF Started, Known
    <2>. QED
      BY <2>1, <2>2, RunsSaw
  <1>2. \A run \in runs' : run \in Known
    BY RunsRecorded DEF Known
  <1>. QED
    BY <1>1, <1>2 DEF Started, Known

(* A log whose numbers and hashes were all in the one before.               *)
LEMMA GoneStays ==
    ASSUME NEW l \in Seq(EntryType), NEW m \in Seq(EntryType), NEW run \in RunType,
           Increasing(l), Gone(l, run),
           \A j \in DOMAIN m : \E k \in DOMAIN l : m[j].seq = l[k].seq /\ m[j].hash = l[k].hash
    PROVE  Gone(m, run)
  <1>. SUFFICES ASSUME ~Holds(m, run), HeadSeq(m) > run.head,
                       NEW j \in DOMAIN m, m[j].seq = run.head
                PROVE  FALSE
    BY DEF Gone
  <1>1. PICK k \in DOMAIN l : m[j].seq = l[k].seq /\ m[j].hash = l[k].hash
    OBVIOUS
  <1>2. CASE Holds(l, run)
    <2>1. PICK i \in DOMAIN l : l[i].seq = run.head /\ l[i].hash = run.hash
      BY <1>2 DEF Holds
    <2>2. l[i] \in EntryType /\ l[k] \in EntryType /\ i \in Nat /\ k \in Nat
      OBVIOUS
    <2>3. l[i].seq = l[k].seq /\ l[i].seq \in Nat
      BY <1>1, <2>1, <2>2 DEF EntryType
    <2>4. i = k
      BY <2>2, <2>3 DEF Increasing
    <2>. QED
      BY <1>1, <2>1, <2>4 DEF Holds
  <1>3. CASE ~Holds(l, run)
    <2>1. m # <<>>
      OBVIOUS
    <2>2. Len(m) \in DOMAIN m /\ HeadSeq(m) = m[Len(m)].seq
      BY <2>1, Heads
    <2>3. PICK n \in DOMAIN l : m[Len(m)].seq = l[n].seq
      BY <2>2
    <2>4. l[n].seq <= HeadSeq(l) /\ l[n] \in EntryType /\ HeadSeq(l) \in Nat
      BY HeadIsLargest, Heads
    <2>5. HeadSeq(l) > run.head
      BY <2>2, <2>3, <2>4 DEF EntryType, RunType
    <2>. QED
      BY <1>1, <1>3, <2>5 DEF Gone
  <1>. QED
    BY <1>2, <1>3

LEMMA RegrownStays == ASSUME [AuditNext]_auditVars PROVE regrown \subseteq regrown'
  <1>1. ASSUME NEW p \in Processes, Step(p) PROVE regrown \subseteq regrown'
    BY <1>1 DEF Step, BeginAppend, TakeLock, ChainEntry, CommitAppend, BeginRun, ReadHead,
                Check, Compare, Record, Alert, Fail
  <1>. QED
    BY <1>1 DEF AuditNext, Step, auditVars, LoseEntry, AlterEntry

(* What a run saw last and the log has lost does not come back.             *)
LEMMA NextStaysGone ==
    ASSUME AuditTypeOK, Numbered, OneRuns, Ordered, StaysGone,
           [AuditNext]_auditVars, AuditTypeOK'
    PROVE  StaysGone'
  <1>t. /\ process \in [Processes -> ProcessType] /\ log \in Seq(EntryType)
        /\ log' \in Seq(EntryType) /\ Increasing(log)
        /\ \A p \in Processes : process[p].run \in RunType /\ process'[p].run \in RunType
        /\ LastRun \in RunType
    BY LastIsKnown DEF AuditTypeOK, ProcessType, Ordered
  <1>r. regrown \subseteq regrown'
    BY RegrownStays
  <1>1. ASSUME NEW run \in Watched, <<run.head, run.hash>> \notin regrown'
        PROVE  Gone(log', run)
    <2>. run \in RunType /\ Gone(log, run)
      BY <1>t, <1>r, <1>1 DEF Watched, StaysGone, Forgotten
    <2>1. ASSUME NEW p \in Processes, CommitAppend(p) PROVE Gone(log', run)
      <3>. DEFINE entry == process[p].entry
      <3>1. entry \in EntryType /\ log' = Append(log, entry) 
            /\ regrown' = regrown \cup Overtaken(entry.seq)
        BY <2>1, <1>t DEF CommitAppend, Numbered, ProcessType
      <3>2. Holds(log, run) \/ ~(run.head < entry.seq) \/ ~(HeadSeq(log) <= run.head)
        BY <1>1, <3>1 DEF Overtaken
      <3>. HIDE DEF entry
      <3>3. CASE Holds(log, run)
        BY <1>t, <3>1, <3>3, Grown DEF Holds, Gone
      <3>4. HeadSeq(log') = entry.seq
        <4>1. log' # <<>> /\ Len(log') = Len(log) + 1 /\ log'[Len(log) + 1] = entry
          BY <1>t, <3>1, Grown
        <4>2. HeadSeq(log') = log'[Len(log')].seq
          BY <1>t, <4>1, Heads
        <4>. QED
          BY <4>1, <4>2
      <3>5. /\ run.head \in Nat /\ entry.seq \in Nat /\ HeadSeq(log) \in Nat
        BY <1>t, <3>1, Heads DEF RunType, EntryType
      <3>6. CASE ~(run.head < entry.seq)
        BY <3>4, <3>5, <3>6 DEF Gone
      <3>7. CASE /\ ~Holds(log, run) /\ run.head < entry.seq
                 /\ ~(HeadSeq(log) <= run.head)
        <4>1. \A i \in DOMAIN log : log[i].seq # run.head
          BY <3>5, <3>7 DEF Gone
        <4>2. \A i \in DOMAIN log' : log'[i] = entry \/ (i \in DOMAIN log /\ log'[i] = log[i])
          BY <1>t, <3>1, Grown
        <4>. QED
          BY <3>5, <3>7, <4>1, <4>2 DEF Gone
      <3>. QED
        BY <3>2, <3>3, <3>6, <3>7
    <2>2. ASSUME NEW i \in DOMAIN log, LoseEntry(i) PROVE Gone(log', run)
      <3>1. \A j \in DOMAIN log' : \E k \in DOMAIN log : log'[j] = log[k]
        <4>1. /\ log' = RemoveAt(log, i) /\ DOMAIN log' = 1..(Len(log) - 1)
              /\ \A j \in 1..(Len(log) - 1) :
                    /\ j \in DOMAIN log /\ j + 1 \in DOMAIN log
                    /\ log'[j] = IF j < i THEN log[j] ELSE log[j + 1]
          BY <1>t, <2>2, Shortened DEF LoseEntry
        <4>. QED
          BY <4>1
      <3>. QED
        BY <1>t, <3>1, GoneStays
    <2>3. ASSUME NEW i \in DOMAIN log, AlterEntry(i) PROVE Gone(log', run)
      <3>1. \A j \in DOMAIN log' : j \in DOMAIN log /\ log'[j].seq = log[j].seq
                                   /\ log'[j].hash = log[j].hash
        BY <1>t, <2>3, AlteredEntry DEF AlterEntry
      <3>. QED
        BY <1>t, <3>1, GoneStays
    <2>. QED
      BY <2>1, <2>2, <2>3, LogSteps
  <1>2. ASSUME NEW q \in Processes,
               <<process'[q].run.head, process'[q].run.hash>> \notin regrown'
        PROVE  Gone(log', process'[q].run)
    <2>. DEFINE run == process'[q].run
    <2>1. CASE UNCHANGED log /\ run.head = HeadSeq(log) /\ run.hash = HeadHash(log)
      BY <1>t, <2>1, HeadIsHeld DEF Gone
    <2>2. CASE run.head = 0
      BY <2>2 DEF Gone, Holds
    <2>3. CASE run.head = process[q].run.head /\ run.hash = process[q].run.hash
      <3>1. Gone(log', process[q].run)
        BY <1>1, <1>2, <2>3 DEF Watched
      <3>. HIDE DEF run
      <3>. QED
        BY <2>3, <3>1 DEF Gone, Holds, run
    <2>. QED
      BY <2>1, <2>2, <2>3, RunsSaw
  <1>3. LastRun' \in Watched
    <2>1. CASE UNCHANGED runs
      BY <2>1 DEF LastRun, Watched
    <2>2. ASSUME NEW p \in Processes, Record(p) PROVE LastRun' \in Watched
      BY <2>2, RecordedIsLast DEF Watched
    <2>. QED
      BY <2>1, <2>2, RunsRecorded
  <1>. QED
    BY <1>1, <1>2, <1>3 DEF StaysGone, Watched, Forgotten

-----------------------------------------------------------------------------
(* What a clean run vouches for *)

Deciding(p) == process[p].stage \in {"headed", "checked", "compared"}

(* While a run is decided no other run is recorded, and it is compared with *)
(* the same run throughout.                                                 *)
LEMMA LastRunStays ==
    ASSUME AuditTypeOK, Numbered, OneRuns, [AuditNext]_auditVars, NEW p \in Processes,
           Deciding(p), Deciding(p)'
    PROVE  UNCHANGED LastRun
  <1>1. ASSUME NEW q \in Processes, Record(q) PROVE FALSE
    <2>1. process[q].stage = "compared" /\ process[q].run # NoRun /\ process[p].run # NoRun
      BY <1>1 DEF Record, Numbered, Deciding
    <2>2. p = q
      BY <2>1 DEF OneRuns
    <2>3. process'[q].stage = "inserting"
      BY <1>1 DEF Record, AuditTypeOK, ProcessType
    <2>. QED
      BY <2>2, <2>3 DEF Deciding
  <1>2. UNCHANGED runs
    BY <1>1, RunsRecorded
  <1>. QED
    BY <1>2 DEF LastRun

(* How a process comes to each stage of a run.                              *)
LEMMA Decisions ==
    ASSUME AuditTypeOK, [AuditNext]_auditVars, NEW p \in Processes, Deciding(p)'
    PROVE  \/ process'[p] = process[p]
           \/ /\ ReadHead(p) /\ process'[p].stage = "headed"
              /\ process'[p].run.head = HeadSeq(log) /\ process'[p].run.hash = HeadHash(log)
              /\ process'[p].run.last = SeenOfLast
           \/ /\ Check(p) /\ process[p].stage = "headed" /\ process'[p].stage = "checked"
              /\ process'[p].run.head = process[p].run.head
              /\ process'[p].run.hash = process[p].run.hash
              /\ process'[p].run.last = process[p].run.last
              /\ process'[p].run.intact =
                    (\A i \in DOMAIN log : log[i].seq = i /\ log[i].content # Altered)
              /\ process'[p].broken = Broken(log)
           \/ /\ Compare(p) /\ process[p].stage = "checked" /\ process'[p].stage = "compared"
              /\ process'[p].run.last = process[p].run.last
              /\ process'[p].run.intact = process[p].run.intact
              /\ process'[p].run.outcome =
                    IF process[p].broken THEN "broken"
                    ELSE IF Lost(process[p].run) THEN "truncated" ELSE "clean"
  <1>t. process \in [Processes -> ProcessType]
    BY DEF AuditTypeOK
  <1>1. CASE ReadHead(p)
    BY <1>1, <1>t DEF ReadHead, ProcessType, RunType
  <1>2. CASE Check(p)
    BY <1>2, <1>t DEF Check, ProcessType, RunType
  <1>3. CASE Compare(p)
    BY <1>3, <1>t DEF Compare, ProcessType, RunType, Lost
  <1>4. CASE BeginAppend(p) \/ BeginRun(p) \/ Alert(p) \/ Fail(p)
    <2>1. process'[p].stage \in {"inserting", "verifying", "idle"}
      BY <1>t, <1>4, Idles DEF BeginAppend, BeginRun, Alert, Fail, NoTask
    <2>. QED
      BY <2>1 DEF Deciding
  <1>5. CASE CommitAppend(p)
    <2>1. process'[p].stage \in {"idle", "alerting"}
      BY <1>t, <1>5, Idles DEF CommitAppend, ProcessType
    <2>. QED
      BY <2>1 DEF Deciding
  <1>6. CASE TakeLock(p) \/ ChainEntry(p) \/ Record(p)
    <2>1. process'[p].stage \in {"locked", "chained", "inserting"}
      BY <1>t, <1>6 DEF TakeLock, ChainEntry, Record, ProcessType
    <2>. QED
      BY <2>1 DEF Deciding
  <1>7. ASSUME NEW q \in Processes, Step(q), q # p PROVE process'[p] = process[p]
    BY <1>7, OthersStay
  <1>. QED
    BY <1>1, <1>2, <1>3, <1>4, <1>5, <1>6, <1>7
       DEF AuditNext, auditVars, Step, LoseEntry, AlterEntry

(* A run whose head is not ahead of what it lost says so, and one that is   *)
(* ahead finds a gap in the numbers.                                        *)
LEMMA LossIsSeen ==
    ASSUME AuditTypeOK, Numbered, Gone(log, LastRun), NEW run \in RunType,
           run.head = HeadSeq(log), run.hash = HeadHash(log), ~Holds(log, LastRun)
    PROVE  Lost(run) \/ \E i \in DOMAIN log : log[i].seq # i
  <1>1. LastRun \in RunType /\ LastRun.head # 0 /\ LastRun.at # 0
    BY LastIsKnown, Idles DEF Holds
  <1>2. log \in Seq(EntryType) /\ run.head \in Nat /\ LastRun.head \in Nat
    BY <1>1 DEF AuditTypeOK, RunType
  <1>3. CASE run.head < LastRun.head
    BY <1>1, <1>3 DEF Lost, MovedBackwards
  <1>4. CASE run.head = LastRun.head
    <2>1. log # <<>>
      BY <1>1, <1>2, <1>4, Heads
    <2>2. Len(log) \in DOMAIN log /\ log[Len(log)].seq = LastRun.head
          /\ log[Len(log)].hash = run.hash
      BY <1>2, <1>4, <2>1, Heads
    <2>. QED
      BY <1>1, <1>4, <2>2 DEF Lost, Replaced, Holds
  <1>5. CASE run.head > LastRun.head
    <2>1. log # <<>>
      BY <1>2, <1>5, Heads
    <2>2. Len(log) \in DOMAIN log /\ log[Len(log)].seq = run.head
      BY <1>2, <2>1, Heads
    <2>3. \A i \in DOMAIN log : log[i].seq # LastRun.head
      BY <1>5 DEF Gone
    <2>4. ASSUME run.head = Len(log) PROVE LastRun.head \in DOMAIN log
      BY <1>1, <1>2, <1>5, <2>4
    <2>. QED
      BY <2>2, <2>3, <2>4
  <1>. QED
    BY <1>2, <1>3, <1>4, <1>5

LEMMA UnbrokenIsIntact ==
    ASSUME log \in Seq(EntryType), \A i \in DOMAIN log : Vouched(log[i]), ~Broken(log)
    PROVE  \A i \in DOMAIN log : log[i].seq = i /\ log[i].content # Altered
  <1>. SUFFICES ASSUME NEW i \in DOMAIN log
                PROVE  log[i].seq = i /\ log[i].content # Altered
    OBVIOUS
  <1>. DEFINE link == <<log[i].seq, log[i].content>>
  <1>1. log[i].seq = i /\ log[i].hash = HashOf(log[i].seq, log[i].prev, log[i].content)
    BY DEF Broken
  <1>2. log[i] \in EntryType
    OBVIOUS
  <1>3. log[i].prev \in Seq(Nat \X Contents) /\ link \in Nat \X Contents
    BY <1>2 DEF EntryType, Hashes
  <1>4. log[i].hash = Append(log[i].prev, link)
    BY <1>1 DEF HashOf
  <1>5. Last(log[i].hash) = link
    <2>. HIDE DEF link
    <2>. QED
      BY <1>3, <1>4 DEF Last
  <1>. QED
    BY <1>1, <1>5 DEF Vouched

LEMMA NextJudged ==
    ASSUME AuditTypeOK, Numbered, OneRuns, Ordered, StaysGone, Judged,
           [AuditNext]_auditVars, AuditTypeOK'
    PROVE  Judged'
  <1>t. /\ process \in [Processes -> ProcessType] /\ log \in Seq(EntryType)
        /\ process' \in [Processes -> ProcessType]
        /\ \A p \in Processes : process[p].run \in RunType /\ process'[p].run \in RunType
    BY DEF AuditTypeOK, ProcessType
  <1>. DEFINE Gap == \E i \in DOMAIN log : log[i].seq # i
  <1>g. ASSUME NEW p \in Processes, process[p].stage = "headed", Gap PROVE Gap'
    <2>1. ASSUME NEW q \in Processes, CommitAppend(q) PROVE Gap'
      <3>1. process[q].entry \in EntryType /\ log' = Append(log, process[q].entry)
        BY <2>1, <1>t DEF CommitAppend, Numbered, ProcessType
      <3>. QED
        BY <1>t, <1>g, <3>1, Grown
    <2>2. ~Damageable
      BY <1>g DEF Damageable
    <2>. QED
      BY <1>g, <2>1, <2>2, LogSteps DEF LoseEntry, AlterEntry
  <1>k. ASSUME NEW p \in Processes, Deciding(p), Deciding(p)',
               process'[p].run.head = process[p].run.head,
               process'[p].run.hash = process[p].run.hash
        PROVE  Lost(process[p].run)' <=> Lost(process[p].run)
    <2>1. UNCHANGED LastRun
      BY <1>k, LastRunStays
    <2>. QED
      BY <1>k, <2>1 DEF Lost, MovedBackwards, Replaced
  <1>1. ASSUME NEW p \in Processes, process'[p].stage = "headed"
        PROVE  Seen(process'[p].run) \/ Lost(process[p].run)' \/ Gap'
    <2>1. CASE process'[p] = process[p]
      <3>1. Seen(process[p].run) \/ Lost(process[p].run) \/ Gap
        BY <1>1, <2>1 DEF Judged
      <3>2. Lost(process[p].run)' <=> Lost(process[p].run)
        BY <1>1, <1>k, <2>1 DEF Deciding
      <3>3. Gap => Gap'
        BY <1>1, <1>g, <2>1
      <3>. QED
        BY <2>1, <3>1, <3>2, <3>3
    <2>2. CASE ReadHead(p)
      <3>1. UNCHANGED <<log, LastRun>>
        BY <2>2 DEF ReadHead, LastRun
      <3>2. /\ process'[p].run.head = HeadSeq(log) /\ process'[p].run.hash = HeadHash(log)
            /\ process'[p].run.last = SeenOfLast
        BY <2>2, <1>t DEF ReadHead, ProcessType, RunType
      <3>3. Gone(log, LastRun) \/ Forgotten(LastRun)
        BY DEF StaysGone, Watched
      <3>4. Seen(process'[p].run) \/ (~Holds(log, LastRun) /\ ~Forgotten(LastRun))
        BY <3>2 DEF Seen, SeenOfLast, Forgotten
      <3>5. Seen(process'[p].run) \/ Lost(process'[p].run) \/ Gap
        BY <1>t, <3>2, <3>3, <3>4, LossIsSeen
      <3>. QED
        BY <3>1, <3>5 DEF Lost, MovedBackwards, Replaced
    <2>. QED
      BY <1>1, <2>1, <2>2, Decisions DEF Deciding
  <1>2. ASSUME NEW p \in Processes, process'[p].stage = "checked"
        PROVE  /\ process'[p].broken \/ process'[p].run.intact
               /\ Seen(process'[p].run) \/ Lost(process[p].run)' \/ process'[p].broken
    <2>1. CASE process'[p] = process[p]
      <3>1. Lost(process[p].run)' <=> Lost(process[p].run)
        BY <1>2, <1>k, <2>1 DEF Deciding
      <3>. QED
        BY <1>2, <2>1, <3>1 DEF Judged
    <2>2. CASE Check(p)
      <3>1. /\ process[p].stage = "headed"
            /\ process'[p].run.head = process[p].run.head
            /\ process'[p].run.hash = process[p].run.hash
            /\ process'[p].run.last = process[p].run.last
            /\ process'[p].run.intact =
                  (\A i \in DOMAIN log : log[i].seq = i /\ log[i].content # Altered)
            /\ process'[p].broken = Broken(log)
        BY <2>2, <1>t DEF Check, ProcessType, RunType
      <3>2. Seen(process[p].run) \/ Lost(process[p].run) \/ Gap
        BY <3>1 DEF Judged
      <3>3. Lost(process[p].run)' <=> Lost(process[p].run)
        BY <1>2, <1>k, <3>1 DEF Deciding
      <3>4. Gap => Broken(log)
        BY DEF Broken
      <3>5. Broken(log) \/ \A i \in DOMAIN log : log[i].seq = i /\ log[i].content # Altered
        BY <1>t, UnbrokenIsIntact DEF Ordered
      <3>. QED
        BY <3>1, <3>2, <3>3, <3>4, <3>5 DEF Seen
    <2>. QED
      BY <1>2, <2>1, <2>2, Decisions DEF Deciding
  <1>3. ASSUME NEW p \in Processes, process'[p].stage = "compared",
               process'[p].run.outcome = "clean"
        PROVE  Seen(process'[p].run) /\ process'[p].run.intact
    <2>1. CASE process'[p] = process[p]
      BY <1>3, <2>1 DEF Judged
    <2>2. CASE Compare(p)
      <3>1. /\ process[p].stage = "checked"
            /\ process'[p].run.last = process[p].run.last
            /\ process'[p].run.intact = process[p].run.intact
            /\ process'[p].run.outcome =
                  IF process[p].broken THEN "broken"
                  ELSE IF Lost(process[p].run) THEN "truncated" ELSE "clean"
        BY <2>2, <1>t DEF Compare, ProcessType, RunType, Lost
      <3>2. ~process[p].broken /\ ~Lost(process[p].run)
        BY <1>3, <3>1
      <3>3. Seen(process[p].run) /\ process[p].run.intact
        BY <3>1, <3>2 DEF Judged
      <3>. QED
        BY <3>1, <3>3 DEF Seen
    <2>. QED
      BY <1>3, <2>1, <2>2, Decisions DEF Deciding
  <1>4. CleanRunVouches'
    <2>1. ASSUME NEW p \in Processes, Record(p)
          PROVE  process[p].run.outcome = "clean" => Seen(process[p].run) /\ process[p].run.intact
      BY <2>1 DEF Record, Judged
    <2>. QED
      BY <2>1, RunsRecorded DEF Judged, CleanRunVouches, Seen
  <1>. QED
    BY <1>1, <1>2, <1>3, <1>4 DEF Judged

-----------------------------------------------------------------------------
(* A log nobody damaged *)

(* Only Compare decides, only Check finds a break.                          *)
LEMMA Verdicts ==
    ASSUME AuditTypeOK, [AuditNext]_auditVars, NEW q \in Processes
    PROVE  /\ Compare(q) \/ process'[q].run.outcome \in {"clean", process[q].run.outcome}
           /\ Check(q) \/ process'[q].broken \in {FALSE, process[q].broken}
  <1>t. process \in [Processes -> ProcessType]
    BY DEF AuditTypeOK
  <1>1. CASE TakeLock(q) \/ ChainEntry(q)
    BY <1>1, <1>t DEF TakeLock, ChainEntry, ProcessType
  <1>2. CASE Record(q)
    BY <1>2, <1>t DEF Record, ProcessType
  <1>3. CASE ReadHead(q)
    BY <1>3, <1>t DEF ReadHead, ProcessType, RunType
  <1>4. CASE Check(q)
    BY <1>4, <1>t DEF Check, ProcessType, RunType
  <1>5. CASE Compare(q)
    BY <1>5, <1>t DEF Compare, ProcessType, RunType
  <1>6. CASE BeginAppend(q) \/ Alert(q) \/ Fail(q)
    <2>1. process'[q].run = NoRun /\ process'[q].broken = FALSE
      BY <1>6, <1>t, Idles DEF BeginAppend, Alert, Fail, NoTask
    <2>. QED
      BY <2>1, Idles
  <1>7. CASE BeginRun(q)
    <2>1. process'[q].run.outcome = NoRun.outcome /\ process'[q].broken = FALSE
      BY <1>7, <1>t, Idles DEF BeginRun, NoTask, NoRun
    <2>. QED
      BY <2>1, Idles
  <1>8. CASE CommitAppend(q)
    <2>1. \/ process'[q] = NoTask
          \/ process'[q].run = process[q].run /\ process'[q].broken = process[q].broken
      BY <1>8, <1>t DEF CommitAppend, ProcessType
    <2>. QED
      BY <2>1, Idles
  <1>9. ASSUME NEW p \in Processes, Step(p), p # q PROVE process'[q] = process[q]
    BY <1>9, OthersStay
  <1>. QED
    BY <1>1, <1>2, <1>3, <1>4, <1>5, <1>6, <1>7, <1>8, <1>9
       DEF AuditNext, auditVars, Step, LoseEntry, AlterEntry

(* A log without a break, and one more entry chained to it.                 *)
LEMMA UnbrokenGrows ==
    ASSUME NEW l \in Seq(EntryType), NEW content \in Contents, ~Broken(l)
    PROVE  ~Broken(Append(l, Chained(l, content)))
  <1>. DEFINE entry == Chained(l, content)
              m == Append(l, entry)
              last == Len(l) + 1
  <1>1. /\ entry \in EntryType /\ entry.seq = HeadSeq(l) + 1 /\ entry.prev = HeadHash(l)
        /\ entry.hash = HashOf(entry.seq, entry.prev, entry.content)
    BY ChainedEntry DEF HashOf
  <1>. HIDE DEF entry
  <1>2. /\ m \in Seq(EntryType) /\ DOMAIN m = DOMAIN l \cup {last} /\ m[last] = entry
        /\ \A i \in DOMAIN l : m[i] = l[i] /\ i \in 1..Len(l)
    BY <1>1, Grown
  <1>3. HeadSeq(l) = Len(l) /\ HeadHash(l) = (IF last = 1 THEN Genesis ELSE m[last - 1].hash)
    <2>1. CASE l = <<>>
      <3>1. last = 1 /\ Len(l) = 0
        BY <2>1
      <3>. QED
        BY <2>1, <3>1, Heads
    <2>2. CASE l # <<>>
      <3>1. Len(l) \in DOMAIN l /\ last - 1 = Len(l) /\ last # 1
        BY <2>2
      <3>2. l[Len(l)].seq = Len(l)
        BY <3>1 DEF Broken
      <3>. QED
        BY <1>2, <2>2, <3>1, <3>2, Heads
    <2>. QED
      BY <2>1, <2>2
  <1>4. ASSUME NEW i \in DOMAIN m
        PROVE  /\ m[i].seq = i
               /\ m[i].prev = (IF i = 1 THEN Genesis ELSE m[i - 1].hash)
               /\ m[i].hash = HashOf(m[i].seq, m[i].prev, m[i].content)
    <2>1. CASE i = last
      BY <1>1, <1>2, <1>3, <2>1
    <2>2. CASE i \in DOMAIN l
      <3>1. /\ l[i].seq = i
            /\ l[i].prev = (IF i = 1 THEN Genesis ELSE l[i - 1].hash)
            /\ l[i].hash = HashOf(l[i].seq, l[i].prev, l[i].content)
        BY <2>2 DEF Broken
      <3>2. i # 1 => i - 1 \in DOMAIN l
        BY <2>2
      <3>. QED
        BY <1>2, <2>2, <3>1, <3>2
    <2>. QED
      BY <1>2, <2>1, <2>2
  <1>. HIDE DEF m
  <1>5. ~Broken(m)
    BY <1>4 DEF Broken
  <1>. QED
    BY <1>5 DEF m, entry

(* What a log holds lies at or before its head.                             *)
LEMMA HeldIsNotPast ==
    ASSUME NEW l \in Seq(EntryType), Increasing(l), NEW run \in RunType, Holds(l, run),
           run.head = 0 => run.hash = Genesis
    PROVE  run.head <= HeadSeq(l) /\ (run.head = HeadSeq(l) => run.hash = HeadHash(l))
  <1>1. HeadSeq(l) \in Nat /\ run.head \in Nat
    BY Heads DEF RunType
  <1>2. CASE run.head = 0
    <2>1. HeadSeq(l) = 0 => l = <<>>
      <3>1. l # <<>> => l[Len(l)] \in EntryType
        BY Heads
      <3>. QED
        BY <3>1, Heads DEF EntryType
    <2>. QED
      BY <1>1, <1>2, <2>1, Heads
  <1>3. CASE run.head # 0
    <2>1. PICK i \in DOMAIN l : l[i].seq = run.head /\ l[i].hash = run.hash
      BY <1>3 DEF Holds
    <2>2. l # <<>> /\ l[i].seq <= HeadSeq(l)
      BY HeadIsLargest
    <2>3. /\ Len(l) \in DOMAIN l /\ HeadSeq(l) = l[Len(l)].seq
          /\ HeadHash(l) = l[Len(l)].hash /\ i \in 1..Len(l)
      BY <2>2, Heads
    <2>4. run.head = HeadSeq(l) => i = Len(l)
      BY <1>1, <2>1, <2>3 DEF Increasing
    <2>. QED
      BY <2>1, <2>2, <2>3, <2>4
  <1>. QED
    BY <1>2, <1>3

LEMMA NextWhole ==
    ASSUME LogInv, OneRuns, Whole, [AuditNext]_auditVars, UNCHANGED damage, AuditTypeOK'
    PROVE  Whole'
  <1>. USE DEF LogInv
  <1>t. /\ process \in [Processes -> ProcessType] /\ log \in Seq(EntryType)
        /\ process' \in [Processes -> ProcessType] /\ damage \in Nat
        /\ \A p \in Processes : /\ process[p].run \in RunType /\ process'[p].run \in RunType
                                /\ process[p].content \in Contents
    BY AuditChainAssumption DEF AuditTypeOK, ProcessType
  <1>1. ~Broken(log') /\ \A run \in RunType : Holds(log, run) => Holds(log', run)
    <2>1. ASSUME NEW p \in Processes, CommitAppend(p)
          PROVE  ~Broken(log') /\ \A run \in RunType : Holds(log, run) => Holds(log', run)
      <3>1. log' = Append(log, Chained(log, process[p].content))
        BY <2>1 DEF CommitAppend, Whole
      <3>2. Chained(log, process[p].content) \in EntryType
        BY <1>t, ChainedEntry
      <3>3. ~Broken(log')
        BY <1>t, <3>1, UnbrokenGrows DEF Whole
      <3>. QED
        BY <1>t, <3>1, <3>2, <3>3, Grown DEF Holds
    <2>2. CASE UNCHANGED log
      BY <2>2 DEF Whole, Broken, Holds
    <2>3. \A i \in DOMAIN log : ~LoseEntry(i) /\ ~AlterEntry(i)
      BY <1>t DEF LoseEntry, AlterEntry
    <2>. QED
      BY <2>1, <2>2, <2>3, LogSteps
  <1>2. ASSUME NEW q \in Processes
        PROVE  Holds(log', process'[q].run)
    <2>. DEFINE run == process'[q].run
    <2>1. CASE UNCHANGED log /\ run.head = HeadSeq(log) /\ run.hash = HeadHash(log)
      BY <1>t, <2>1, HeadIsHeld
    <2>2. CASE run.head = 0
      BY <2>2 DEF Holds
    <2>3. CASE run.head = process[q].run.head /\ run.hash = process[q].run.hash
      <3>1. Holds(log', process[q].run)
        BY <1>t, <1>1 DEF Whole, Known
      <3>. HIDE DEF run
      <3>. QED
        BY <2>3, <3>1 DEF Holds, run
    <2>. QED
      BY <2>1, <2>2, <2>3, RunsSaw
  <1>3. ASSUME NEW q \in Processes
        PROVE  process'[q].run.outcome = "clean" /\ ~process'[q].broken
    <2>1. CASE Compare(q)
      <3>1. ~process[q].broken /\ NotPast(process[q].run) /\ LastRun \in RunType
        BY <2>1, LastIsKnown DEF Compare, Whole
      <3>2. ~MovedBackwards(process[q].run, LastRun) /\ ~Replaced(process[q].run, LastRun)
        BY <1>t, <3>1 DEF NotPast, MovedBackwards, Replaced, RunType
      <3>. QED
        BY <1>t, <2>1, <3>1, <3>2 DEF Compare, ProcessType, RunType
    <2>2. CASE Check(q)
      <3>1. process'[q].broken = Broken(log)
        BY <1>t, <2>2 DEF Check, ProcessType
      <3>2. ~Compare(q)
        BY <2>2 DEF Check, Compare
      <3>. QED
        BY <3>1, <3>2, Verdicts DEF Whole, Known
    <2>. QED
      BY <2>1, <2>2, Verdicts DEF Whole, Known
  <1>4. \A run \in runs' : Holds(log', run) /\ run.outcome = "clean"
    <2>1. \A run \in runs' : run \in Known /\ run \in RunType
      BY <1>t, RunsRecorded DEF Known, AuditTypeOK
    <2>. QED
      BY <1>1, <2>1 DEF Whole
  <1>5. ASSUME NEW p \in Processes, process'[p].stage = "chained"
        PROVE  process'[p].entry = Chained(log', process'[p].content)
    <2>1. ASSUME NEW q \in Processes, CommitAppend(q) PROVE FALSE
      <3>1. process'[q].stage # "chained" /\ process[q].stage = "chained"
        BY <2>1, OnlyChained DEF Step, CommitAppend, ChainEntry
      <3>2. process'[p] = process[p] /\ p # q
        BY <1>5, <2>1, <3>1, OthersStay DEF Step
      <3>. QED
        BY <1>5, <3>1, <3>2 DEF OneChains
    <2>2. UNCHANGED log
      <3>1. \A i \in DOMAIN log : ~LoseEntry(i) /\ ~AlterEntry(i)
        BY <1>t DEF LoseEntry, AlterEntry
      <3>. QED
        BY <2>1, <3>1, LogSteps
    <2>3. CASE ChainEntry(p)
      BY <1>t, <2>2, <2>3 DEF ChainEntry, ProcessType
    <2>4. CASE process'[p] = process[p]
      BY <1>5, <2>2, <2>4 DEF Whole
    <2>5. ASSUME NEW q \in Processes, Step(q), q # p PROVE process'[p] = process[p]
      BY <2>5, OthersStay
    <2>. QED
      BY <1>5, <2>3, <2>4, <2>5, OnlyChained
         DEF AuditNext, auditVars, Step, LoseEntry, AlterEntry
  <1>6. ASSUME NEW p \in Processes, process'[p].stage \in {"headed", "checked"}
        PROVE  NotPast(process[p].run)'
    <2>1. CASE ReadHead(p)
      <3>1. UNCHANGED LastRun
        BY <2>1 DEF ReadHead, LastRun
      <3>2. process'[p].run.head = HeadSeq(log) /\ process'[p].run.hash = HeadHash(log)
        BY <2>1, <1>t DEF ReadHead, ProcessType, RunType
      <3>3. /\ LastRun \in RunType /\ Holds(log, LastRun)
            /\ LastRun.head = 0 => LastRun.hash = Genesis
        BY LastIsKnown, Idles DEF Whole, Known, Started, Holds
      <3>4. /\ LastRun.head <= HeadSeq(log)
            /\ LastRun.head = HeadSeq(log) => LastRun.hash = HeadHash(log)
        BY <1>t, <3>3, HeldIsNotPast DEF Ordered
      <3>. QED
        BY <3>1, <3>2, <3>4 DEF NotPast
    <2>2. CASE /\ process[p].stage \in {"headed", "checked"}
               /\ process'[p].run.head = process[p].run.head
               /\ process'[p].run.hash = process[p].run.hash
      <3>1. UNCHANGED LastRun
        BY <1>6, <2>2, LastRunStays DEF Deciding
      <3>. QED
        BY <2>2, <3>1 DEF Whole, NotPast
    <2>. QED
      BY <1>6, <2>1, <2>2, Decisions DEF Deciding
  <1>. QED
    BY <1>1, <1>2, <1>3, <1>4, <1>5, <1>6 DEF Whole, Known

-----------------------------------------------------------------------------
(* What holds of every behaviour *)

LEMMA InitLog ==
    ASSUME AuditInit
    PROVE  LogInv /\ OneRuns /\ StaysGone /\ Judged /\ Whole
  <1>1. log = <<>> /\ runs = {} /\ LastRun = NoRun /\ DOMAIN log = {}
    BY DEF AuditInit, LastRun
  <1>2. /\ \A p \in Processes : process[p] = NoTask
        /\ process \in [Processes -> ProcessType]
    BY Idles DEF AuditInit
  <1>3. AuditTypeOK
    BY <1>1, <1>2, AuditChainAssumption DEF AuditInit, AuditTypeOK
  <1>4. \A run \in Known \cup {LastRun} :
           run.head = 0 /\ run.hash = Genesis /\ run.outcome = "clean"
    BY <1>1, <1>2, Idles DEF Known
  <1>5. Numbered /\ OneChains /\ Ordered
    BY <1>1, <1>2, Idles DEF Numbered, OneChains, Ordered, Increasing
  <1>6. Started /\ StaysGone
    BY <1>4 DEF Started, StaysGone, Watched, Known, Gone, Holds
  <1>7. OneRuns /\ Judged
    BY <1>1, <1>2, Idles DEF OneRuns, Judged, CleanRunVouches
  <1>8. Whole
    BY <1>1, <1>2, <1>4, Idles DEF Whole, Broken, Holds
  <1>. QED
    BY <1>3, <1>5, <1>6, <1>7, <1>8 DEF LogInv

LEMMA NextLog ==
    ASSUME LogInv, [AuditNext]_auditVars
    PROVE  LogInv'
  BY NextAuditTypeOK, NextNumbered, NextOneChains, NextOrdered, NextStarted DEF LogInv

(* Every value the audit module keeps is of its type, whatever fails,       *)
(* overlaps or is lost.                                                     *)
THEOREM AuditTypeCorrect == AuditSpec => []AuditTypeOK
  <1>1. AuditInit => LogInv
    BY InitLog
  <1>2. LogInv /\ [AuditNext]_auditVars => LogInv'
    BY NextLog
  <1>3. LogInv => AuditTypeOK
    BY DEF LogInv
  <1>. QED
    BY <1>1, <1>2, <1>3, PTL DEF AuditSpec

(* A log nobody damaged is clean in every run, with any number of requests  *)
(* appending while the run reads, of runs and of failures, when runs follow *)
(* one another as the scheduler has them.                                   *)
THEOREM QuietLogRaisesNoAlarm ==
    ASSUME ~Overlapping
    PROVE  AuditSpec => []NoFalseAlarm
  <1>1. AuditInit => WholeInv
    BY InitLog DEF WholeInv
  <1>2. ASSUME WholeInv, [AuditNext]_auditVars PROVE WholeInv'
    <2>1. LogInv' /\ OneRuns'
      BY <1>2, NextLog, NextOneRuns DEF WholeInv, LogInv
    <2>2. damage' = 0 => damage = 0
      <3>1. damage \in Nat
        BY <1>2, AuditChainAssumption DEF WholeInv, LogInv, AuditTypeOK
      <3>2. UNCHANGED damage \/ damage' = damage + 1
        <4>1. ASSUME NEW p \in Processes, Step(p) PROVE UNCHANGED damage
          BY <4>1
             DEF Step, BeginAppend, TakeLock, ChainEntry, CommitAppend, BeginRun, ReadHead,
                 Check, Compare, Record, Alert, Fail
        <4>. QED
          BY <1>2, <4>1 DEF AuditNext, Step, auditVars, LoseEntry, AlterEntry
      <3>. QED
        BY <3>1, <3>2
    <2>3. damage' = 0 => Whole'
      BY <1>2, <2>1, <2>2, NextWhole DEF WholeInv, LogInv
    <2>. QED
      BY <2>1, <2>3 DEF WholeInv
  <1>3. WholeInv => NoFalseAlarm
    BY DEF WholeInv, Whole, Known, NoFalseAlarm
  <1>. QED
    BY <1>1, <1>2, <1>3, PTL DEF AuditSpec

(* A clean run found no altered or missing entry below its own head, and    *)
(* the newest entry of the run before it, whatever was lost or altered,     *)
(* failed or appended, unless the log grew past that entry's number after   *)
(* it had become shorter; for runs that follow one another.                 *)
THEOREM CleanMeansWhole ==
    ASSUME ~Overlapping
    PROVE  AuditSpec => []CleanRunVouches
  <1>1. AuditInit => VouchInv
    BY InitLog DEF VouchInv
  <1>2. ASSUME VouchInv, [AuditNext]_auditVars PROVE VouchInv'
    BY <1>2, NextLog, NextOneRuns, NextStaysGone, NextJudged DEF VouchInv, LogInv
  <1>3. VouchInv => CleanRunVouches
    BY DEF VouchInv, Judged
  <1>. QED
    BY <1>1, <1>2, <1>3, PTL DEF AuditSpec

-----------------------------------------------------------------------------
(* Key rotation *)

(* A command past its rename holds a stamp.                                 *)
WillStamp(c) == Runs(c, "write") \/ Runs(c, "stamp")

PastStamps ==
    /\ now > 0
    /\ stamp <= now
    /\ \A c \in Commands : command[c].at <= now

OnceCurrent ==
    /\ \A k \in Keys : left[k] # NotYet => k \in generated
    /\ current \in Keys => current \in generated /\ left[current] = NotYet

StampedBeforeMoved ==
    previous \in Keys =>
        /\ left[previous] # NotYet
        /\ stamp <= left[previous]
        /\ \A c \in Commands : WillStamp(c) => command[c].at <= left[previous]

IInv == TypeOK /\ PastStamps /\ OnceCurrent /\ StampedBeforeMoved

USE KeyRotationAssumption

-----------------------------------------------------------------------------
(* Types *)

LEMMA StepTypes ==
    /\ "none" \in Steps /\ "move" \in Steps /\ "write" \in Steps /\ "stamp" \in Steps
    /\ "unlink" \in Steps /\ "unstamp" \in Steps /\ "generate" \in Steps
  BY DEF Steps

LEMMA InitTypeOK == Init => TypeOK
<1> SUFFICES ASSUME Init PROVE TypeOK
  OBVIOUS
<1>1. died \in BOOLEAN
  BY ZenonT(30) DEF Init
<1>2. command \in [Commands -> [step : Steps, at : Nat]]
  BY DEF Init, Idle, Steps
<1>3. now \in Nat /\ left \in [Keys -> Nat]
  BY DEF Init, StartTime, NotYet
<1> QED BY <1>1, <1>2, <1>3 DEF Init, TypeOK, KeyFile, NoStamp

LEMMA CommandType ==
    ASSUME TypeOK, NEW c \in Commands, NEW step \in Steps
    PROVE  /\ Goto(c, step) => command' \in [Commands -> [step : Steps, at : Nat]]
           /\ Start(c, step) => command' \in [Commands -> [step : Steps, at : Nat]]
           /\ Stop(c) => command' \in [Commands -> [step : Steps, at : Nat]]
<1>1. [command[c] EXCEPT !.step = step] \in [step : Steps, at : Nat]
  BY DEF TypeOK
<1>2. [step |-> step, at |-> now] \in [step : Steps, at : Nat]
  BY DEF TypeOK
<1>3. Idle \in [step : Steps, at : Nat]
  BY DEF Idle, Steps
<1> QED BY <1>1, <1>2, <1>3 DEF TypeOK, Goto, Start, Stop

LEMMA LeaveType ==
    ASSUME TypeOK, Leave
    PROVE  left' \in [Keys -> Nat]
  BY DEF TypeOK, Leave

LEMMA NextTypeOK == ASSUME TypeOK, [Next]_vars PROVE TypeOK'
<1> USE StepTypes
<1>1. ASSUME NEW c \in Commands, RotateChecks(c) PROVE TypeOK'
  BY <1>1, CommandType DEF RotateChecks, TypeOK
<1>2. ASSUME NEW c \in Commands, MoveOutgoing(c) PROVE TypeOK'
  BY <1>2, CommandType, LeaveType DEF MoveOutgoing, TypeOK, KeyFile
<1>3. ASSUME NEW c \in Commands, WriteNew(c) PROVE TypeOK'
  BY <1>3, CommandType, LeaveType DEF WriteNew, TypeOK, KeyFile
<1>4. ASSUME NEW c \in Commands, WriteStamp(c) PROVE TypeOK'
  <2>1. command[c].at \in Nat
    BY DEF TypeOK
  <2> QED BY <1>4, <2>1, CommandType DEF WriteStamp, TypeOK
<1>5. ASSUME NEW c \in Commands, PruneChecks(c) PROVE TypeOK'
  BY <1>5, CommandType DEF PruneChecks, TypeOK
<1>6. ASSUME NEW c \in Commands, RemovePrevious(c) PROVE TypeOK'
  BY <1>6, CommandType DEF RemovePrevious, TypeOK, KeyFile
<1>7. ASSUME NEW c \in Commands, RemoveStamp(c) PROVE TypeOK'
  BY <1>7, CommandType DEF RemoveStamp, TypeOK
<1>8. ASSUME NEW c \in Commands, BootFindsNoKey(c) PROVE TypeOK'
  BY <1>8, CommandType DEF BootFindsNoKey, TypeOK
<1>9. ASSUME NEW c \in Commands, BootGenerates(c) PROVE TypeOK'
  BY <1>9, CommandType, LeaveType DEF BootGenerates, TypeOK, KeyFile
<1>10. ASSUME NEW c \in Commands, Crash(c) PROVE TypeOK'
  <2>1. current' \in KeyFile
    BY <1>10 DEF Crash, TypeOK, KeyFile
  <2>2. left' \in [Keys -> Nat]
    BY <1>10, LeaveType DEF Crash, TypeOK
  <2>3. stamp' \in Nat \cup {NoStamp}
    BY <1>10 DEF Crash, TypeOK, TornStamp, LongAgo
  <2> QED BY <1>10, <2>1, <2>2, <2>3, CommandType DEF Crash, TypeOK
<1>11. CASE Tick
  BY <1>11 DEF Tick, TypeOK
<1>12. CASE UNCHANGED vars
  BY <1>12 DEF vars, TypeOK
<1> QED BY <1>1, <1>2, <1>3, <1>4, <1>5, <1>6, <1>7, <1>8, <1>9, <1>10, <1>11, <1>12
        DEF Next

(* Every variable keeps its type, for any commands, keys and bounds.        *)
THEOREM TypeCorrect == Spec => []TypeOK
  BY InitTypeOK, NextTypeOK, PTL DEF Spec

-----------------------------------------------------------------------------
(* The invariant *)

LEMMA InitIInv == Init => IInv
<1> SUFFICES ASSUME Init PROVE IInv
  OBVIOUS
<1>1. TypeOK
  BY InitTypeOK
<1> QED BY <1>1 DEF IInv, Init, PastStamps, OnceCurrent, StampedBeforeMoved,
                    NoStamp, StartTime, NotYet, Idle

(* The clock is ahead of every stamp and of every command's start.          *)
LEMMA NextPastStamps == ASSUME IInv, [Next]_vars PROVE PastStamps'
<1> USE DEF IInv, PastStamps, TypeOK
<1>1. ASSUME NEW c \in Commands, NEW step \in Steps,
             Goto(c, step) \/ Start(c, step) \/ Stop(c), now' = now
      PROVE  \A d \in Commands : command'[d].at <= now'
  BY <1>1 DEF Goto, Start, Stop, Idle
<1> USE StepTypes DEF NoStamp
<1>2. ASSUME NEW c \in Commands,
             RotateChecks(c) \/ PruneChecks(c) \/ BootFindsNoKey(c)
      PROVE  PastStamps'
  BY <1>1, <1>2 DEF RotateChecks, PruneChecks, BootFindsNoKey
<1>3. ASSUME NEW c \in Commands,
             MoveOutgoing(c) \/ WriteNew(c) \/ RemovePrevious(c) \/ BootGenerates(c)
      PROVE  PastStamps'
  BY <1>1, <1>3 DEF MoveOutgoing, WriteNew, RemovePrevious, BootGenerates
<1>4. ASSUME NEW c \in Commands, WriteStamp(c) PROVE PastStamps'
  BY <1>1, <1>4 DEF WriteStamp
<1>5. ASSUME NEW c \in Commands, RemoveStamp(c) PROVE PastStamps'
  BY <1>1, <1>5 DEF RemoveStamp
<1>6. ASSUME NEW c \in Commands, Crash(c) PROVE PastStamps'
  <2>1. stamp' <= now'
    BY <1>6 DEF Crash, TornStamp, LongAgo
  <2> QED BY <1>1, <1>6, <2>1 DEF Crash
<1>7. CASE Tick
  BY <1>7 DEF Tick
<1>8. CASE UNCHANGED vars
  BY <1>8 DEF vars
<1> QED BY <1>2, <1>3, <1>4, <1>5, <1>6, <1>7, <1>8 DEF Next

(* What Leave does to the history.                                          *)
LEMMA LeaveMarks ==
    ASSUME IInv, Leave, now' = now
    PROVE  /\ \A k \in Keys : left'[k] = IF k = current THEN now ELSE left[k]
           /\ now # NotYet
  BY DEF IInv, TypeOK, PastStamps, Leave, NotYet

(* A key is current once, from its generation on.                           *)
LEMMA NextOnceCurrent == ASSUME IInv, [Next]_vars PROVE OnceCurrent'
<1> USE DEF IInv, OnceCurrent, TypeOK
<1>1. ASSUME UNCHANGED <<current, generated, left>> PROVE OnceCurrent'
  BY <1>1
<1>2. ASSUME Leave, now' = now, current' \notin Keys, generated' = generated
      PROVE  OnceCurrent'
  BY <1>2, LeaveMarks
<1>3. ASSUME NEW k \in Keys \ generated, Leave, now' = now,
             current' = k, generated' = generated \cup {k}
      PROVE  OnceCurrent'
  BY <1>3, LeaveMarks
<1>4. ASSUME NEW c \in Commands, MoveOutgoing(c) PROVE OnceCurrent'
  BY <1>1, <1>2, <1>4 DEF MoveOutgoing
<1>5. ASSUME NEW c \in Commands, WriteNew(c) \/ BootGenerates(c) PROVE OnceCurrent'
  BY <1>3, <1>5 DEF WriteNew, BootGenerates
<1>6. ASSUME NEW c \in Commands, Crash(c) PROVE OnceCurrent'
  BY <1>1, <1>2, <1>6 DEF Crash
<1>7. ASSUME NEW c \in Commands,
             \/ RotateChecks(c) \/ WriteStamp(c) \/ PruneChecks(c)
             \/ RemovePrevious(c) \/ RemoveStamp(c) \/ BootFindsNoKey(c)
      PROVE  OnceCurrent'
  BY <1>1, <1>7 DEF RotateChecks, WriteStamp, PruneChecks, RemovePrevious, RemoveStamp,
                    BootFindsNoKey
<1>8. CASE Tick
  BY <1>1, <1>8 DEF Tick
<1>9. CASE UNCHANGED vars
  BY <1>1, <1>9 DEF vars
<1> QED BY <1>4, <1>5, <1>6, <1>7, <1>8, <1>9 DEF Next

(* No stamp is younger than the move of the key it may open an overlap for. *)
LEMMA NextStampedBeforeMoved == ASSUME IInv, [Next]_vars PROVE StampedBeforeMoved'
<1> USE DEF IInv, StampedBeforeMoved, TypeOK
<1>kept. ASSUME previous' = previous, stamp' \in {stamp, NoStamp, TornStamp, LongAgo},
                Leave \/ left' = left, now' = now,
                \A d \in Commands : WillStamp(d)' => WillStamp(d) /\ command'[d].at = command[d].at
         PROVE  StampedBeforeMoved'
  <2> SUFFICES ASSUME previous \in Keys
               PROVE  /\ left'[previous] # NotYet
                      /\ stamp' <= left'[previous]
                      /\ \A d \in Commands : WillStamp(d)' => command'[d].at <= left'[previous]
    BY <1>kept
  <2>1. left'[previous] = left[previous]
    BY <1>kept, LeaveMarks DEF OnceCurrent
  <2>2. stamp' <= left[previous]
    BY <1>kept DEF NoStamp, TornStamp, LongAgo, NotYet
  <2> QED BY <1>kept, <2>1, <2>2
<1>stop. ASSUME NEW c \in Commands, Stop(c)
         PROVE  \A d \in Commands :
                  WillStamp(d)' => WillStamp(d) /\ command'[d].at = command[d].at
  BY <1>stop DEF Stop, WillStamp, Runs, Idle
<1>start. ASSUME NEW c \in Commands, NEW step \in {"move", "unlink", "generate"}, Start(c, step)
          PROVE  \A d \in Commands :
                   WillStamp(d)' => WillStamp(d) /\ command'[d].at = command[d].at
  BY <1>start DEF Start, WillStamp, Runs
<1>goto. ASSUME NEW c \in Commands, NEW step \in Steps, Goto(c, step),
                WillStamp(c) \/ step = "unstamp"
         PROVE  \A d \in Commands :
                  WillStamp(d)' => WillStamp(d) /\ command'[d].at = command[d].at
  BY <1>goto DEF Goto, WillStamp, Runs
<1>1. ASSUME NEW c \in Commands,
             RotateChecks(c) \/ PruneChecks(c) \/ BootFindsNoKey(c)
      PROVE  StampedBeforeMoved'
  BY <1>1, <1>kept, <1>start DEF RotateChecks, PruneChecks, BootFindsNoKey
<1>2. ASSUME NEW c \in Commands, MoveOutgoing(c) PROVE StampedBeforeMoved'
  <2>1. CASE current = Absent
    BY <1>2, <2>1, <1>kept, <1>stop DEF MoveOutgoing
  <2>2. CASE current # Absent
    <3> SUFFICES ASSUME current \in Keys
                 PROVE  /\ left'[current] # NotYet
                        /\ stamp' <= left'[current]
                        /\ \A d \in Commands : command'[d].at <= left'[current]
      BY <1>2, <2>2 DEF MoveOutgoing
    <3>1. left'[current] = now /\ now # NotYet /\ now' = now
      BY <1>2, <2>2, LeaveMarks DEF MoveOutgoing
    <3>2. PastStamps'
      BY <1>2, NextPastStamps DEF Next
    <3> QED BY <3>1, <3>2 DEF PastStamps
  <2> QED BY <2>1, <2>2
<1>3. ASSUME NEW c \in Commands, WriteNew(c) PROVE StampedBeforeMoved'
  BY <1>3, <1>kept, <1>goto, StepTypes DEF WriteNew, WillStamp
<1>4. ASSUME NEW c \in Commands, WriteStamp(c) PROVE StampedBeforeMoved'
  BY <1>4, <1>stop DEF WriteStamp, WillStamp
<1>5. ASSUME NEW c \in Commands, RemovePrevious(c) PROVE StampedBeforeMoved'
  BY <1>5 DEF RemovePrevious
<1>6. ASSUME NEW c \in Commands, RemoveStamp(c) PROVE StampedBeforeMoved'
  BY <1>6, <1>kept, <1>stop DEF RemoveStamp
<1>7. ASSUME NEW c \in Commands, BootGenerates(c) PROVE StampedBeforeMoved'
  BY <1>7, <1>kept, <1>stop DEF BootGenerates
<1>8. ASSUME NEW c \in Commands, Crash(c) PROVE StampedBeforeMoved'
  BY <1>8, <1>kept, <1>stop DEF Crash
<1>9. CASE Tick
  BY <1>9 DEF Tick, WillStamp, Runs
<1>10. CASE UNCHANGED vars
  BY <1>10 DEF vars, WillStamp, Runs
<1> QED BY <1>1, <1>2, <1>3, <1>4, <1>5, <1>6, <1>7, <1>8, <1>9, <1>10 DEF Next

LEMMA NextIInv == ASSUME IInv, [Next]_vars PROVE IInv'
  BY NextTypeOK, NextPastStamps, NextOnceCurrent, NextStampedBeforeMoved DEF IInv

(* The inductive invariant holds of every behaviour.                        *)
THEOREM Invariant == Spec => []IInv
  BY InitIInv, NextIInv, PTL DEF Spec

LEMMA IInvRetires == IInv => RetiredInTime
<1> SUFFICES ASSUME IInv, NEW k \in Accepted, left[k] # NotYet
             PROVE  now < left[k] + Overlap
  BY DEF RetiredInTime
<1>1. k # current
  BY DEF IInv, OnceCurrent, Accepted, Readable
<1>2. OverlapOpen /\ k = previous /\ previous \in Keys
  BY <1>1 DEF IInv, TypeOK, KeyFile, Accepted, Readable
<1> QED BY <1>2 DEF IInv, TypeOK, StampedBeforeMoved, OverlapOpen, NoStamp

(* No key is accepted longer than the overlap of its own rotation, whatever *)
(* commands overlap, stop half way or were cut off earlier.                 *)
THEOREM RetiredKeysExpire == Spec => []RetiredInTime
  BY Invariant, IInvRetires, PTL

-----------------------------------------------------------------------------
(* One command at a time, none of which has died.                          *)

(* A retired key some envelope may still be signed with.                    *)
Wanted(k) == left[k] # NotYet /\ now < left[k] + MinOverlap

(* Nothing has been signed that is still wanted.                           *)
NoneWanted == \A k \in Keys : ~Wanted(k)

(* There is a key, or there never was one.                                 *)
HasKey == current \in Keys \/ \A k \in Keys : left[k] = NotYet

(* The only key wanted is the one that was moved last.                     *)
OnlyPrevious == \A k \in Keys : Wanted(k) => k = previous /\ left[k] = now

AtStep(c) ==
    /\ ~Runs(c, "none") => command[c].at = now
    /\ Runs(c, "move") => current \in Keys /\ NoneWanted
    /\ Runs(c, "write") => current = Absent /\ OnlyPrevious
    /\ Runs(c, "stamp") => current \in Keys /\ OnlyPrevious
    /\ Runs(c, "unlink") \/ Runs(c, "unstamp") => HasKey /\ NoneWanted
    /\ Runs(c, "generate") => current = Absent /\ HasKey

(* Between two commands the overlap of what is wanted is open.             *)
AtRest ==
    /\ HasKey
    /\ \A k \in Keys : Wanted(k) => k = previous /\ stamp = left[k]

Alone ==
    /\ \A c, d \in Commands : ~Runs(c, "none") /\ ~Runs(d, "none") => c = d
    /\ stamp # TornStamp /\ current # Torn /\ previous # Torn
    /\ \A c \in Commands : AtStep(c)
    /\ Quiet => AtRest

AloneInv == IInv /\ (regime = "one" /\ ~died => Alone)

(* What one command leaves to the next.                                    *)
LEMMA RestIsEnough ==
  ASSUME IInv, Alone, Quiet
  PROVE  OutgoingStaysAccepted
<1> SUFFICES ASSUME NEW k \in Keys, Wanted(k) PROVE k \in Accepted
  BY DEF OutgoingStaysAccepted, Wanted
<1>1. k = previous /\ stamp = left[k] /\ current \in Keys
  BY DEF Alone, AtRest, HasKey, Wanted
<1>2. stamp > 0 /\ now < stamp + Overlap
  BY <1>1 DEF Wanted, NotYet, IInv, TypeOK
<1> QED
  BY <1>1, <1>2 DEF Accepted, Readable, StampReadable, OverlapOpen, TornStamp, Alone

(* While no key leaves and the clock stands, what is wanted stays wanted.  *)
LEMMA WantedKept ==
  ASSUME UNCHANGED <<now, left>>
  PROVE  \A k : Wanted(k)' <=> Wanted(k)
BY DEF Wanted

(* Whoever moves is the one command at work, before the step or after it;  *)
(* so only its own place is to be shown, and what it leaves at rest.       *)
LEMMA OnlyOneMoves ==
  ASSUME Alone, NEW c \in Commands, NEW x \in [step : Steps, at : Nat], TypeOK,
         command' = [command EXCEPT ![c] = x],
         command[c].step # "none" \/ x.step # "none",
         \A d, e \in Commands : ~Runs(d, "none")' /\ ~Runs(e, "none")' => d = e,
         stamp' # TornStamp, current' # Torn, previous' # Torn,
         AtStep(c)',
         x.step = "none" => AtRest'
  PROVE  Alone'
<1>1. command'[c] = x
  BY DEF TypeOK
<1>2. ASSUME NEW d \in Commands, d # c
      PROVE  command'[d] = command[d] /\ command[d].step = "none"
  <2>1. command'[d] = command[d]
    BY <1>2 DEF TypeOK
  <2> QED
    BY <1>1, <1>2, <2>1 DEF Alone, Runs
<1>3. \A d \in Commands : AtStep(d)'
  <2> SUFFICES ASSUME NEW d \in Commands, d # c PROVE AtStep(d)'
    OBVIOUS
  <2> QED
    BY <1>2 DEF AtStep, Runs
<1>4. Quiet' => AtRest'
  BY <1>1 DEF Quiet, Runs
<1> QED
  BY <1>3, <1>4 DEF Alone

(* A command that starts finds all the others at rest.                     *)
LEMMA StartIsAlone ==
  ASSUME NEW c \in Commands, NEW step \in Steps \ {"none"}, TypeOK, Start(c, step),
         Runs(c, "none"),
         \A d, e \in Commands : ~Runs(d, "none")' /\ ~Runs(e, "none")' => d = e
  PROVE  Quiet
<1>1. command'[c].step = step /\ \A d \in Commands \ {c} : command'[d] = command[d]
  BY DEF Start, TypeOK
<1> QED
  BY <1>1 DEF Quiet, Runs

LEMMA NextAlone ==
  ASSUME IInv, Alone, ~died', regime = "one", Next, InRegime
  PROVE  Alone'
<1> USE StepTypes
<1>0. /\ \A c, d \in Commands : ~Runs(c, "none")' /\ ~Runs(d, "none")' => c = d
      /\ now' # now => Quiet
      /\ OverlapOpen => \A c \in Commands : Runs(c, "unlink")' => Runs(c, "unlink")
      /\ TypeOK /\ now > 0
  BY DEF InRegime, IInv, PastStamps
<1>a. ASSUME NEW c \in Commands
      PROVE  /\ command[c] \in [step : Steps, at : Nat] /\ now \in Nat
             /\ [step |-> "move", at |-> now] \in [step : Steps, at : Nat]
             /\ [step |-> "unlink", at |-> now] \in [step : Steps, at : Nat]
             /\ [step |-> "generate", at |-> now] \in [step : Steps, at : Nat]
             /\ Idle \in [step : Steps, at : Nat] /\ Idle.step = "none"
  BY <1>0 DEF TypeOK, Idle
<1>1. ASSUME NEW c \in Commands, RotateChecks(c) PROVE Alone'
  <2>1. Quiet
    BY <1>0, <1>1, StartIsAlone DEF RotateChecks
  <2>2. NoneWanted
    <3> SUFFICES ASSUME NEW k \in Keys, Wanted(k) PROVE FALSE
      BY DEF NoneWanted
    <3>1. k = previous /\ stamp = left[k] /\ left[k] # NotYet
      BY <2>1 DEF Alone, AtRest, Wanted
    <3>2. OverlapOpen
      BY <1>0, <3>1 DEF OverlapOpen, Wanted, NotYet, TypeOK
    <3> QED
      BY <1>1, <3>1, <3>2 DEF RotateChecks
  <2>3. current \in Keys
    BY <1>1 DEF RotateChecks, Readable
  <2>4. command' = [command EXCEPT ![c] = [step |-> "move", at |-> now]]
    BY <1>1 DEF RotateChecks, Start
  <2>5. AtStep(c)'
    BY <1>0, <1>1, <2>2, <2>3, <2>4 DEF RotateChecks, AtStep, Runs, NoneWanted, Wanted, TypeOK
  <2>6. stamp' # TornStamp /\ current' # Torn /\ previous' # Torn
    BY <1>1 DEF RotateChecks, Alone
  <2> QED
    BY <1>0, <1>a, <2>4, <2>5, <2>6, OnlyOneMoves
<1>b. ASSUME NEW c \in Commands
      PROVE  /\ [command[c] EXCEPT !.step = "write"] = [step |-> "write", at |-> command[c].at]
             /\ [command[c] EXCEPT !.step = "stamp"] = [step |-> "stamp", at |-> command[c].at]
             /\ [command[c] EXCEPT !.step = "unstamp"] = [step |-> "unstamp", at |-> command[c].at]
             /\ [step |-> "write", at |-> command[c].at] \in [step : Steps, at : Nat]
             /\ [step |-> "stamp", at |-> command[c].at] \in [step : Steps, at : Nat]
             /\ [step |-> "unstamp", at |-> command[c].at] \in [step : Steps, at : Nat]
  BY <1>a
<1>2. ASSUME NEW c \in Commands, MoveOutgoing(c) PROVE Alone'
  <2>1. Runs(c, "move") /\ command[c].at = now /\ current \in Keys /\ NoneWanted
    BY <1>2 DEF MoveOutgoing, Alone, AtStep, Runs
  <2>2. /\ previous' = current /\ current' = Absent /\ stamp' = stamp /\ now' = now
        /\ left' = [left EXCEPT ![current] = now]
    BY <1>2, <2>1, KeyRotationAssumption DEF MoveOutgoing, Leave
  <2>3. command' = [command EXCEPT ![c] = [step |-> "write", at |-> now]]
    BY <1>2, <1>a, <1>b, <2>1, KeyRotationAssumption DEF MoveOutgoing, Goto
  <2>4. command'[c] = [step |-> "write", at |-> now]
    BY <1>0, <2>3 DEF TypeOK
  <2>5. OnlyPrevious'
    BY <1>0, <2>1, <2>2 DEF OnlyPrevious, NoneWanted, Wanted, TypeOK
  <2>6. AtStep(c)'
    BY <2>2, <2>4, <2>5 DEF AtStep, Runs
  <2>7. stamp' # TornStamp /\ current' # Torn /\ previous' # Torn
    BY <2>1, <2>2, KeyRotationAssumption DEF Alone
  <2> QED
    BY <1>0, <1>a, <1>b, <2>1, <2>3, <2>6, <2>7, OnlyOneMoves DEF Runs
<1>3. ASSUME NEW c \in Commands, WriteNew(c) PROVE Alone'
  <2>1. Runs(c, "write") /\ command[c].at = now /\ current = Absent /\ OnlyPrevious
    BY <1>3 DEF WriteNew, Alone, AtStep, Runs
  <2>2. current' \in Keys /\ UNCHANGED <<now, previous, stamp, left>>
    BY <1>3, <2>1, KeyRotationAssumption DEF WriteNew, Leave
  <2>3. command' = [command EXCEPT ![c] = [step |-> "stamp", at |-> now]]
    BY <1>3, <1>b, <2>1 DEF WriteNew, Goto
  <2>4. command'[c] = [step |-> "stamp", at |-> now]
    BY <1>0, <2>3 DEF TypeOK
  <2>5. OnlyPrevious'
    BY <2>1, <2>2 DEF OnlyPrevious, Wanted
  <2>6. AtStep(c)'
    BY <2>2, <2>4, <2>5 DEF AtStep, Runs
  <2>7. stamp' # TornStamp /\ current' # Torn /\ previous' # Torn
    BY <2>2, KeyRotationAssumption DEF Alone
  <2> QED
    BY <1>0, <1>b, <2>1, <2>3, <2>6, <2>7, OnlyOneMoves DEF Runs
<1>4. ASSUME NEW c \in Commands, WriteStamp(c) PROVE Alone'
  <2>1. Runs(c, "stamp") /\ command[c].at = now /\ current \in Keys /\ OnlyPrevious
    BY <1>4 DEF WriteStamp, Alone, AtStep, Runs
  <2>2. stamp' = now /\ UNCHANGED <<now, current, previous, left>>
    BY <1>4, <2>1 DEF WriteStamp
  <2>3. command' = [command EXCEPT ![c] = Idle]
    BY <1>4 DEF WriteStamp, Stop
  <2>4. AtStep(c)'
    BY <1>0, <1>a, <2>3 DEF AtStep, Runs, TypeOK
  <2>5. AtRest'
    BY <2>1, <2>2 DEF AtRest, HasKey, OnlyPrevious, Wanted
  <2>6. stamp' # TornStamp /\ current' # Torn /\ previous' # Torn
    BY <1>0, <2>2 DEF Alone, TornStamp
  <2> QED
    BY <1>0, <1>a, <2>1, <2>3, <2>4, <2>5, <2>6, OnlyOneMoves DEF Runs
<1>5. ASSUME NEW c \in Commands, PruneChecks(c) PROVE Alone'
  <2>1. Quiet
    BY <1>0, <1>5, StartIsAlone DEF PruneChecks
  <2>2. command' = [command EXCEPT ![c] = [step |-> "unlink", at |-> now]]
    BY <1>5 DEF PruneChecks, Start
  <2>3. command'[c] = [step |-> "unlink", at |-> now]
    BY <1>0, <2>2 DEF TypeOK
  <2>4. ~OverlapOpen
    BY <1>0, <1>5, <2>3 DEF PruneChecks, Runs
  <2>5. NoneWanted
    BY <1>0, <2>1, <2>4 DEF NoneWanted, Alone, AtRest, Wanted, OverlapOpen, NotYet, TypeOK
  <2>6. HasKey
    BY <2>1 DEF Alone, AtRest
  <2>7. AtStep(c)'
    BY <1>5, <2>3, <2>5, <2>6 DEF PruneChecks, AtStep, Runs, NoneWanted, HasKey, Wanted
  <2>8. stamp' # TornStamp /\ current' # Torn /\ previous' # Torn
    BY <1>5 DEF PruneChecks, Alone
  <2> QED
    BY <1>0, <1>a, <2>2, <2>7, <2>8, OnlyOneMoves
<1>6. ASSUME NEW c \in Commands, RemovePrevious(c) PROVE Alone'
  <2>1. Runs(c, "unlink") /\ command[c].at = now /\ HasKey /\ NoneWanted
    BY <1>6 DEF RemovePrevious, Alone, AtStep, Runs
  <2>2. command' = [command EXCEPT ![c] = [step |-> "unstamp", at |-> now]]
    BY <1>6, <1>b, <2>1 DEF RemovePrevious, Goto
  <2>3. command'[c] = [step |-> "unstamp", at |-> now]
    BY <1>0, <2>2 DEF TypeOK
  <2>4. AtStep(c)'
    BY <1>6, <2>1, <2>3 DEF RemovePrevious, AtStep, Runs, NoneWanted, HasKey, Wanted
  <2>5. stamp' # TornStamp /\ current' # Torn /\ previous' # Torn
    BY <1>6, KeyRotationAssumption DEF RemovePrevious, Alone
  <2> QED
    BY <1>0, <1>b, <2>1, <2>2, <2>4, <2>5, OnlyOneMoves DEF Runs
<1>7. ASSUME NEW c \in Commands, RemoveStamp(c) PROVE Alone'
  <2>1. Runs(c, "unstamp") /\ HasKey /\ NoneWanted
    BY <1>7 DEF RemoveStamp, Alone, AtStep, Runs
  <2>2. command' = [command EXCEPT ![c] = Idle]
    BY <1>7 DEF RemoveStamp, Stop
  <2>3. AtStep(c)'
    BY <1>0, <1>a, <2>2 DEF AtStep, Runs, TypeOK
  <2>4. AtRest'
    BY <1>7, <2>1 DEF RemoveStamp, AtRest, HasKey, NoneWanted, Wanted
  <2>5. stamp' # TornStamp /\ current' # Torn /\ previous' # Torn
    BY <1>7 DEF RemoveStamp, Alone, TornStamp, NoStamp
  <2> QED
    BY <1>0, <1>a, <2>1, <2>2, <2>3, <2>4, <2>5, OnlyOneMoves DEF Runs
<1>8. ASSUME NEW c \in Commands, BootFindsNoKey(c) PROVE Alone'
  <2>1. Quiet
    BY <1>0, <1>8, StartIsAlone DEF BootFindsNoKey
  <2>2. command' = [command EXCEPT ![c] = [step |-> "generate", at |-> now]]
    BY <1>8 DEF BootFindsNoKey, Start
  <2>3. command'[c] = [step |-> "generate", at |-> now]
    BY <1>0, <2>2 DEF TypeOK
  <2>4. AtStep(c)'
    BY <1>8, <2>1, <2>3 DEF BootFindsNoKey, AtStep, Runs, Alone, AtRest, HasKey
  <2>5. stamp' # TornStamp /\ current' # Torn /\ previous' # Torn
    BY <1>8 DEF BootFindsNoKey, Alone
  <2> QED
    BY <1>0, <1>a, <2>2, <2>4, <2>5, OnlyOneMoves
<1>9. ASSUME NEW c \in Commands, BootGenerates(c) PROVE Alone'
  <2>1. Runs(c, "generate") /\ current = Absent /\ HasKey
    BY <1>9 DEF BootGenerates, Alone, AtStep, Runs
  <2>2. current' \in Keys /\ UNCHANGED <<now, previous, stamp, left>>
    BY <1>9, <2>1, KeyRotationAssumption DEF BootGenerates, Leave
  <2>3. command' = [command EXCEPT ![c] = Idle]
    BY <1>9 DEF BootGenerates, Stop
  <2>4. AtStep(c)'
    BY <1>0, <1>a, <2>3 DEF AtStep, Runs, TypeOK
  <2>5. AtRest'
    BY <2>1, <2>2, KeyRotationAssumption DEF AtRest, HasKey, Wanted
  <2>6. stamp' # TornStamp /\ current' # Torn /\ previous' # Torn
    BY <2>2, KeyRotationAssumption DEF Alone
  <2> QED
    BY <1>0, <1>a, <2>1, <2>3, <2>4, <2>5, <2>6, OnlyOneMoves DEF Runs
<1>10. ASSUME NEW c \in Commands, Crash(c) PROVE Alone'
  BY <1>10 DEF Crash
<1>11. CASE Tick
  <2>1. Quiet /\ now' = now + 1
        /\ UNCHANGED <<current, previous, stamp, command, left>>
    BY <1>0, <1>11 DEF Tick, TypeOK
  <2>2. \A k \in Keys : Wanted(k)' => Wanted(k)
    BY <1>0, <2>1, KeyRotationAssumption DEF Wanted, TypeOK
  <2>3. AtRest'
    BY <2>1, <2>2 DEF Alone, AtRest, HasKey
  <2>4. \A c \in Commands : AtStep(c)'
    BY <2>1 DEF AtStep, Quiet, Runs
  <2> QED
    BY <2>1, <2>3, <2>4 DEF Alone, Quiet, Runs
<1> QED
  BY <1>1, <1>2, <1>3, <1>4, <1>5, <1>6, <1>7, <1>8, <1>9, <1>10, <1>11 DEF Next

LEMMA StutterAlone ==
  ASSUME Alone, UNCHANGED vars
  PROVE  Alone'
BY DEF Alone, AtStep, AtRest, HasKey, NoneWanted, OnlyPrevious, Wanted, Quiet, Runs, vars

LEMMA InitAloneInv == InitRegimes => AloneInv
<1> SUFFICES ASSUME InitRegimes PROVE IInv /\ Alone
  BY DEF AloneInv
<1>1. IInv
  BY InitIInv DEF InitRegimes
<1>2. \A c \in Commands : command[c] = Idle
  BY DEF InitRegimes, Init
<1>3. AtRest
  BY DEF InitRegimes, Init, AtRest, HasKey, Wanted
<1> QED
  BY <1>1, <1>2, <1>3, KeyRotationAssumption
     DEF InitRegimes, Init, Alone, AtStep, Runs, Idle, NoStamp, TornStamp

(* Nothing undoes a death.                                                 *)
LEMMA DeathsAreRemembered ==
  ASSUME [Next]_vars, died
  PROVE  died'
BY DEF Next, RotateChecks, MoveOutgoing, WriteNew, WriteStamp, PruneChecks,
       RemovePrevious, RemoveStamp, BootFindsNoKey, BootGenerates, Crash, Tick, vars

LEMMA NextAloneInv ==
  ASSUME AloneInv, [Next /\ InRegime]_<<vars, regime>>
  PROVE  AloneInv'
<1>1. IInv'
  BY NextIInv DEF AloneInv
<1>2. ASSUME regime' = "one", ~died' PROVE Alone'
  <2>1. regime = "one"
    BY <1>2 DEF InRegime
  <2>2. ~died
    BY <1>2, DeathsAreRemembered
  <2> QED
    BY <1>2, <2>1, <2>2, NextAlone, StutterAlone DEF AloneInv
<1> QED
  BY <1>1, <1>2 DEF AloneInv

(* Where commands do not overlap and none has died, an outgoing key is     *)
(* accepted for as long as an envelope it signed may live (rotation.ts     *)
(* 236-262: there is no instant at which it is not yet recoverable): the   *)
(* stamp written last is the time of the move, nothing else starts before  *)
(* it, and neither a second rotation nor a prune starts while it is wanted.*)
THEOREM OutgoingKeyIsKept == BothRegimes => []OneCommandKeepsOutgoing
<1>1. AloneInv => OneCommandKeepsOutgoing
  <2> SUFFICES ASSUME AloneInv, regime = "one", Quiet, ~died PROVE OutgoingStaysAccepted
    BY DEF OneCommandKeepsOutgoing, OutgoingStaysAccepted
  <2> QED
    BY RestIsEnough DEF AloneInv
<1>2. BothRegimes => []AloneInv
  BY InitAloneInv, NextAloneInv, PTL DEF BothRegimes
<1> QED
  BY <1>1, <1>2, PTL
=============================================================================
