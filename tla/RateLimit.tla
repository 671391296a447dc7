------------------------------ MODULE RateLimit ------------------------------
(***************************************************************************)
(* Counting authentication attempts: countAuthAttempts, clearAuthRateLimit *)
(* and pruneAuthRateLimits of src/src/repo/rate_limits.ts, and the         *)
(* decision recordAuthAttempt of src/src/auth/rate_limit.ts makes of it.   *)
(*                                                                         *)
(* A transaction runs one statement after the other.  A statement takes    *)
(* its snapshot (the committed rows) and its statement_timestamp() when it *)
(* is issued; it then waits for the lock of its row, is judged against the *)
(* row's latest version and holds the lock until the transaction ends.     *)
(*                                                                         *)
(* A row is one bucket: a dimension, a path and a digest.  tried and       *)
(* granted are no columns: they count, for the window the row describes,   *)
(* the attempts that were answered (as far as the limit) and those that    *)
(* were allowed.                                                           *)
(***************************************************************************)
EXTENDS Integers, FiniteSets, Sequences

CONSTANTS
    Accounts, Addresses,    \* the buckets of the two dimensions
    Limit,                  \* attempts per window of each bucket
    WindowMs,               \* how long a window lasts
    Transactions,           \* transactions that may overlap
    Clearing, Pruning,      \* bound: whether buckets are cleared, pruned
    MaxTime                 \* bound on the clock

Buckets == Accounts \cup Addresses

ASSUME RateLimitAssumption ==
    /\ Accounts \cap Addresses = {}
    /\ IsFiniteSet(Buckets)             \* digests of a fixed length
    /\ Limit \in [Buckets -> Nat \ {0}]
    /\ WindowMs \in Nat \ {0}
    /\ Clearing \in BOOLEAN /\ Pruning \in BOOLEAN
    /\ MaxTime \in Nat

VARIABLES
    now,        \* the database server's clock
    latest,     \* the latest version of each row, committed or not
    committed,  \* the committed version of each row
    tx          \* the transactions

vars == <<now, latest, committed, tx>>

RowType == [attempts : Nat, expires : Nat, tried : Nat, granted : Nat]
NoRow == [attempts |-> 0, expires |-> 0, tried |-> 0, granted |-> 0]

Kinds == {"none", "count", "clear", "prune"}

(* todo: the rows still to visit, in the order of the statements (for       *)
(* prune, one statement, in the order of its scan); snap: what the          *)
(* statement in progress saw; results: per counted row, whether there was   *)
(* room and whether the window whose end it reports was still live; failed: *)
(* countOne threw.                                                          *)
ResultType == [bucket : Buckets, counted : BOOLEAN, live : BOOLEAN]

TxType == [kind : Kinds, todo : Seq(Buckets), issued : BOOLEAN, ts : Nat,
           snap : RowType, locks : SUBSET Buckets,
           results : Seq(ResultType), failed : BOOLEAN]

NoTx == [kind |-> "none", todo |-> <<>>, issued |-> FALSE, ts |-> 0, snap |-> NoRow,
         locks |-> {}, results |-> <<>>, failed |-> FALSE]

TypeOK ==
    /\ now \in Nat
    /\ latest \in [Buckets -> RowType] /\ committed \in [Buckets -> RowType]
    /\ tx \in [Transactions -> TxType]

Init ==
    /\ now = 1
    /\ latest = [b \in Buckets |-> NoRow]
    /\ committed = latest
    /\ tx = [t \in Transactions |-> NoTx]

-----------------------------------------------------------------------------
(* Locks and windows *)

Free(b, t) == \A u \in Transactions \ {t} : b \notin tx[u].locks

Live(row, at) == row.expires > at

(* Why t cannot take its next step: u holds the row it is at.               *)
Waits(t, u) ==
    /\ t # u
    /\ tx[t].issued /\ tx[t].todo # <<>>
    /\ Head(tx[t].todo) \in tx[u].locks

(* The row is visited: its lock is held until the transaction ends.  Only  *)
(* a prune has further rows in the same statement.                         *)
Visited(t) ==
    LET x == [tx[t] EXCEPT !.todo = Tail(@), !.locks = @ \cup {Head(tx[t].todo)}]
    IN  IF x.kind = "prune" THEN x ELSE [x EXCEPT !.issued = FALSE]

-----------------------------------------------------------------------------
(* Counting *)

(* fault: the caller's order of the buckets *)
AnyOrder(account, address) == {<<account, address>>, <<address, account>>}

(* lockOrder: account before address *)
LockOrder(account, address) == {<<account, address>>}

(* countAuthAttempts is called for an attempt's two buckets.                *)
BeginCount(t) ==
    /\ tx[t].kind = "none"
    /\ \E account \in Accounts, address \in Addresses :
       \E order \in LockOrder(account, address) :
          tx' = [tx EXCEPT ![t] = [NoTx EXCEPT !.kind = "count", !.todo = order]]
    /\ UNCHANGED <<now, latest, committed>>

(* A statement is issued: its snapshot and its timestamp are taken.         *)
Issue(t) ==
    /\ tx[t].kind \in {"count", "clear"}
    /\ tx[t].todo # <<>> /\ ~tx[t].issued
    /\ tx' = [tx EXCEPT ![t].issued = TRUE, ![t].ts = now,
                        ![t].snap = committed[Head(tx[t].todo)]]
    /\ UNCHANGED <<now, latest, committed>>

(* A window opened by the statement: the counter starts over.               *)
Opened(ts) == [attempts |-> 1, expires |-> ts + WindowMs, tried |-> 0, granted |-> 0]

Spent(row) == [row EXCEPT !.attempts = @ + 1]

(* fault: the counter the snapshot showed is judged and incremented *)
CountedFromSnapshot(t, row) ==
    LET seen == tx[t].snap.attempts IN
    IF row = NoRow \/ ~Live(row, tx[t].ts) THEN {Opened(tx[t].ts)}
    ELSE IF seen < Limit[Head(tx[t].todo)] THEN {[row EXCEPT !.attempts = seen + 1]}
    ELSE {}

(* INSERT ... ON CONFLICT DO UPDATE ... WHERE: the row it leaves, or none   *)
(* when the WHERE fails.                                                    *)
Counted(t, row) ==
    IF row = NoRow \/ ~Live(row, tx[t].ts) THEN {Opened(tx[t].ts)}
    ELSE IF row.attempts < Limit[Head(tx[t].todo)] THEN {Spent(row)}
    ELSE {}

Result(t, room, row) ==
    [bucket |-> Head(tx[t].todo), counted |-> room, live |-> Live(row, tx[t].ts)]

(* countOne, and the branch of its UNION ALL that answers.  The second      *)
(* branch reads the snapshot; a row that is not in it makes countOne throw, *)
(* which rolls back and refuses the attempt.                                *)
CountOne(t) ==
    LET b == Head(tx[t].todo) IN
    /\ tx[t].kind = "count" /\ tx[t].issued
    /\ Free(b, t)
    /\ \/ \E row \in Counted(t, latest[b]) :
            /\ latest' = [latest EXCEPT ![b] = row]
            /\ tx' = [tx EXCEPT ![t] =
                 [Visited(t) EXCEPT !.results = Append(@, Result(t, TRUE, row))]]
       \/ /\ Counted(t, latest[b]) = {}
          /\ tx[t].snap # NoRow
          /\ tx' = [tx EXCEPT ![t] =
               [Visited(t) EXCEPT !.results = Append(@, Result(t, FALSE, tx[t].snap))]]
          /\ UNCHANGED latest
       \/ /\ Counted(t, latest[b]) = {}
          /\ tx[t].snap = NoRow
          /\ latest' = [c \in Buckets |-> IF c \in tx[t].locks THEN committed[c] ELSE latest[c]]
          /\ tx' = [tx EXCEPT ![t] = [NoTx EXCEPT !.failed = TRUE]]
    /\ UNCHANGED <<now, committed>>

AllCounted(t) == \A i \in DOMAIN tx[t].results : tx[t].results[i].counted

(* fault: counting stops at the first refusal *)
FinishedAtRefusal(t) == tx[t].todo = <<>> \/ ~AllCounted(t)

(* Every bucket has been counted.                                           *)
Finished(t) == tx[t].todo = <<>>

(* The transaction commits and recordAuthAttempt decides.                   *)
Decide(t) ==
    LET answered == {b \in Buckets : \E a \in DOMAIN tx[t].results :
                        tx[t].results[a].bucket = b} \cup
                    {tx[t].todo[i] : i \in DOMAIN tx[t].todo}
        Row(b) == [latest[b] EXCEPT
                     !.tried = IF @ < Limit[b] THEN @ + 1 ELSE @,
                     !.granted = IF AllCounted(t) THEN @ + 1 ELSE @]
    IN
    /\ tx[t].kind = "count" /\ Finished(t)
    /\ latest' = [b \in Buckets |-> IF b \in answered THEN Row(b) ELSE latest[b]]
    /\ committed' = [b \in Buckets |-> IF b \in answered THEN Row(b) ELSE committed[b]]
    /\ tx' = [tx EXCEPT ![t] = NoTx]
    /\ UNCHANGED now

-----------------------------------------------------------------------------
(* Clearing and pruning *)

(* resetAuthRateLimit clears the account's bucket and nothing else.         *)
Clears == Accounts

BeginClear(t) ==
    /\ Clearing
    /\ tx[t].kind = "none"
    /\ \E b \in Clears :
          tx' = [tx EXCEPT ![t] = [NoTx EXCEPT !.kind = "clear", !.todo = <<b>>]]
    /\ UNCHANGED <<now, latest, committed>>

(* Nothing is deleted, and nothing locked, where the snapshot has no row.   *)
Clear(t) ==
    LET b == Head(tx[t].todo) IN
    /\ tx[t].kind = "clear" /\ tx[t].issued
    /\ \/ /\ tx[t].snap = NoRow
          /\ tx' = [tx EXCEPT ![t].todo = <<>>]
          /\ UNCHANGED latest
       \/ /\ tx[t].snap # NoRow
          /\ Free(b, t)
          /\ latest' = [latest EXCEPT ![b] = NoRow]
          /\ tx' = [tx EXCEPT ![t] = Visited(t)]
    /\ UNCHANGED <<now, committed>>

(* pruneAuthRateLimits issues its statement: the rows that have expired in  *)
(* its snapshot, in whatever order they are scanned.  One prune at a time.  *)
BeginPrune(t) ==
    /\ Pruning
    /\ tx[t].kind = "none"
    /\ \A u \in Transactions : tx[u].kind # "prune"
    /\ LET dead == {b \in Buckets : committed[b] # NoRow /\ ~Live(committed[b], now)} IN
       \E scan \in {s \in UNION {[1..n -> dead] : n \in {Cardinality(dead)}} :
                      \A i, j \in DOMAIN s : i # j => s[i] # s[j]} :
          tx' = [tx EXCEPT ![t] = [NoTx EXCEPT !.kind = "prune", !.todo = scan,
                                               !.issued = TRUE, !.ts = now]]
    /\ UNCHANGED <<now, latest, committed>>

(* A row that was locked is judged again when its lock is free.             *)
StillDead(row, ts) == row # NoRow /\ ~Live(row, ts)

PruneOne(t) ==
    LET b == Head(tx[t].todo) IN
    /\ tx[t].kind = "prune" /\ tx[t].todo # <<>>
    /\ Free(b, t)
    /\ IF StillDead(latest[b], tx[t].ts)
       THEN latest' = [latest EXCEPT ![b] = NoRow] /\ tx' = [tx EXCEPT ![t] = Visited(t)]
       ELSE UNCHANGED latest /\ tx' = [tx EXCEPT ![t].todo = Tail(@)]
    /\ UNCHANGED <<now, committed>>

Commit(t) ==
    /\ tx[t].kind \in {"clear", "prune"}
    /\ tx[t].todo = <<>>
    /\ committed' = [b \in Buckets |-> IF b \in tx[t].locks THEN latest[b] ELSE committed[b]]
    /\ tx' = [tx EXCEPT ![t] = NoTx]
    /\ UNCHANGED <<now, latest>>

-----------------------------------------------------------------------------

(* The transaction fails (the connection, the process, a deadlock the       *)
(* server broke up) and everything it wrote is gone.                        *)
Abort(t) ==
    /\ tx[t].kind # "none"
    /\ latest' = [b \in Buckets |-> IF b \in tx[t].locks THEN committed[b] ELSE latest[b]]
    /\ tx' = [tx EXCEPT ![t] = NoTx]
    /\ UNCHANGED <<now, committed>>

Tick ==
    /\ now < MaxTime
    /\ now' = now + 1
    /\ UNCHANGED <<latest, committed, tx>>

Next ==
    \/ \E t \in Transactions :
          \/ BeginCount(t) \/ Issue(t) \/ CountOne(t) \/ Decide(t)
          \/ BeginClear(t) \/ Clear(t)
          \/ BeginPrune(t) \/ PruneOne(t) \/ Commit(t)
          \/ Abort(t)
    \/ Tick

Spec == Init /\ [][Next]_vars
-----------------------------------------------------------------------------
(* Properties *)

(* No window lets more attempts through than its limit, and none that is    *)
(* let through goes uncounted.                                              *)
WithinBudget ==
    \A b \in Buckets :
        /\ committed[b].granted <= committed[b].attempts
        /\ committed[b].attempts <= Limit[b]

(* Both dimensions are counted, whichever of them refuses: a bucket holds   *)
(* exactly the attempts made against it in its window, up to its limit.     *)
CountsEveryAttempt ==
    \A b \in Buckets : committed[b] # NoRow =>
        committed[b].attempts = committed[b].tried

InACircle(S) == \A t \in S : \E u \in S : Waits(t, u)

(* Attempts and clearings that overlap never wait for each other in a       *)
(* circle: each locks its rows in one order.                                *)
AttemptsNeverDeadlock ==
    \A S \in (SUBSET {t \in Transactions : tx[t].kind # "prune"}) \ {{}} : ~InACircle(S)

-----------------------------------------------------------------------------
(* What the comments promise                                                *)

(* Nothing waits in a circle, pruning included: "in the same order from     *)
(* every request".                                                          *)
NoDeadlock == \A S \in (SUBSET Transactions) \ {{}} : ~InACircle(S)

(* "The statement returns exactly one row, always."                         *)
CounterAlwaysAnswers == \A t \in Transactions : ~tx[t].failed

(* A refused attempt is told when the window it ran into releases.          *)
RefusalNamesARelease ==
    \A t \in Transactions : \A i \in DOMAIN tx[t].results :
        tx[t].results[i].counted \/ tx[t].results[i].live
=============================================================================
