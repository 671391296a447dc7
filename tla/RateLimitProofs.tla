-------------------------- MODULE RateLimitProofs --------------------------
(***************************************************************************)
(* Proofs about RateLimit.tla, for any accounts, addresses, limits, window *)
(* and number of overlapping transactions.                                 *)
(***************************************************************************)
EXTENDS RateLimit, FiniteSetTheorems, TLAPS

USE RateLimitAssumption

-----------------------------------------------------------------------------
(* The invariant *)

(* How far a transaction is, and what it holds by then: an attempt counts  *)
(* its account before its address, and a clearing has one row.             *)
InOrder(x) ==
    /\ x.kind = "none" => x.locks = {}
    /\ x.kind = "count" =>
          \/ /\ Len(x.todo) = 2 /\ x.todo[1] \in Accounts /\ x.todo[2] \in Addresses
             /\ x.locks = {}
          \/ Len(x.todo) = 1 /\ x.todo[1] \in Addresses /\ x.locks \subseteq Accounts
          \/ Len(x.todo) = 0 /\ ~x.issued
    /\ x.kind = "clear" =>
          \/ Len(x.todo) = 1 /\ x.locks = {}
          \/ Len(x.todo) = 0 /\ (x.issued => x.snap = NoRow)
    /\ x.kind # "count" => x.results = <<>>
    /\ \A i \in DOMAIN x.results : x.results[i].bucket \in x.locks

Ordered == \A t \in Transactions : InOrder(tx[t])

(* A row is locked by one transaction.                                     *)
Exclusive == \A t, u \in Transactions : t # u => tx[t].locks \cap tx[u].locks = {}

(* What a committed row counts adds up; the latest version of a row is one *)
(* ahead while the attempt counted last in it is undecided.                *)
Within(row, b) == row.granted <= row.attempts /\ row.attempts <= Limit[b]
Settled(row) == row.attempts = row.tried
Ahead(row) == row.attempts = row.tried + 1 /\ row.granted < row.attempts

CountedBy(x, b) ==
    \E i \in DOMAIN x.results : x.results[i].bucket = b /\ x.results[i].counted
RefusedBy(x, b) ==
    \E i \in DOMAIN x.results : x.results[i].bucket = b /\ ~x.results[i].counted
CountedIn(b) == \E t \in Transactions : CountedBy(tx[t], b)
RefusedIn(b) == \E t \in Transactions : RefusedBy(tx[t], b)

RowsAddUp ==
    \A b \in Buckets :
        /\ Within(committed[b], b) /\ Settled(committed[b])
        /\ Within(latest[b], b)
        /\ IF CountedIn(b) THEN Ahead(latest[b]) ELSE Settled(latest[b])
        /\ RefusedIn(b) => Settled(latest[b]) /\ latest[b].attempts = Limit[b]

IInv == TypeOK /\ Ordered /\ Exclusive /\ RowsAddUp

-----------------------------------------------------------------------------
(* Transactions *)

LEMMA NoTxType == NoTx \in TxType /\ InOrder(NoTx)
<1>1. NoRow \in RowType
  BY DEF NoRow, RowType
<1> QED BY <1>1 DEF NoTx, TxType, Kinds, InOrder

LEMMA Fields ==
    ASSUME TypeOK, NEW t \in Transactions
    PROVE  /\ tx[t] \in TxType
           /\ tx[t].kind \in Kinds /\ tx[t].todo \in Seq(Buckets) /\ tx[t].issued \in BOOLEAN
           /\ tx[t].ts \in Nat /\ tx[t].snap \in RowType /\ tx[t].locks \in SUBSET Buckets
           /\ tx[t].results \in Seq(ResultType) /\ tx[t].failed \in BOOLEAN
  BY DEF TypeOK, TxType

LEMMA HeadIsBucket ==
    ASSUME NEW s \in Seq(Buckets), s # <<>>
    PROVE  Head(s) \in Buckets /\ Tail(s) \in Seq(Buckets) /\ Len(s) \in Nat /\ Len(s) > 0
           /\ Head(s) = s[1] /\ Len(Tail(s)) = Len(s) - 1
           /\ (Len(s) = 2 => Tail(s)[1] = s[2])
  OBVIOUS

(* A statement in progress has a row to visit.                             *)
LEMMA InProgress ==
    ASSUME TypeOK, Ordered, NEW t \in Transactions,
           tx[t].kind \in {"count", "clear"}, tx[t].issued,
           tx[t].kind = "clear" => tx[t].snap # NoRow
    PROVE  tx[t].todo # <<>>
<1>1. InOrder(tx[t]) /\ tx[t].todo \in Seq(Buckets)
  BY Fields DEF Ordered
<1> QED BY <1>1 DEF InOrder

LEMMA VisitedFields ==
    ASSUME TypeOK, NEW t \in Transactions, tx[t].todo # <<>>
    PROVE  /\ Visited(t) \in TxType
           /\ Visited(t).kind = tx[t].kind /\ Visited(t).results = tx[t].results
           /\ Visited(t).todo = Tail(tx[t].todo) /\ Visited(t).snap = tx[t].snap
           /\ Visited(t).locks = tx[t].locks \cup {Head(tx[t].todo)}
           /\ tx[t].kind # "prune" => Visited(t).issued = FALSE
<1> DEFINE todo == Tail(tx[t].todo)
           locks == tx[t].locks \cup {Head(tx[t].todo)}
<1>1. tx[t] \in TxType /\ todo \in Seq(Buckets) /\ locks \in SUBSET Buckets
  BY Fields, HeadIsBucket
<1>2. tx[t].todo \in Seq(Buckets) /\ tx[t].locks \in SUBSET Buckets
  BY Fields
<1> DEFINE x == [tx[t] EXCEPT !.todo = todo, !.locks = locks]
<1>3. Visited(t) = IF x.kind = "prune" THEN x ELSE [x EXCEPT !.issued = FALSE]
  BY DEF Visited
<1> HIDE DEF todo, locks
<1>4. /\ x \in TxType /\ x.kind = tx[t].kind /\ x.results = tx[t].results /\ x.todo = todo
      /\ x.snap = tx[t].snap /\ x.locks = locks
  BY <1>1 DEF TxType
<1> HIDE DEF x
<1>5. LET y == [x EXCEPT !.issued = FALSE]
      IN  /\ y \in TxType /\ y.kind = x.kind /\ y.results = x.results /\ y.todo = x.todo
          /\ y.snap = x.snap /\ y.locks = x.locks /\ y.issued = FALSE
  BY <1>4 DEF TxType
<1> QED BY <1>3, <1>4, <1>5 DEF todo, locks

LEMMA ResultFields ==
    ASSUME TypeOK, NEW t \in Transactions, tx[t].todo # <<>>, NEW room \in BOOLEAN,
           NEW row \in RowType
    PROVE  /\ Result(t, room, row) \in ResultType
           /\ Result(t, room, row).bucket = Head(tx[t].todo)
           /\ Result(t, room, row).counted = room
<1>1. Head(tx[t].todo) \in Buckets /\ Live(row, tx[t].ts) \in BOOLEAN
  BY Fields, HeadIsBucket DEF Live, RowType
<1> QED BY <1>1 DEF Result, ResultType

LEMMA WithResults ==
    ASSUME NEW y \in TxType, NEW s \in Seq(ResultType)
    PROVE  LET x == [y EXCEPT !.results = s]
           IN  /\ x \in TxType /\ x.kind = y.kind /\ x.todo = y.todo /\ x.snap = y.snap
               /\ x.locks = y.locks /\ x.issued = y.issued /\ x.results = s
  BY DEF TxType

(* A row's answer is added to a transaction's.                             *)
WithAnswer(y, result) == [y EXCEPT !.results = Append(@, result)]

LEMMA ReportedFields ==
    ASSUME NEW y \in TxType, NEW result \in ResultType
    PROVE  LET x == WithAnswer(y, result)
           IN  /\ x \in TxType /\ x.kind = y.kind /\ x.todo = y.todo /\ x.snap = y.snap
               /\ x.locks = y.locks /\ x.issued = y.issued
               /\ x.results[Len(y.results) + 1] = result
               /\ \A i \in DOMAIN y.results : x.results[i] = y.results[i]
               /\ DOMAIN x.results = DOMAIN y.results \cup {Len(y.results) + 1}
<1> DEFINE s == Append(y.results, result)
           x == [y EXCEPT !.results = s]
<1>1. y.results \in Seq(ResultType)
  BY DEF TxType
<1>2. /\ s \in Seq(ResultType) /\ s[Len(y.results) + 1] = result
      /\ \A i \in DOMAIN y.results : s[i] = y.results[i]
      /\ DOMAIN s = DOMAIN y.results \cup {Len(y.results) + 1}
  BY <1>1
<1>3. WithAnswer(y, result) = x
  BY DEF WithAnswer
<1> HIDE DEF s
<1>4. /\ x \in TxType /\ x.kind = y.kind /\ x.todo = y.todo /\ x.snap = y.snap
      /\ x.locks = y.locks /\ x.issued = y.issued /\ x.results = s
  BY <1>2, WithResults
<1> HIDE DEF x
<1> QED BY <1>2, <1>3, <1>4

(* One transaction moves, and locks nothing that another holds.            *)
LEMMA Moves ==
    ASSUME TypeOK, Ordered, Exclusive, NEW t \in Transactions, NEW x \in TxType, InOrder(x),
           tx' = [tx EXCEPT ![t] = x],
           \A b \in x.locks : b \in tx[t].locks \/ Free(b, t)
    PROVE  tx' \in [Transactions -> TxType] /\ Ordered' /\ Exclusive'
<1>1. \A u \in Transactions : tx'[u] = IF u = t THEN x ELSE tx[u]
  BY DEF TypeOK
<1>2. tx' \in [Transactions -> TxType]
  BY DEF TypeOK
<1>3. Ordered'
  BY <1>1 DEF Ordered
<1>4. Exclusive'
  BY <1>1 DEF Exclusive, Free
<1> QED BY <1>2, <1>3, <1>4

LEMMA CountedType ==
    ASSUME TypeOK, NEW t \in Transactions, NEW row \in RowType, NEW new \in Counted(t, row)
    PROVE  new \in RowType
<1>1. tx[t].ts + WindowMs \in Nat
  BY Fields
<1>2. Opened(tx[t].ts) \in RowType
  BY <1>1 DEF Opened, RowType
<1>3. Spent(row) \in RowType
  BY DEF Spent, RowType
<1> QED BY <1>2, <1>3 DEF Counted

(* A transaction that ends holds nothing.                                  *)
LEMMA Ends ==
    ASSUME TypeOK, Ordered, Exclusive, NEW t \in Transactions, tx' = [tx EXCEPT ![t] = NoTx]
    PROVE  tx' \in [Transactions -> TxType] /\ Ordered' /\ Exclusive'
<1>1. NoTx.locks = {}
  BY DEF NoTx
<1> QED BY <1>1, NoTxType, Moves

Schedule == TypeOK /\ Ordered /\ Exclusive

LEMMA BeginCountSchedule ==
    ASSUME Schedule, NEW t \in Transactions, BeginCount(t) PROVE Schedule'
<1>1. PICK account \in Accounts, address \in Addresses :
        tx' = [tx EXCEPT ![t] = [NoTx EXCEPT !.kind = "count", !.todo = <<account, address>>]]
  BY DEF BeginCount, LockOrder
<1> DEFINE todo == <<account, address>>
           x == [NoTx EXCEPT !.kind = "count", !.todo = todo]
<1>2. todo \in Seq(Buckets) /\ Len(todo) = 2 /\ todo[1] \in Accounts /\ todo[2] \in Addresses
  BY DEF Buckets
<1> HIDE DEF todo
<1>3. x \in TxType /\ x.kind = "count" /\ x.todo = todo /\ x.locks = {} /\ x.results = <<>>
  BY <1>2, NoTxType DEF NoTx, TxType, Kinds
<1> HIDE DEF x
<1>4. InOrder(x)
  BY <1>2, <1>3 DEF InOrder
<1>5. tx' = [tx EXCEPT ![t] = x]
  BY <1>1 DEF x, todo
<1> QED BY <1>3, <1>4, <1>5, Moves DEF Schedule, TypeOK, BeginCount

LEMMA BeginClearSchedule ==
    ASSUME Schedule, NEW t \in Transactions, BeginClear(t) PROVE Schedule'
<1>1. PICK b \in Accounts :
        tx' = [tx EXCEPT ![t] = [NoTx EXCEPT !.kind = "clear", !.todo = <<b>>]]
  BY DEF BeginClear, Clears
<1> DEFINE todo == <<b>>
           x == [NoTx EXCEPT !.kind = "clear", !.todo = todo]
<1>2. todo \in Seq(Buckets) /\ Len(todo) = 1
  BY DEF Buckets
<1> HIDE DEF todo
<1>3. x \in TxType /\ x.kind = "clear" /\ x.todo = todo /\ x.locks = {} /\ x.results = <<>>
  BY <1>2, NoTxType DEF NoTx, TxType, Kinds
<1> HIDE DEF x
<1>4. InOrder(x)
  BY <1>2, <1>3 DEF InOrder
<1>5. tx' = [tx EXCEPT ![t] = x]
  BY <1>1 DEF x, todo
<1> QED BY <1>3, <1>4, <1>5, Moves DEF Schedule, TypeOK, BeginClear

LEMMA BeginPruneSchedule ==
    ASSUME Schedule, NEW t \in Transactions, BeginPrune(t) PROVE Schedule'
<1> DEFINE dead == {b \in Buckets : committed[b] # NoRow /\ ~Live(committed[b], now)}
<1>1. Cardinality(dead) \in Nat
  BY FS_Subset, FS_CardinalityType
<1> HIDE DEF dead
<1>2. dead \subseteq Buckets
  BY DEF dead
<1>3. PICK scan \in [1..Cardinality(dead) -> dead] :
        tx' = [tx EXCEPT ![t] = [NoTx EXCEPT !.kind = "prune", !.todo = scan,
                                             !.issued = TRUE, !.ts = now]]
  BY DEF BeginPrune, dead
<1>4. scan \in Seq(Buckets)
  BY <1>1, <1>2
<1> DEFINE x == [NoTx EXCEPT !.kind = "prune", !.todo = scan, !.issued = TRUE, !.ts = now]
<1>5. x \in TxType /\ x.kind = "prune" /\ x.locks = {} /\ x.results = <<>>
  BY <1>4, NoTxType DEF NoTx, TxType, Kinds, Schedule, TypeOK
<1> HIDE DEF x
<1>6. InOrder(x)
  BY <1>5 DEF InOrder
<1>7. tx' = [tx EXCEPT ![t] = x]
  BY <1>3 DEF x
<1> QED BY <1>5, <1>6, <1>7, Moves DEF Schedule, TypeOK, BeginPrune

LEMMA IssueSchedule ==
    ASSUME Schedule, NEW t \in Transactions, Issue(t) PROVE Schedule'
<1> DEFINE row == committed[Head(tx[t].todo)]
           x == [tx[t] EXCEPT !.issued = TRUE, !.ts = now, !.snap = row]
<1>1. tx[t] \in TxType /\ row \in RowType /\ now \in Nat /\ InOrder(tx[t])
  BY Fields, HeadIsBucket DEF Issue, Schedule, TypeOK, Ordered
<1>2. tx' = [tx EXCEPT ![t] = x]
  BY DEF Issue, Schedule, TypeOK
<1> HIDE DEF row
<1>3. /\ x \in TxType /\ x.kind = tx[t].kind /\ x.todo = tx[t].todo /\ x.locks = tx[t].locks
      /\ x.results = tx[t].results
  BY <1>1 DEF TxType
<1> HIDE DEF x
<1>4. tx[t].todo # <<>> /\ tx[t].kind \in {"count", "clear"}
  BY DEF Issue
<1>5. InOrder(x)
  BY <1>1, <1>3, <1>4 DEF InOrder
<1> QED BY <1>2, <1>3, <1>5, Moves DEF Schedule, TypeOK, Issue

(* A row is visited by a transaction that counts it, or that clears it.    *)
LEMMA VisitedInOrder ==
    ASSUME Schedule, NEW t \in Transactions, tx[t].todo # <<>>,
           NEW x \in TxType, x.kind = tx[t].kind, x.todo = Tail(tx[t].todo),
           x.locks = tx[t].locks \cup {Head(tx[t].todo)},
           x.kind # "prune" => ~x.issued,
           x.kind # "count" => x.results = <<>>,
           \A i \in DOMAIN x.results : x.results[i].bucket \in x.locks,
           x.kind # "none"
    PROVE  InOrder(x)
<1>1. tx[t].todo \in Seq(Buckets) /\ InOrder(tx[t])
  BY Fields DEF Schedule, Ordered
<1>2. Len(tx[t].todo) \in Nat /\ Len(tx[t].todo) > 0 /\ Head(tx[t].todo) = tx[t].todo[1]
      /\ x.todo \in Seq(Buckets) /\ Len(x.todo) = Len(tx[t].todo) - 1
      /\ (Len(tx[t].todo) = 2 => x.todo[1] = tx[t].todo[2])
  BY <1>1, HeadIsBucket
<1>3. CASE x.kind = "count"
  <2>1. CASE Len(tx[t].todo) = 2
    BY <1>1, <1>2, <1>3, <2>1 DEF InOrder
  <2>2. CASE Len(tx[t].todo) = 1
    <3>1. Len(x.todo) = 0
      BY <1>2, <2>2
    <3> QED BY <1>3, <3>1 DEF InOrder
  <2> QED BY <1>1, <1>2, <1>3, <2>1, <2>2 DEF InOrder
<1>4. CASE x.kind = "clear"
  <2>1. Len(x.todo) = 0
    BY <1>1, <1>2, <1>4 DEF InOrder
  <2> QED BY <1>4, <2>1 DEF InOrder
<1>5. CASE x.kind = "prune"
  BY <1>5 DEF InOrder
<1> QED BY <1>3, <1>4, <1>5 DEF TxType, Kinds

(* A counted row's answer is noted.                                        *)
Noted(t, result) == WithAnswer(Visited(t), result)

LEMMA NotedFields ==
    ASSUME Schedule, NEW t \in Transactions, tx[t].todo # <<>>, tx[t].kind = "count",
           NEW result \in ResultType
    PROVE  LET x == Noted(t, result)
           IN  /\ x \in TxType /\ x.kind = "count" /\ x.todo = Tail(tx[t].todo)
               /\ x.locks = tx[t].locks \cup {Head(tx[t].todo)} /\ x.issued = FALSE
               /\ x.results[Len(tx[t].results) + 1] = result
               /\ \A i \in DOMAIN tx[t].results : x.results[i] = tx[t].results[i]
               /\ DOMAIN x.results = DOMAIN tx[t].results \cup {Len(tx[t].results) + 1}
<1> DEFINE y == Visited(t)
<1>1. /\ y \in TxType /\ y.kind = "count" /\ y.todo = Tail(tx[t].todo)
      /\ y.results = tx[t].results /\ y.locks = tx[t].locks \cup {Head(tx[t].todo)}
      /\ y.issued = FALSE
  BY VisitedFields DEF Schedule
<1>2. Noted(t, result) = WithAnswer(y, result)
  BY DEF Noted
<1> HIDE DEF y
<1> DEFINE x == WithAnswer(y, result)
<1>3. /\ x \in TxType /\ x.kind = y.kind /\ x.todo = y.todo /\ x.locks = y.locks
      /\ x.issued = y.issued
      /\ x.results[Len(y.results) + 1] = result
      /\ \A i \in DOMAIN y.results : x.results[i] = y.results[i]
      /\ DOMAIN x.results = DOMAIN y.results \cup {Len(y.results) + 1}
  BY <1>1, ReportedFields
<1> HIDE DEF x
<1>4. x = Noted(t, result)
  BY <1>2 DEF x
<1> QED BY <1>1, <1>3, <1>4

LEMMA NotedInOrder ==
    ASSUME Schedule, NEW t \in Transactions, tx[t].todo # <<>>, tx[t].kind = "count",
           NEW result \in ResultType, result.bucket = Head(tx[t].todo)
    PROVE  /\ Noted(t, result) \in TxType /\ InOrder(Noted(t, result))
           /\ Noted(t, result).locks = tx[t].locks \cup {Head(tx[t].todo)}
<1> DEFINE x == Noted(t, result)
<1>1. /\ x \in TxType /\ x.kind = "count" /\ x.todo = Tail(tx[t].todo)
      /\ x.locks = tx[t].locks \cup {Head(tx[t].todo)} /\ x.issued = FALSE
      /\ x.results[Len(tx[t].results) + 1] = result
      /\ \A i \in DOMAIN tx[t].results : x.results[i] = tx[t].results[i]
      /\ DOMAIN x.results = DOMAIN tx[t].results \cup {Len(tx[t].results) + 1}
  BY NotedFields
<1> HIDE DEF x
<1>2. \A i \in DOMAIN tx[t].results : tx[t].results[i].bucket \in tx[t].locks
  BY DEF Schedule, Ordered, InOrder
<1>3. \A i \in DOMAIN x.results : x.results[i].bucket \in x.locks
  BY <1>1, <1>2
<1>4. InOrder(x)
  BY <1>1, <1>3, VisitedInOrder
<1> QED BY <1>1, <1>4 DEF x

(* What countOne does with the row: leaves it counted, or refuses, or      *)
(* throws.                                                                 *)
CountsRow(t, row) ==
    /\ latest' = [latest EXCEPT ![Head(tx[t].todo)] = row]
    /\ tx' = [tx EXCEPT ![t] = Noted(t, Result(t, TRUE, row))]
RefusesRow(t) ==
    /\ Counted(t, latest[Head(tx[t].todo)]) = {}
    /\ tx' = [tx EXCEPT ![t] = Noted(t, Result(t, FALSE, tx[t].snap))]
    /\ UNCHANGED latest
Throws(t) ==
    /\ latest' = [c \in Buckets |-> IF c \in tx[t].locks THEN committed[c] ELSE latest[c]]
    /\ tx' = [tx EXCEPT ![t] = [NoTx EXCEPT !.failed = TRUE]]

LEMMA CountOneCases ==
    ASSUME Schedule, NEW t \in Transactions, CountOne(t)
    PROVE  /\ tx[t].todo # <<>> /\ tx[t].kind = "count" /\ Free(Head(tx[t].todo), t)
           /\ Head(tx[t].todo) \in Buckets /\ UNCHANGED <<now, committed>>
           /\ \/ \E row \in Counted(t, latest[Head(tx[t].todo)]) : CountsRow(t, row)
              \/ RefusesRow(t)
              \/ Throws(t)
<1>1. tx[t].todo # <<>>
  BY InProgress DEF CountOne, Schedule
<1>2. tx[t].todo \in Seq(Buckets)
  BY Fields DEF Schedule
<1> QED BY <1>1, <1>2, HeadIsBucket DEF CountOne, CountsRow, RefusesRow, Throws, Noted,
                                        WithAnswer

LEMMA CountOneSchedule ==
    ASSUME Schedule, NEW t \in Transactions, CountOne(t) PROVE Schedule'
<1> DEFINE b == Head(tx[t].todo)
<1>1. /\ tx[t].todo # <<>> /\ tx[t].kind = "count" /\ Free(b, t) /\ b \in Buckets
      /\ UNCHANGED <<now, committed>>
  BY CountOneCases
<1>2. tx[t].snap \in RowType /\ latest[b] \in RowType
  BY <1>1, Fields DEF Schedule, TypeOK
<1>3. ASSUME NEW result \in ResultType, result.bucket = b,
             tx' = [tx EXCEPT ![t] = Noted(t, result)], latest' \in [Buckets -> RowType]
      PROVE  Schedule'
  <2>1. /\ Noted(t, result) \in TxType /\ InOrder(Noted(t, result))
        /\ Noted(t, result).locks = tx[t].locks \cup {b}
    BY <1>1, <1>3, NotedInOrder
  <2>2. \A c \in Noted(t, result).locks : c \in tx[t].locks \/ Free(c, t)
    BY <1>1, <2>1
  <2> QED BY <1>1, <1>3, <2>1, <2>2, Moves DEF Schedule, TypeOK
<1>4. ASSUME NEW row \in Counted(t, latest[b]), CountsRow(t, row) PROVE Schedule'
  <2>1. row \in RowType
    BY <1>2, CountedType DEF Schedule
  <2>2. Result(t, TRUE, row) \in ResultType /\ Result(t, TRUE, row).bucket = b
    BY <1>1, <2>1, ResultFields DEF Schedule
  <2> QED BY <1>3, <1>4, <2>1, <2>2 DEF CountsRow, Schedule, TypeOK
<1>5. CASE RefusesRow(t)
  <2>1. Result(t, FALSE, tx[t].snap) \in ResultType /\ Result(t, FALSE, tx[t].snap).bucket = b
    BY <1>1, <1>2, ResultFields DEF Schedule
  <2> QED BY <1>3, <1>5, <2>1 DEF RefusesRow, Schedule, TypeOK
<1>6. CASE Throws(t)
  <2> DEFINE x == [NoTx EXCEPT !.failed = TRUE]
  <2>1. x \in TxType /\ x.kind = "none" /\ x.locks = {} /\ x.results = <<>>
    BY NoTxType DEF NoTx, TxType
  <2>2. tx' = [tx EXCEPT ![t] = x] /\ latest' \in [Buckets -> RowType]
    BY <1>6 DEF Throws, Schedule, TypeOK
  <2> HIDE DEF x
  <2>3. InOrder(x)
    BY <2>1 DEF InOrder
  <2> QED BY <1>1, <2>1, <2>2, <2>3, Moves DEF Schedule, TypeOK
<1> QED BY <1>4, <1>5, <1>6, CountOneCases

(* recordAuthAttempt's answer, in the rows it counted.                     *)
Answered(t) == {b \in Buckets : \E i \in DOMAIN tx[t].results : tx[t].results[i].bucket = b}
DecidedRow(t, b) ==
    [latest[b] EXCEPT !.tried = IF @ < Limit[b] THEN @ + 1 ELSE @,
                      !.granted = IF AllCounted(t) THEN @ + 1 ELSE @]

LEMMA DecideRows ==
    ASSUME Schedule, NEW t \in Transactions, Decide(t)
    PROVE  /\ latest' = [b \in Buckets |-> IF b \in Answered(t) THEN DecidedRow(t, b) ELSE latest[b]]
           /\ committed' = [b \in Buckets |-> IF b \in Answered(t) THEN DecidedRow(t, b)
                                                                  ELSE committed[b]]
           /\ tx' = [tx EXCEPT ![t] = NoTx] /\ UNCHANGED now /\ tx[t].kind = "count"
<1>1. tx[t].todo = <<>>
  BY DEF Decide, Finished
<1>2. {tx[t].todo[i] : i \in DOMAIN tx[t].todo} = {}
  BY <1>1
<1> QED BY <1>2 DEF Decide, Answered, DecidedRow

LEMMA DecidedRowFields ==
    ASSUME Schedule, NEW t \in Transactions, NEW b \in Buckets
    PROVE  LET old == latest[b]
               new == DecidedRow(t, b)
           IN  /\ new \in RowType /\ new.attempts = old.attempts
               /\ new.tried = (IF old.tried < Limit[b] THEN old.tried + 1 ELSE old.tried)
               /\ new.granted = (IF AllCounted(t) THEN old.granted + 1 ELSE old.granted)
<1>1. latest[b] \in RowType /\ Limit[b] \in Nat
  BY DEF Schedule, TypeOK
<1> DEFINE tried == IF latest[b].tried < Limit[b] THEN latest[b].tried + 1 ELSE latest[b].tried
           granted == IF AllCounted(t) THEN latest[b].granted + 1 ELSE latest[b].granted
<1>2. tried \in Nat /\ granted \in Nat
  BY <1>1 DEF RowType
<1>3. DecidedRow(t, b) = [latest[b] EXCEPT !.tried = tried, !.granted = granted]
  BY <1>1 DEF DecidedRow, RowType
<1> HIDE DEF tried, granted
<1>4. LET new == [latest[b] EXCEPT !.tried = tried, !.granted = granted]
      IN  /\ new \in RowType /\ new.attempts = latest[b].attempts
          /\ new.tried = tried /\ new.granted = granted
  BY <1>1, <1>2 DEF RowType
<1> QED BY <1>3, <1>4 DEF tried, granted

LEMMA DecideSchedule ==
    ASSUME Schedule, NEW t \in Transactions, Decide(t) PROVE Schedule'
<1>1. latest' \in [Buckets -> RowType] /\ committed' \in [Buckets -> RowType]
  BY DecideRows, DecidedRowFields DEF Schedule, TypeOK
<1> QED BY <1>1, DecideRows, Ends DEF Schedule, TypeOK
LEMMA ClearCases ==
    ASSUME Schedule, NEW t \in Transactions, Clear(t)
    PROVE  /\ tx[t].kind = "clear" /\ UNCHANGED <<now, committed>>
           /\ \/ /\ tx[t].snap = NoRow /\ UNCHANGED latest
                 /\ tx' = [tx EXCEPT ![t] = [tx[t] EXCEPT !.todo = <<>>]]
              \/ /\ tx[t].todo # <<>> /\ Head(tx[t].todo) \in Buckets
                 /\ Free(Head(tx[t].todo), t)
                 /\ latest' = [latest EXCEPT ![Head(tx[t].todo)] = NoRow]
                 /\ tx' = [tx EXCEPT ![t] = Visited(t)]
<1>1. tx[t].snap # NoRow => tx[t].todo # <<>>
  BY InProgress DEF Clear, Schedule
<1>2. tx[t].todo \in Seq(Buckets)
  BY Fields DEF Schedule
<1>3. tx[t].todo # <<>> => Head(tx[t].todo) \in Buckets
  BY <1>2, HeadIsBucket
<1> QED BY <1>1, <1>3 DEF Clear, Schedule, TypeOK

LEMMA NoRowType == NoRow \in RowType
  BY DEF NoRow, RowType

LEMMA Shortened ==
    ASSUME NEW y \in TxType, NEW s \in Seq(Buckets)
    PROVE  LET x == [y EXCEPT !.todo = s]
           IN  /\ x \in TxType /\ x.kind = y.kind /\ x.todo = s /\ x.snap = y.snap
               /\ x.locks = y.locks /\ x.issued = y.issued /\ x.results = y.results
  BY DEF TxType

LEMMA ClearSchedule ==
    ASSUME Schedule, NEW t \in Transactions, Clear(t) PROVE Schedule'
<1>1. tx[t] \in TxType /\ InOrder(tx[t]) /\ tx[t].kind = "clear" /\ UNCHANGED <<now, committed>>
  BY ClearCases, Fields DEF Schedule, Ordered
<1>2. CASE /\ tx[t].snap = NoRow /\ UNCHANGED latest
           /\ tx' = [tx EXCEPT ![t] = [tx[t] EXCEPT !.todo = <<>>]]
  <2> DEFINE none == <<>>
             x == [tx[t] EXCEPT !.todo = none]
  <2>1. none \in Seq(Buckets) /\ Len(none) = 0
    OBVIOUS
  <2>2. tx' = [tx EXCEPT ![t] = x]
    BY <1>2
  <2> HIDE DEF none
  <2>3. /\ x \in TxType /\ x.kind = "clear" /\ x.todo = none /\ x.snap = NoRow
        /\ x.locks = tx[t].locks /\ x.results = tx[t].results
    BY <1>1, <1>2, <2>1, Shortened
  <2> HIDE DEF x
  <2>4. InOrder(x)
    BY <1>1, <2>1, <2>3 DEF InOrder
  <2> QED BY <1>1, <1>2, <2>2, <2>3, <2>4, Moves DEF Schedule, TypeOK
<1>3. CASE /\ tx[t].todo # <<>> /\ Head(tx[t].todo) \in Buckets
           /\ Free(Head(tx[t].todo), t)
           /\ latest' = [latest EXCEPT ![Head(tx[t].todo)] = NoRow]
           /\ tx' = [tx EXCEPT ![t] = Visited(t)]
  <2>1. /\ Visited(t) \in TxType /\ Visited(t).kind = "clear" /\ Visited(t).results = tx[t].results
        /\ Visited(t).todo = Tail(tx[t].todo) /\ Visited(t).issued = FALSE
        /\ Visited(t).locks = tx[t].locks \cup {Head(tx[t].todo)}
    BY <1>1, <1>3, VisitedFields DEF Schedule
  <2>2. tx[t].results = <<>>
    BY <1>1 DEF InOrder
  <2>3. InOrder(Visited(t))
    BY <1>1, <1>3, <2>1, <2>2, VisitedInOrder
  <2>4. latest' \in [Buckets -> RowType]
    BY <1>3, NoRowType DEF Schedule, TypeOK
  <2> QED BY <1>1, <1>3, <2>1, <2>3, <2>4, Moves DEF Schedule, TypeOK
<1> QED BY <1>2, <1>3, ClearCases

LEMMA PruneOneSchedule ==
    ASSUME Schedule, NEW t \in Transactions, PruneOne(t) PROVE Schedule'
<1>1. /\ tx[t] \in TxType /\ InOrder(tx[t]) /\ tx[t].kind = "prune"
      /\ tx[t].todo # <<>> /\ Free(Head(tx[t].todo), t) /\ UNCHANGED <<now, committed>>
  BY Fields DEF Schedule, Ordered, PruneOne
<1>2. /\ Head(tx[t].todo) \in Buckets /\ Tail(tx[t].todo) \in Seq(Buckets)
  BY <1>1, Fields, HeadIsBucket DEF Schedule
<1>3. CASE StillDead(latest[Head(tx[t].todo)], tx[t].ts)
  <2>1. /\ Visited(t) \in TxType /\ Visited(t).kind = "prune" /\ Visited(t).results = tx[t].results
        /\ Visited(t).locks = tx[t].locks \cup {Head(tx[t].todo)}
    BY <1>1, VisitedFields DEF Schedule
  <2>2. InOrder(Visited(t))
    BY <1>1, <2>1 DEF InOrder
  <2>3. latest' \in [Buckets -> RowType] /\ tx' = [tx EXCEPT ![t] = Visited(t)]
    BY <1>3, NoRowType DEF Schedule, TypeOK, PruneOne
  <2> QED BY <1>1, <2>1, <2>2, <2>3, Moves DEF Schedule, TypeOK
<1>4. CASE ~StillDead(latest[Head(tx[t].todo)], tx[t].ts)
  <2> DEFINE todo == Tail(tx[t].todo)
             x == [tx[t] EXCEPT !.todo = todo]
  <2>1. tx' = [tx EXCEPT ![t] = x] /\ UNCHANGED latest
    BY <1>4 DEF PruneOne, Schedule, TypeOK
  <2> HIDE DEF todo
  <2>2. /\ x \in TxType /\ x.kind = "prune" /\ x.locks = tx[t].locks /\ x.results = tx[t].results
    BY <1>1, <1>2, Shortened DEF todo
  <2> HIDE DEF x
  <2>3. InOrder(x)
    BY <1>1, <2>2 DEF InOrder
  <2> QED BY <1>1, <2>1, <2>2, <2>3, Moves DEF Schedule, TypeOK
<1> QED BY <1>3, <1>4

LEMMA CommitSchedule ==
    ASSUME Schedule, NEW t \in Transactions, Commit(t) PROVE Schedule'
  BY Ends DEF Commit, Schedule, TypeOK

LEMMA AbortSchedule ==
    ASSUME Schedule, NEW t \in Transactions, Abort(t) PROVE Schedule'
  BY Ends DEF Abort, Schedule, TypeOK

LEMMA TickSchedule ==
    ASSUME Schedule, Tick PROVE Schedule'
<1>1. now' \in Nat /\ UNCHANGED <<latest, committed, tx>>
  BY DEF Tick, Schedule, TypeOK
<1>2. Ordered' /\ Exclusive'
  BY <1>1 DEF Schedule, Ordered, Exclusive
<1> QED BY <1>1, <1>2 DEF Schedule, TypeOK
-----------------------------------------------------------------------------
(* What the rows count *)

Consistent(b) ==
    /\ Within(latest[b], b)
    /\ IF CountedIn(b) THEN Ahead(latest[b]) ELSE Settled(latest[b])
    /\ RefusedIn(b) => Settled(latest[b]) /\ latest[b].attempts = Limit[b]

(* A transaction that holds a row is the only one with an answer for it.   *)
LEMMA OnlyHolder ==
    ASSUME Schedule, NEW t \in Transactions, NEW b \in Buckets, Free(b, t)
    PROVE  \A u \in Transactions \ {t} : ~CountedBy(tx[u], b) /\ ~RefusedBy(tx[u], b)
  BY DEF Schedule, Ordered, InOrder, Free, CountedBy, RefusedBy

LEMMA HeldIsFree ==
    ASSUME Schedule, NEW t \in Transactions, NEW b \in tx[t].locks
    PROVE  Free(b, t)
  BY DEF Schedule, Exclusive, Free

LEMMA NotHeldNoAnswer ==
    ASSUME Schedule, NEW t \in Transactions, NEW b, b \notin tx[t].locks
    PROVE  ~CountedBy(tx[t], b) /\ ~RefusedBy(tx[t], b)
  BY DEF Schedule, Ordered, InOrder, CountedBy, RefusedBy

LEMMA NoResults ==
    ASSUME NEW y, NEW b, y.results = <<>>
    PROVE  ~CountedBy(y, b) /\ ~RefusedBy(y, b)
  BY DEF CountedBy, RefusedBy

(* A row another transaction cannot hold, and this one has no answer for,  *)
(* is settled.                                                             *)
LEMMA SettledWhenFree ==
    ASSUME Schedule, RowsAddUp, NEW t \in Transactions, NEW b \in Buckets, Free(b, t),
           ~CountedBy(tx[t], b)
    PROVE  Settled(latest[b])
  BY OnlyHolder DEF RowsAddUp, CountedIn

(* A step of one transaction leaves a row and its answers for it as they   *)
(* were, or holds the row and leaves it consistent.                        *)
Keeps(t, x, b) ==
    /\ latest'[b] = latest[b]
    /\ CountedBy(x, b) <=> CountedBy(tx[t], b)
    /\ RefusedBy(x, b) <=> RefusedBy(tx[t], b)
Writes(t, x, b) ==
    /\ Free(b, t)
    /\ Within(latest'[b], b)
    /\ IF CountedBy(x, b) THEN Ahead(latest'[b]) ELSE Settled(latest'[b])
    /\ RefusedBy(x, b) => Settled(latest'[b]) /\ latest'[b].attempts = Limit[b]

LEMMA RowsMove ==
    ASSUME Schedule, RowsAddUp, NEW t \in Transactions, NEW x, tx' = [tx EXCEPT ![t] = x],
           \A b \in Buckets : Within(committed'[b], b) /\ Settled(committed'[b]),
           \A b \in Buckets : Keeps(t, x, b) \/ Writes(t, x, b)
    PROVE  RowsAddUp'
<1>1. \A u \in Transactions : tx'[u] = IF u = t THEN x ELSE tx[u]
  BY DEF Schedule, TypeOK
<1>2. SUFFICES ASSUME NEW b \in Buckets PROVE Consistent(b)'
  BY DEF RowsAddUp, Consistent
<1>3. CASE Keeps(t, x, b)
  <2>1. CountedIn(b)' <=> CountedIn(b)
    BY <1>1, <1>3 DEF Keeps, CountedIn
  <2>2. RefusedIn(b)' <=> RefusedIn(b)
    BY <1>1, <1>3 DEF Keeps, RefusedIn
  <2>3. Consistent(b)
    BY DEF RowsAddUp, Consistent
  <2> QED BY <1>3, <2>1, <2>2, <2>3 DEF Keeps, Consistent
<1>4. CASE Writes(t, x, b)
  <2>1. \A u \in Transactions \ {t} : ~CountedBy(tx'[u], b) /\ ~RefusedBy(tx'[u], b)
    BY <1>1, <1>4, OnlyHolder DEF Writes
  <2>2. CountedIn(b)' <=> CountedBy(x, b)
    BY <1>1, <2>1 DEF CountedIn
  <2>3. RefusedIn(b)' <=> RefusedBy(x, b)
    BY <1>1, <2>1 DEF RefusedIn
  <2> QED BY <1>4, <2>2, <2>3 DEF Writes, Consistent
<1> QED BY <1>3, <1>4

LEMMA CommittedStands ==
    ASSUME RowsAddUp, UNCHANGED committed
    PROVE  \A b \in Buckets : Within(committed'[b], b) /\ Settled(committed'[b])
  BY DEF RowsAddUp

LEMMA NoRowAddsUp ==
    ASSUME NEW b \in Buckets PROVE Within(NoRow, b) /\ Settled(NoRow)
<1>1. Limit[b] \in Nat
  OBVIOUS
<1> QED BY <1>1 DEF NoRow, Within, Settled

LEMMA BeginRows ==
    ASSUME Schedule, RowsAddUp, NEW t \in Transactions,
           BeginCount(t) \/ BeginClear(t) \/ BeginPrune(t)
    PROVE  RowsAddUp'
<1>1. tx[t].kind = "none" /\ UNCHANGED <<latest, committed>>
  BY DEF BeginCount, BeginClear, BeginPrune
<1>2. tx[t].results = <<>>
  BY <1>1 DEF Schedule, Ordered, InOrder
<1>3. PICK x : tx' = [tx EXCEPT ![t] = x] /\ x.results = <<>>
  <2>1. CASE BeginCount(t)
    <3>1. PICK order : tx' = [tx EXCEPT ![t] = [NoTx EXCEPT !.kind = "count", !.todo = order]]
      BY <2>1 DEF BeginCount
    <3> DEFINE x == [NoTx EXCEPT !.kind = "count", !.todo = order]
    <3>2. x.results = <<>>
      BY DEF NoTx
    <3> QED BY <3>1, <3>2
  <2>2. CASE BeginClear(t)
    <3>1. PICK b : tx' = [tx EXCEPT ![t] = [NoTx EXCEPT !.kind = "clear", !.todo = <<b>>]]
      BY <2>2 DEF BeginClear
    <3> DEFINE x == [NoTx EXCEPT !.kind = "clear", !.todo = <<b>>]
    <3>2. x.results = <<>>
      BY DEF NoTx
    <3> QED BY <3>1, <3>2
  <2>3. CASE BeginPrune(t)
    <3>1. PICK scan : tx' = [tx EXCEPT ![t] = [NoTx EXCEPT !.kind = "prune", !.todo = scan,
                                                           !.issued = TRUE, !.ts = now]]
      BY <2>3 DEF BeginPrune
    <3> DEFINE x == [NoTx EXCEPT !.kind = "prune", !.todo = scan, !.issued = TRUE, !.ts = now]
    <3>2. x.results = <<>>
      BY DEF NoTx
    <3> QED BY <3>1, <3>2
  <2> QED BY <2>1, <2>2, <2>3
<1>4. \A b \in Buckets : Keeps(t, x, b)
  BY <1>1, <1>2, <1>3, NoResults DEF Keeps
<1> QED BY <1>1, <1>3, <1>4, CommittedStands, RowsMove

LEMMA IssueRows ==
    ASSUME Schedule, RowsAddUp, NEW t \in Transactions, Issue(t) PROVE RowsAddUp'
<1> DEFINE row == committed[Head(tx[t].todo)]
           x == [tx[t] EXCEPT !.issued = TRUE, !.ts = now, !.snap = row]
<1>1. tx' = [tx EXCEPT ![t] = x] /\ UNCHANGED <<latest, committed>>
  BY DEF Issue, Schedule, TypeOK
<1>2. tx[t] \in TxType
  BY Fields DEF Schedule
<1> HIDE DEF row
<1>3. x.results = tx[t].results
  BY <1>2 DEF TxType
<1> HIDE DEF x
<1>4. \A b \in Buckets : Keeps(t, x, b)
  BY <1>1, <1>3 DEF Keeps, CountedBy, RefusedBy
<1> QED BY <1>1, <1>4, CommittedStands, RowsMove

(* A transaction that gives up takes back what it wrote.                   *)
LEMMA GivenUpRows ==
    ASSUME Schedule, RowsAddUp, NEW t \in Transactions, NEW x, x.results = <<>>,
           tx' = [tx EXCEPT ![t] = x], UNCHANGED committed,
           latest' = [b \in Buckets |-> IF b \in tx[t].locks THEN committed[b] ELSE latest[b]]
    PROVE  RowsAddUp'
<1>1. ASSUME NEW b \in Buckets PROVE Keeps(t, x, b) \/ Writes(t, x, b)
  <2>1. ~CountedBy(x, b) /\ ~RefusedBy(x, b)
    BY NoResults
  <2>2. CASE b \in tx[t].locks
    <3>1. Free(b, t) /\ latest'[b] = committed[b]
      BY <2>2, HeldIsFree
    <3>2. Within(committed[b], b) /\ Settled(committed[b])
      BY DEF RowsAddUp
    <3> QED BY <2>1, <3>1, <3>2 DEF Writes
  <2>3. CASE b \notin tx[t].locks
    <3>1. latest'[b] = latest[b]
      BY <2>3
    <3> QED BY <2>1, <2>3, <3>1, NotHeldNoAnswer DEF Keeps
  <2> QED BY <2>2, <2>3
<1> QED BY <1>1, CommittedStands, RowsMove

LEMMA AbortRows ==
    ASSUME Schedule, RowsAddUp, NEW t \in Transactions, Abort(t) PROVE RowsAddUp'
<1>1. NoTx.results = <<>>
  BY DEF NoTx
<1> QED BY <1>1, GivenUpRows DEF Abort

LEMMA TickRows ==
    ASSUME RowsAddUp, Tick PROVE RowsAddUp'
  BY DEF Tick, RowsAddUp, CountedIn, RefusedIn, CountedBy, RefusedBy

(* Rows are deleted by a transaction that has no answers.                  *)
LEMMA DeletedRows ==
    ASSUME Schedule, RowsAddUp, NEW t \in Transactions, NEW x, x.results = <<>>,
           tx[t].results = <<>>, tx' = [tx EXCEPT ![t] = x], UNCHANGED committed,
           NEW b \in Buckets, Free(b, t), latest' = [latest EXCEPT ![b] = NoRow]
    PROVE  RowsAddUp'
<1>1. \A c \in Buckets : ~CountedBy(x, c) /\ ~RefusedBy(x, c)
                         /\ ~CountedBy(tx[t], c) /\ ~RefusedBy(tx[t], c)
  BY NoResults
<1>2. \A c \in Buckets : latest'[c] = IF c = b THEN NoRow ELSE latest[c]
  BY DEF Schedule, TypeOK
<1>3. ASSUME NEW c \in Buckets PROVE Keeps(t, x, c) \/ Writes(t, x, c)
  <2>1. CASE c = b
    BY <1>1, <1>2, <2>1, NoRowAddsUp DEF Writes
  <2>2. CASE c # b
    BY <1>1, <1>2, <2>2 DEF Keeps
  <2> QED BY <2>1, <2>2
<1> QED BY <1>3, CommittedStands, RowsMove

LEMMA UntouchedRows ==
    ASSUME Schedule, RowsAddUp, NEW t \in Transactions, NEW x, x.results = tx[t].results,
           tx' = [tx EXCEPT ![t] = x], UNCHANGED <<latest, committed>>
    PROVE  RowsAddUp'
<1>1. \A b \in Buckets : Keeps(t, x, b)
  BY DEF Keeps, CountedBy, RefusedBy
<1> QED BY <1>1, CommittedStands, RowsMove

LEMMA ClearRows ==
    ASSUME Schedule, RowsAddUp, NEW t \in Transactions, Clear(t) PROVE RowsAddUp'
<1>1. tx[t] \in TxType /\ tx[t].results = <<>> /\ UNCHANGED committed
  BY ClearCases, Fields DEF Schedule, Ordered, InOrder
<1>2. CASE /\ tx[t].snap = NoRow /\ UNCHANGED latest
           /\ tx' = [tx EXCEPT ![t] = [tx[t] EXCEPT !.todo = <<>>]]
  <2> DEFINE none == <<>>
             x == [tx[t] EXCEPT !.todo = none]
  <2>1. none \in Seq(Buckets)
    OBVIOUS
  <2>2. tx' = [tx EXCEPT ![t] = x]
    BY <1>2
  <2> HIDE DEF none
  <2>3. x.results = tx[t].results
    BY <1>1, <2>1, Shortened
  <2> HIDE DEF x
  <2> QED BY <1>1, <1>2, <2>2, <2>3, UntouchedRows
<1>3. CASE /\ tx[t].todo # <<>> /\ Head(tx[t].todo) \in Buckets
           /\ Free(Head(tx[t].todo), t)
           /\ latest' = [latest EXCEPT ![Head(tx[t].todo)] = NoRow]
           /\ tx' = [tx EXCEPT ![t] = Visited(t)]
  <2>1. Visited(t).results = <<>>
    BY <1>1, <1>3, VisitedFields DEF Schedule
  <2> QED BY <1>1, <1>3, <2>1, DeletedRows
<1> QED BY <1>2, <1>3, ClearCases

LEMMA PruneOneRows ==
    ASSUME Schedule, RowsAddUp, NEW t \in Transactions, PruneOne(t) PROVE RowsAddUp'
<1>1. /\ tx[t] \in TxType /\ tx[t].results = <<>> /\ tx[t].todo # <<>>
      /\ Free(Head(tx[t].todo), t) /\ UNCHANGED committed
  BY Fields DEF Schedule, Ordered, InOrder, PruneOne
<1>2. Head(tx[t].todo) \in Buckets /\ Tail(tx[t].todo) \in Seq(Buckets)
  BY <1>1, Fields, HeadIsBucket DEF Schedule
<1>3. CASE StillDead(latest[Head(tx[t].todo)], tx[t].ts)
  <2>1. Visited(t).results = <<>>
    BY <1>1, VisitedFields DEF Schedule
  <2>2. /\ latest' = [latest EXCEPT ![Head(tx[t].todo)] = NoRow]
        /\ tx' = [tx EXCEPT ![t] = Visited(t)]
    BY <1>3 DEF PruneOne
  <2> QED BY <1>1, <1>2, <2>1, <2>2, DeletedRows
<1>4. CASE ~StillDead(latest[Head(tx[t].todo)], tx[t].ts)
  <2> DEFINE todo == Tail(tx[t].todo)
             x == [tx[t] EXCEPT !.todo = todo]
  <2>1. tx' = [tx EXCEPT ![t] = x] /\ UNCHANGED latest
    BY <1>4 DEF PruneOne, Schedule, TypeOK
  <2> HIDE DEF todo
  <2>2. x.results = tx[t].results
    BY <1>1, <1>2, Shortened DEF todo
  <2> HIDE DEF x
  <2> QED BY <1>1, <2>1, <2>2, UntouchedRows
<1> QED BY <1>3, <1>4

LEMMA CommitRows ==
    ASSUME Schedule, RowsAddUp, NEW t \in Transactions, Commit(t) PROVE RowsAddUp'
<1>1. /\ tx' = [tx EXCEPT ![t] = NoTx] /\ UNCHANGED latest
      /\ committed' = [b \in Buckets |-> IF b \in tx[t].locks THEN latest[b] ELSE committed[b]]
  BY DEF Commit
<1>2. tx[t].results = <<>> /\ NoTx.results = <<>>
  BY DEF Commit, Schedule, Ordered, InOrder, NoTx
<1>3. \A b \in Buckets : Keeps(t, NoTx, b)
  BY <1>1, <1>2, NoResults DEF Keeps
<1>4. ASSUME NEW b \in Buckets PROVE Within(committed'[b], b) /\ Settled(committed'[b])
  <2>1. CASE b \in tx[t].locks
    <3>1. Free(b, t) /\ ~CountedBy(tx[t], b)
      BY <1>2, <2>1, HeldIsFree, NoResults
    <3>2. Settled(latest[b]) /\ Within(latest[b], b)
      BY <3>1, SettledWhenFree DEF RowsAddUp
    <3> QED BY <1>1, <2>1, <3>2
  <2>2. CASE b \notin tx[t].locks
    BY <1>1, <2>2 DEF RowsAddUp
  <2> QED BY <2>1, <2>2
<1> QED BY <1>1, <1>3, <1>4, RowsMove

(* The answers after one more row was counted or refused.                  *)
LEMMA NotedAnswers ==
    ASSUME Schedule, NEW t \in Transactions, tx[t].todo # <<>>, tx[t].kind = "count",
           NEW result \in ResultType, NEW c
    PROVE  LET x == Noted(t, result)
           IN  /\ CountedBy(x, c) <=> CountedBy(tx[t], c) \/ (result.bucket = c /\ result.counted)
               /\ RefusedBy(x, c) <=> RefusedBy(tx[t], c) \/ (result.bucket = c /\ ~result.counted)
<1> DEFINE x == Noted(t, result)
<1> DEFINE last == Len(tx[t].results) + 1
<1>1. /\ x.results[last] = result
      /\ \A i \in DOMAIN tx[t].results : x.results[i] = tx[t].results[i]
      /\ DOMAIN x.results = DOMAIN tx[t].results \cup {last}
  BY NotedFields
<1> HIDE DEF last, x
<1>2. CountedBy(x, c) <=> CountedBy(tx[t], c) \/ (result.bucket = c /\ result.counted)
  BY <1>1 DEF CountedBy
<1>3. RefusedBy(x, c) <=> RefusedBy(tx[t], c) \/ (result.bucket = c /\ ~result.counted)
  BY <1>1 DEF RefusedBy
<1> QED BY <1>2, <1>3 DEF x

LEMMA NotYetHeld ==
    ASSUME Schedule, NEW t \in Transactions, tx[t].kind = "count", tx[t].todo # <<>>
    PROVE  Head(tx[t].todo) \notin tx[t].locks
<1>1. tx[t].todo \in Seq(Buckets) /\ InOrder(tx[t])
  BY Fields DEF Schedule, Ordered
<1>2. Len(tx[t].todo) > 0 /\ Head(tx[t].todo) = tx[t].todo[1]
  BY <1>1, HeadIsBucket
<1> QED BY <1>1, <1>2 DEF InOrder

(* The row a counted attempt leaves is one ahead of its answers, and within *)
(* the limit; a row that has no room is at it.                             *)
LEMMA CountedRow ==
    ASSUME Schedule, NEW t \in Transactions, NEW row \in RowType,
           tx[t].todo # <<>>, Within(row, Head(tx[t].todo)), Settled(row),
           Head(tx[t].todo) \in Buckets
    PROVE  /\ \A new \in Counted(t, row) : Within(new, Head(tx[t].todo)) /\ Ahead(new)
           /\ Counted(t, row) = {} => row.attempts = Limit[Head(tx[t].todo)]
<1> DEFINE limit == Limit[Head(tx[t].todo)]
<1>1. limit \in Nat \ {0} /\ row.attempts \in Nat /\ row.tried \in Nat /\ row.granted \in Nat
  BY DEF RowType
<1>2. Within(Opened(tx[t].ts), Head(tx[t].todo)) /\ Ahead(Opened(tx[t].ts))
  BY <1>1 DEF Opened, Within, Ahead
<1>3. /\ Spent(row).attempts = row.attempts + 1 /\ Spent(row).tried = row.tried
      /\ Spent(row).granted = row.granted
  BY DEF Spent, RowType
<1>4. row.attempts < limit => Within(Spent(row), Head(tx[t].todo)) /\ Ahead(Spent(row))
  BY <1>1, <1>3 DEF Within, Ahead, Settled
<1>5. \/ Counted(t, row) = {Opened(tx[t].ts)}
      \/ Counted(t, row) = {Spent(row)} /\ row.attempts < limit
      \/ Counted(t, row) = {} /\ ~(row.attempts < limit)
  BY DEF Counted
<1> HIDE DEF limit
<1>6. \A new \in Counted(t, row) : Within(new, Head(tx[t].todo)) /\ Ahead(new)
  BY <1>2, <1>4, <1>5
<1>7. Counted(t, row) = {} => row.attempts = limit
  BY <1>1, <1>5 DEF Within, limit
<1> QED BY <1>6, <1>7 DEF limit

LEMMA CountOneRows ==
    ASSUME Schedule, RowsAddUp, NEW t \in Transactions, CountOne(t) PROVE RowsAddUp'
<1> DEFINE b == Head(tx[t].todo)
<1>1. /\ tx[t].todo # <<>> /\ tx[t].kind = "count" /\ Free(b, t) /\ b \in Buckets
      /\ UNCHANGED <<now, committed>>
  BY CountOneCases
<1>2. ~CountedBy(tx[t], b) /\ ~RefusedBy(tx[t], b)
  BY <1>1, NotYetHeld, NotHeldNoAnswer
<1>3. latest[b] \in RowType /\ tx[t].snap \in RowType
  BY <1>1, Fields DEF Schedule, TypeOK
<1>4. Settled(latest[b]) /\ Within(latest[b], b)
  BY <1>1, <1>2, SettledWhenFree DEF RowsAddUp
<1>5. /\ \A new \in Counted(t, latest[b]) : Within(new, b) /\ Ahead(new)
      /\ Counted(t, latest[b]) = {} => latest[b].attempts = Limit[b]
  BY <1>1, <1>3, <1>4, CountedRow
<1>6. ASSUME NEW row \in Counted(t, latest[b]), CountsRow(t, row) PROVE RowsAddUp'
  <2> DEFINE result == Result(t, TRUE, row)
             x == Noted(t, result)
  <2>1. row \in RowType
    BY <1>3, CountedType DEF Schedule
  <2>2. result \in ResultType /\ result.bucket = b /\ result.counted
    BY <1>1, <2>1, ResultFields DEF Schedule
  <2>3. tx' = [tx EXCEPT ![t] = x] /\ \A c \in Buckets : latest'[c] = IF c = b THEN row ELSE latest[c]
    BY <1>6 DEF CountsRow, Schedule, TypeOK
  <2> HIDE DEF result
  <2>4. \A c : /\ CountedBy(x, c) <=> CountedBy(tx[t], c) \/ c = b
               /\ RefusedBy(x, c) <=> RefusedBy(tx[t], c)
    BY <1>1, <2>2, NotedAnswers
  <2> HIDE DEF x, b
  <2>5. ASSUME NEW c \in Buckets PROVE Keeps(t, x, c) \/ Writes(t, x, c)
    <3>1. CASE c = b
      BY <1>1, <1>2, <1>5, <1>6, <2>3, <2>4, <3>1 DEF Writes
    <3>2. CASE c # b
      BY <2>3, <2>4, <3>2 DEF Keeps
    <3> QED BY <3>1, <3>2
  <2> QED BY <1>1, <2>3, <2>5, CommittedStands, RowsMove
<1>7. CASE RefusesRow(t)
  <2> DEFINE result == Result(t, FALSE, tx[t].snap)
             x == Noted(t, result)
  <2>1. result \in ResultType /\ result.bucket = b /\ ~result.counted
    BY <1>1, <1>3, ResultFields DEF Schedule
  <2>2. tx' = [tx EXCEPT ![t] = x] /\ UNCHANGED latest /\ Counted(t, latest[b]) = {}
    BY <1>7 DEF RefusesRow
  <2> HIDE DEF result
  <2>3. \A c : /\ CountedBy(x, c) <=> CountedBy(tx[t], c)
               /\ RefusedBy(x, c) <=> RefusedBy(tx[t], c) \/ c = b
    BY <1>1, <2>1, NotedAnswers
  <2> HIDE DEF x, b
  <2>4. ASSUME NEW c \in Buckets PROVE Keeps(t, x, c) \/ Writes(t, x, c)
    <3>1. CASE c = b
      BY <1>1, <1>2, <1>4, <1>5, <2>2, <2>3, <3>1 DEF Writes
    <3>2. CASE c # b
      BY <2>2, <2>3, <3>2 DEF Keeps
    <3> QED BY <3>1, <3>2
  <2> QED BY <1>1, <2>2, <2>4, CommittedStands, RowsMove
<1>8. CASE Throws(t)
  <2> DEFINE x == [NoTx EXCEPT !.failed = TRUE]
  <2>1. x.results = <<>>
    BY DEF NoTx
  <2>2. /\ tx' = [tx EXCEPT ![t] = x]
        /\ latest' = [c \in Buckets |-> IF c \in tx[t].locks THEN committed[c] ELSE latest[c]]
    BY <1>8 DEF Throws
  <2> HIDE DEF x
  <2> QED BY <1>1, <2>1, <2>2, GivenUpRows
<1> QED BY <1>6, <1>7, <1>8, CountOneCases

(* The decision settles every row the attempt was answered for.            *)
LEMMA DecideRowsAddUp ==
    ASSUME Schedule, RowsAddUp, NEW t \in Transactions, Decide(t) PROVE RowsAddUp'
<1>1. ASSUME NEW b \in Answered(t)
      PROVE  /\ b \in Buckets /\ Free(b, t)
             /\ Within(DecidedRow(t, b), b) /\ Settled(DecidedRow(t, b))
  <2>1. b \in Buckets /\ (CountedBy(tx[t], b) \/ RefusedBy(tx[t], b))
    BY DEF Answered, CountedBy, RefusedBy
  <2>2. Free(b, t)
    BY <2>1, NotHeldNoAnswer, HeldIsFree
  <2>3. latest[b] \in RowType /\ Limit[b] \in Nat /\ Within(latest[b], b)
    BY <2>1 DEF Schedule, TypeOK, RowsAddUp
  <2> DEFINE new == DecidedRow(t, b)
             old == latest[b]
  <2>4. /\ new \in RowType /\ new.attempts = old.attempts
        /\ new.tried = (IF old.tried < Limit[b] THEN old.tried + 1 ELSE old.tried)
        /\ new.granted = (IF AllCounted(t) THEN old.granted + 1 ELSE old.granted)
    BY <2>1, DecidedRowFields
  <2> HIDE DEF new, old
  <2>5. old \in RowType /\ Within(old, b)
    BY <2>3 DEF old
  <2>6. old.attempts \in Nat /\ old.tried \in Nat /\ old.granted \in Nat
    BY <2>5 DEF RowType
  <2>7. CASE CountedBy(tx[t], b)
    <3>1. Ahead(old)
      BY <2>1, <2>7 DEF RowsAddUp, CountedIn, old
    <3>2. Within(new, b) /\ Settled(new)
      BY <2>3, <2>4, <2>5, <2>6, <3>1 DEF Ahead, Within, Settled
    <3> QED BY <2>1, <2>2, <3>2 DEF new
  <2>8. CASE RefusedBy(tx[t], b)
    <3>1. Settled(old) /\ old.attempts = Limit[b]
      BY <2>1, <2>8 DEF RowsAddUp, RefusedIn, old
    <3>2. ~AllCounted(t)
      BY <2>8 DEF RefusedBy, AllCounted
    <3>3. Within(new, b) /\ Settled(new)
      BY <2>3, <2>4, <2>5, <2>6, <3>1, <3>2 DEF Within, Settled
    <3> QED BY <2>1, <2>2, <3>3 DEF new
  <2> QED BY <2>1, <2>7, <2>8
<1>2. /\ \A b \in Buckets : latest'[b] = IF b \in Answered(t) THEN DecidedRow(t, b) ELSE latest[b]
      /\ \A b \in Buckets : committed'[b] = IF b \in Answered(t) THEN DecidedRow(t, b)
                                                                ELSE committed[b]
      /\ tx' = [tx EXCEPT ![t] = NoTx]
  BY DecideRows
<1>3. \A b \in Buckets : Within(committed'[b], b) /\ Settled(committed'[b])
  BY <1>1, <1>2 DEF RowsAddUp
<1>4. \A b : ~CountedBy(NoTx, b) /\ ~RefusedBy(NoTx, b)
  BY NoResults DEF NoTx
<1>5. ASSUME NEW b \in Buckets PROVE Keeps(t, NoTx, b) \/ Writes(t, NoTx, b)
  <2>1. CASE b \in Answered(t)
    BY <1>1, <1>2, <1>4, <2>1 DEF Writes
  <2>2. CASE b \notin Answered(t)
    <3>1. ~CountedBy(tx[t], b) /\ ~RefusedBy(tx[t], b)
      BY <2>2 DEF Answered, CountedBy, RefusedBy
    <3> QED BY <1>2, <1>4, <2>2, <3>1 DEF Keeps
  <2> QED BY <2>1, <2>2
<1> QED BY <1>2, <1>3, <1>5, RowsMove
-----------------------------------------------------------------------------
(* The specification *)

LEMMA InitIInv == Init => IInv
<1> SUFFICES ASSUME Init PROVE IInv
  OBVIOUS
<1>1. TypeOK
  BY NoTxType, NoRowType DEF Init, TypeOK
<1>2. \A t \in Transactions : tx[t] = NoTx
  BY DEF Init
<1>3. NoTx.locks = {} /\ NoTx.results = <<>>
  BY DEF NoTx
<1>4. Ordered /\ Exclusive
  BY <1>2, <1>3, NoTxType DEF Ordered, Exclusive
<1>5. \A b \in Buckets : latest[b] = NoRow /\ committed[b] = NoRow
  BY DEF Init
<1>6. \A b : ~CountedIn(b) /\ ~RefusedIn(b)
  BY <1>2, <1>3, NoResults DEF CountedIn, RefusedIn
<1>7. RowsAddUp
  BY <1>5, <1>6, NoRowAddsUp DEF RowsAddUp
<1> QED BY <1>1, <1>4, <1>7 DEF IInv

LEMMA NextIInv == IInv /\ [Next]_vars => IInv'
<1> SUFFICES ASSUME Schedule, RowsAddUp, [Next]_vars PROVE Schedule' /\ RowsAddUp'
  BY DEF IInv, Schedule
<1>1. ASSUME NEW t \in Transactions, BeginCount(t) PROVE Schedule' /\ RowsAddUp'
  BY <1>1, BeginCountSchedule, BeginRows
<1>2. ASSUME NEW t \in Transactions, Issue(t) PROVE Schedule' /\ RowsAddUp'
  BY <1>2, IssueSchedule, IssueRows
<1>3. ASSUME NEW t \in Transactions, CountOne(t) PROVE Schedule' /\ RowsAddUp'
  BY <1>3, CountOneSchedule, CountOneRows
<1>4. ASSUME NEW t \in Transactions, Decide(t) PROVE Schedule' /\ RowsAddUp'
  BY <1>4, DecideSchedule, DecideRowsAddUp
<1>5. ASSUME NEW t \in Transactions, BeginClear(t) PROVE Schedule' /\ RowsAddUp'
  BY <1>5, BeginClearSchedule, BeginRows
<1>6. ASSUME NEW t \in Transactions, Clear(t) PROVE Schedule' /\ RowsAddUp'
  BY <1>6, ClearSchedule, ClearRows
<1>7. ASSUME NEW t \in Transactions, BeginPrune(t) PROVE Schedule' /\ RowsAddUp'
  BY <1>7, BeginPruneSchedule, BeginRows
<1>8. ASSUME NEW t \in Transactions, PruneOne(t) PROVE Schedule' /\ RowsAddUp'
  BY <1>8, PruneOneSchedule, PruneOneRows
<1>9. ASSUME NEW t \in Transactions, Commit(t) PROVE Schedule' /\ RowsAddUp'
  BY <1>9, CommitSchedule, CommitRows
<1>10. ASSUME NEW t \in Transactions, Abort(t) PROVE Schedule' /\ RowsAddUp'
  BY <1>10, AbortSchedule, AbortRows
<1>11. CASE Tick
  BY <1>11, TickSchedule, TickRows
<1>12. CASE UNCHANGED vars
  BY <1>12 DEF vars, Schedule, TypeOK, Ordered, Exclusive, RowsAddUp, CountedIn, RefusedIn,
               CountedBy, RefusedBy
<1> QED BY <1>1, <1>2, <1>3, <1>4, <1>5, <1>6, <1>7, <1>8, <1>9, <1>10, <1>11, <1>12 DEF Next

LEMMA Invariant == Spec => []IInv
  BY InitIInv, NextIInv, PTL DEF Spec

(* Rows, transactions and clock keep their types, the answers of a         *)
(* transaction and the order it visits its rows in included.               *)
THEOREM TypeCorrect == Spec => []TypeOK
<1>1. IInv => TypeOK
  BY DEF IInv
<1> QED BY <1>1, Invariant, PTL

(* No window of a bucket lets more attempts through than its limit,        *)
(* whatever attempts, clearings and prunings overlap, wait or fail.        *)
THEOREM LimitHolds == Spec => []WithinBudget
<1>1. IInv => WithinBudget
  BY DEF IInv, RowsAddUp, Within, WithinBudget
<1> QED BY <1>1, Invariant, PTL

(* A committed row counts exactly the attempts that were answered in its   *)
(* window: a transaction that fails leaves none behind, and one that is    *)
(* refused in the other dimension is counted in this one.                  *)
THEOREM NothingUncounted == Spec => []CountsEveryAttempt
<1>1. IInv => CountsEveryAttempt
  BY DEF IInv, RowsAddUp, Settled, CountsEveryAttempt
<1> QED BY <1>1, Invariant, PTL

(* Who waits and holds a row already has counted its account and is at its *)
(* address.                                                                *)
LEMMA WaitingHolder ==
    ASSUME TypeOK, Ordered, NEW u \in Transactions, tx[u].kind # "prune",
           tx[u].todo # <<>>, tx[u].locks # {}
    PROVE  Head(tx[u].todo) \in Addresses /\ tx[u].locks \subseteq Accounts
<1>1. tx[u].todo \in Seq(Buckets) /\ InOrder(tx[u]) /\ tx[u].kind \in Kinds
  BY Fields DEF Ordered
<1>2. Len(tx[u].todo) > 0 /\ Head(tx[u].todo) = tx[u].todo[1]
  BY <1>1, HeadIsBucket
<1> QED BY <1>1, <1>2 DEF InOrder, Kinds

(* Overlapping attempts and clearings, however many, never wait for each   *)
(* other in a circle: lockOrder puts the account before the address.       *)
THEOREM NoCircle == Spec => []AttemptsNeverDeadlock
<1>1. ASSUME TypeOK, Ordered PROVE AttemptsNeverDeadlock
  <2>1. SUFFICES ASSUME NEW S \in (SUBSET {t \in Transactions : tx[t].kind # "prune"}) \ {{}},
                        InACircle(S)
                 PROVE  FALSE
    BY DEF AttemptsNeverDeadlock
  <2>2. PICK t \in S, u \in S, w \in S : Waits(t, u) /\ Waits(u, w) /\ \E z \in S : Waits(w, z)
    <3>1. PICK t \in S : TRUE
      OBVIOUS
    <3>2. PICK u \in S : Waits(t, u)
      BY <2>1 DEF InACircle
    <3>3. PICK w \in S : Waits(u, w)
      BY <2>1 DEF InACircle
    <3>4. PICK z \in S : Waits(w, z)
      BY <2>1 DEF InACircle
    <3> QED BY <3>2, <3>3, <3>4
  <2>3. Head(tx[u].todo) \in Addresses
    BY <1>1, <2>2, WaitingHolder DEF Waits
  <2>4. tx[w].locks \subseteq Accounts
    BY <1>1, <2>2, WaitingHolder DEF Waits
  <2> QED BY <2>2, <2>3, <2>4 DEF Waits
<1>2. IInv => AttemptsNeverDeadlock
  BY <1>1 DEF IInv
<1> QED BY <1>2, Invariant, PTL
=============================================================================
