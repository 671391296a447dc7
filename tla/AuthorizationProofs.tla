------------------------- MODULE AuthorizationProofs -------------------------
(***************************************************************************)
(* Authorization, for any people, any tree, any rows granted by hand and   *)
(* any number of calls.                                                    *)
(*                                                                         *)
(* OwnersRemain.  OwnerFloor is not inductive: the owner it counts may be  *)
(* one a removal in progress has deleted and its commit will take away.    *)
(* FloorInv counts the owners nobody is removing.                          *)
(*                                                                         *)
(* The rest follows from CallsInv: the stored path of every node that      *)
(* exists is the path of its parent and itself (Hanging), so that what     *)
(* grant_decision finds by prefixes is what lies above by the parents; and *)
(* for every call, by the read it has reached, what has been learnt since  *)
(* it was asked (Learnt) and, while no row changes, what of that is still  *)
(* so (Current).                                                           *)
(***************************************************************************)
EXTENDS Authorization, FiniteSetTheorems, WellFoundedInduction, TLAPS

Staying == OwnerRows \ leaving
FloorInv == raced \/ Staying # {}

(* The row bootstrap wrote for the founder counts, and nothing is leaving. *)
LEMMA InitHasOwner == Init => FloorInv
<1> SUFFICES ASSUME Init PROVE FloorInv
  OBVIOUS
<1> DEFINE row == [subject |-> Founder, role |-> "owner", effect |-> "allow",
                   at |-> Root, expires |-> Never]
<1>1. row \in grants
  BY DEF Init
<1>2. row \in OwnerRows
  BY <1>1, AuthorizationAssumption DEF OwnerRows, AuthorizationAssumption
<1>3. row \notin leaving
  BY DEF Init
<1> QED
  BY <1>2, <1>3 DEF FloorInv, Staying

(* A step that takes no row away, begins no removal and forgets no overlap *)
(* leaves every owner who was staying.                                     *)
LEMMA FloorKept ==
  ASSUME FloorInv, grants \subseteq grants', leaving' = leaving, raced' = raced
  PROVE  FloorInv'
<1>1. OwnerRows \subseteq OwnerRows'
  BY DEF OwnerRows
<1> QED
  BY <1>1 DEF FloorInv, Staying

(* A call reads, or writes a token and the row that goes with it.          *)
LEMMA CallKeepsFloor ==
  ASSUME FloorInv, NEW r \in Requests, Call(r)
  PROVE  FloorInv'
<1>1. CASE \E a \in Asks : CanAsk(r, a.who, a.name, a.node, a.res)
  BY <1>1, FloorKept DEF CanAsk, Reading, data
<1>2. CASE ReadStatus(r) \/ ReadScope(r)
  BY <1>2, FloorKept DEF ReadStatus, ReadScope, Reading, data
<1>3. CASE ReadGrants(r) \/ ReadExplanation(r)
  BY <1>3, FloorKept DEF ReadGrants, ReadExplanation, Reading, data
<1>4. CASE ReadIssuer(r) \/ ReadCeiling(r)
  BY <1>4, FloorKept DEF ReadIssuer, ReadCeiling, Reading, data
<1>5. CASE \E p \in People, w \in Issues : IssueApiToken(r, p, w)
  BY <1>5, FloorKept DEF IssueApiToken, Reading, data
<1>6. CASE NextQuestion(r) \/ ResolveColumns(r)
  BY <1>6, FloorKept DEF NextQuestion, ResolveColumns, Reading, data
<1>7. CASE \E t \in Tokens : InsertToken(r, t)
  <2> PICK t \in Tokens : InsertToken(r, t)
    BY <1>7
  <2>1. grants \subseteq grants' /\ leaving' = leaving /\ raced' = raced
    BY DEF InsertToken
  <2> QED
    BY <2>1, FloorKept
<1>8. CASE \E p \in People, t \in Tokens : RevokeAsk(r, p, "revokeOne", t)
  BY <1>8, FloorKept DEF RevokeAsk, Reading, data
<1>9. CASE \E p, q \in People : RevokeAsk(r, p, "revokeAll", q)
  BY <1>9, FloorKept DEF RevokeAsk, Reading, data
<1>10. CASE Revoke(r)
  BY <1>10, FloorKept DEF Revoke
<1> QED
  BY <1>1, <1>2, <1>3, <1>4, <1>5, <1>6, <1>7, <1>8, <1>9, <1>10 DEF Call

(* The heart of it: the trigger saw another owner, and that one is staying *)
(* because no other removal of an owner is open.                           *)
LEMMA RemovalLeavesOwner ==
  ASSUME FloorInv, NEW g \in grants, RemoveGrant(g)
  PROVE  FloorInv'
<1>1. OwnerRows' = OwnerRows
  BY DEF RemoveGrant, data, OwnerRows
<1>2. CASE g \notin OwnerRows
  <2>1. Staying' = Staying
    BY <1>1, <1>2 DEF RemoveGrant, Staying
  <2>2. raced => raced'
    BY DEF RemoveGrant
  <2> QED
    BY <2>1, <2>2 DEF FloorInv
<1>3. CASE g \in OwnerRows /\ leaving \cap OwnerRows # {}
  BY <1>3 DEF RemoveGrant, FloorInv
<1>4. CASE g \in OwnerRows /\ leaving \cap OwnerRows = {}
  <2>1. PICK other \in OwnerRows : other # g
    BY DEF RemoveGrant
  <2>2. other \notin leaving /\ leaving' = leaving \cup {g}
    BY <2>1, <1>4 DEF RemoveGrant
  <2>3. other \in Staying'
    BY <1>1, <2>1, <2>2 DEF Staying
  <2> QED
    BY <2>3 DEF FloorInv
<1> QED
  BY <1>2, <1>3, <1>4

(* What commits is what was leaving: whoever stayed still does.            *)
LEMMA CommitLeavesOwner ==
  ASSUME FloorInv, NEW g \in grants, CommitRemoval(g)
  PROVE  FloorInv'
<1>1. Staying \subseteq Staying'
  BY DEF CommitRemoval, Staying, OwnerRows
<1>2. raced' = raced
  BY DEF CommitRemoval
<1> QED
  BY <1>1, <1>2 DEF FloorInv

LEMMA HandKeepsFloor ==
  ASSUME FloorInv, Hand
  PROVE  FloorInv'
<1>1. CASE \E g \in Menu : AddGrant(g)
  <2> PICK g \in Menu : AddGrant(g)
    BY <1>1
  <2>1. grants \subseteq grants' /\ leaving' = leaving /\ raced' = raced
    BY DEF AddGrant
  <2> QED
    BY <2>1, FloorKept
<1>2. CASE \E g \in grants : RemoveGrant(g) \/ CommitRemoval(g)
  BY <1>2, RemovalLeavesOwner, CommitLeavesOwner
<1>3. CASE \E s \in People \cup Services, to \in {"enabled", "disabled", "absent"} : SetStanding(s, to)
  BY <1>3, FloorKept DEF SetStanding
<1>4. CASE \E n \in Nodes : DeleteNode(n)
  BY <1>4, FloorKept DEF DeleteNode
<1>5. CASE \E n \in Nodes, p \in Nodes \cup {Root} : MoveLeaf(n, p)
  BY <1>5, FloorKept DEF MoveLeaf, Move
<1>6. CASE Tick
  BY <1>6, FloorKept DEF Tick
<1> QED
  BY <1>1, <1>2, <1>3, <1>4, <1>5, <1>6 DEF Hand

(* The organization always has an owner who is a person, allowed and with  *)
(* no end date, as long as no two removals of an owner overlap (the         *)
(* deferred trigger of migrations 2, 5 and 8).                             *)
THEOREM OwnersRemain == Spec => []OwnerFloor
<1>1. FloorInv /\ [Next]_vars => FloorInv'
  <2> SUFFICES ASSUME FloorInv, [Next]_vars PROVE FloorInv'
    OBVIOUS
  <2>1. CASE \E r \in Requests : Call(r)
    BY <2>1, CallKeepsFloor
  <2>2. CASE Hand
    BY <2>2, HandKeepsFloor
  <2>3. CASE UNCHANGED vars
    BY <2>3, FloorKept DEF vars, data
  <2> QED
    BY <2>1, <2>2, <2>3 DEF Next
<1>2. FloorInv => OwnerFloor
  BY DEF FloorInv, Staying, OwnerFloor
<1> QED
  BY <1>1, <1>2, InitHasOwner, PTL DEF Spec

-----------------------------------------------------------------------------
(* Numbers and sequences.                                                  *)

(* The initial segments of the members are finite, so one is least.        *)
LEMMA LeastNumber ==
  ASSUME NEW T \in SUBSET Nat, T # {}
  PROVE  \E n \in T : \A m \in T : n <= m
<1> DEFINE R == StrictSubsetOrdering(Nat)
           Segments == {1..n : n \in T}
<1>1. IsWellFoundedOn(R, FiniteSubsetsOf(Nat))
  BY FS_StrictSubsetOrderingWellFounded
<1>2. ASSUME NEW n \in T PROVE 1..n \in FiniteSubsetsOf(Nat)
  <2>1. n \in Int /\ n \in Nat
    OBVIOUS
  <2>2. IsFiniteSet(1..n)
    BY <2>1, FS_Interval
  <2>3. 1..n \in SUBSET Nat
    BY <2>1
  <2> HIDE <2>1
  <2> QED
    BY <2>2, <2>3 DEF FiniteSubsetsOf
<1>3. Segments \subseteq FiniteSubsetsOf(Nat) /\ Segments # {}
  BY <1>2
<1>4. PICK I \in Segments : \A J \in Segments : ~(<<J, I>> \in R)
  <2> HIDE DEF Segments, R
  <2> QED
    BY <1>1, <1>3, WFMin
<1>5. PICK n \in T : I = 1..n
  OBVIOUS
<1>6. ASSUME NEW m \in T, m < n PROVE FALSE
  <2>1. 1..m \in Segments /\ 1..m \subseteq 1..n /\ n \in 1..n /\ n \notin 1..m
    BY <1>6
  <2>2. <<1..m, 1..n>> \in R
    BY <2>1 DEF StrictSubsetOrdering
  <2> QED
    BY <1>4, <1>5, <2>1, <2>2
<1> QED
  BY <1>6

(* What a prefix is, element by element.                                   *)
LEMMA PrefixPointwise ==
  ASSUME NEW S, NEW s \in Seq(S), NEW t \in Seq(S)
  PROVE  IsPrefix(s, t) <=> Len(s) <= Len(t) /\ \A i \in 1..Len(s) : s[i] = t[i]
<1>1. CASE ~(Len(s) <= Len(t))
  BY <1>1 DEF IsPrefix
<1>2. CASE Len(s) <= Len(t)
  <2> DEFINE ss == SubSeq(s, 1, Len(s))
             tt == SubSeq(t, 1, Len(s))
  <2>1. Len(s) \in Nat /\ Len(t) \in Nat
    OBVIOUS
  <2>2. ss \in Seq(S) /\ Len(ss) = Len(s) /\ \A i \in 1..Len(s) : ss[i] = s[i]
    BY <2>1
  <2>3. tt \in Seq(S) /\ Len(tt) = Len(s) /\ \A i \in 1..Len(s) : tt[i] = t[i]
    BY <2>1, <1>2
  <2>4. ss = tt <=> \A i \in 1..Len(s) : ss[i] = tt[i]
    <3> HIDE DEF ss, tt
    <3> QED
      BY <2>2, <2>3
  <2> QED
    BY <1>2, <2>2, <2>3, <2>4 DEF IsPrefix
<1> QED
  BY <1>1, <1>2

(* The prefixes of a sequence with one more element at the end.            *)
LEMMA PrefixOfLonger ==
  ASSUME NEW S, NEW s \in Seq(S), NEW t \in Seq(S), NEW x \in S
  PROVE  IsPrefix(s, Append(t, x)) <=> IsPrefix(s, t) \/ s = Append(t, x)
<1> DEFINE u == Append(t, x)
<1>1. u \in Seq(S) /\ Len(u) = Len(t) + 1 /\ u[Len(t) + 1] = x
      /\ \A i \in 1..Len(t) : u[i] = t[i]
  OBVIOUS
<1>2. Len(s) \in Nat /\ Len(t) \in Nat
  OBVIOUS
<1> HIDE DEF u
<1>3. IsPrefix(s, t) => IsPrefix(s, u)
  BY <1>1, <1>2, PrefixPointwise
<1>4. s = u => IsPrefix(s, u)
  BY <1>1, <1>2, PrefixPointwise
<1>5. ASSUME IsPrefix(s, u), Len(s) <= Len(t) PROVE IsPrefix(s, t)
  BY <1>1, <1>2, <1>5, PrefixPointwise
<1>6. ASSUME IsPrefix(s, u), ~(Len(s) <= Len(t)) PROVE s = u
  <2>1. Len(s) = Len(u)
    BY <1>1, <1>2, <1>6, PrefixPointwise
  <2> QED
    BY <1>1, <1>6, <2>1, PrefixPointwise
<1> QED
  BY <1>3, <1>4, <1>5, <1>6 DEF u

-----------------------------------------------------------------------------
(* The hierarchy: what the stored paths say is what the parents say.       *)

Known == Nodes \cup {Root}

(* A node that exists hangs under one that does, and its path says so.     *)
Hanging ==
    /\ parent \in [Nodes -> Known \cup {"gone"}] /\ path \in [Nodes -> Seq(Known)]
    /\ \A n \in Nodes : Exists(n) =>
          Exists(parent[n]) /\ path[n] = Append(PathOf(parent[n]), n)

LEMMA WhatExists ==
  ASSUME NEW n, Exists(n)
  PROVE  n \in Known
BY DEF Exists, Known

LEMMA PathIsSequence ==
  ASSUME Hanging, NEW n \in Known
  PROVE  PathOf(n) \in Seq(Known)
<1>1. CASE n = Root
  BY <1>1 DEF PathOf, Known
<1>2. CASE n # Root
  BY <1>2 DEF PathOf, Known, Hanging
<1> QED
  BY <1>1, <1>2

LEMMA PathEndsInNode ==
  ASSUME Hanging, NEW n, Exists(n)
  PROVE  /\ PathOf(n) \in Seq(Known) /\ Len(PathOf(n)) \in Nat \ {0}
         /\ PathOf(n)[Len(PathOf(n))] = n
         /\ n # Root => Len(PathOf(n)) > 1 /\ Len(PathOf(parent[n])) < Len(PathOf(n))
<1>1. CASE n = Root
  BY <1>1 DEF PathOf, Known
<1>2. CASE n # Root
  <2>1. n \in Nodes /\ n \in Known
    BY <1>2 DEF Exists, Known
  <2> DEFINE up == PathOf(parent[n])
  <2>2. /\ up \in Seq(Known) /\ path[n] = Append(up, n) /\ PathOf(n) = path[n]
        /\ Exists(parent[n])
    BY <1>2, <2>1, WhatExists, PathIsSequence DEF Hanging, PathOf
  <2>3. Len(up) > 0
    <3>1. CASE parent[n] = Root
      BY <3>1 DEF PathOf
    <3>2. CASE parent[n] # Root
      <4>1. parent[n] \in Nodes
        BY <2>2, <3>2 DEF Exists
      <4> DEFINE m == parent[n]
      <4>2. /\ up = path[m] /\ PathOf(parent[m]) \in Seq(Known)
            /\ path[m] = Append(PathOf(parent[m]), m) /\ m \in Known
        BY <2>2, <3>2, <4>1, WhatExists, PathIsSequence DEF Hanging, PathOf, Known
      <4> HIDE DEF m, up
      <4> QED
        BY <4>2
    <3> QED
      BY <3>1, <3>2
  <2> HIDE DEF up
  <2>4. /\ Append(up, n) \in Seq(Known) /\ Len(Append(up, n)) = Len(up) + 1
        /\ Append(up, n)[Len(up) + 1] = n /\ Len(up) \in Nat
    BY <2>1, <2>2
  <2> QED
    BY <1>2, <2>2, <2>3, <2>4 DEF up
<1> QED
  BY <1>1, <1>2

(* scope_ancestry, one level at a time.                                    *)
LEMMA AncestorOfSelf ==
  ASSUME Hanging, NEW n, Exists(n)
  PROVE  AncestorOrSelf(n, n)
BY PathEndsInNode, PrefixPointwise DEF AncestorOrSelf

LEMMA AncestorOfRoot ==
  ASSUME Hanging, NEW a, AncestorOrSelf(a, Root)
  PROVE  a = Root
<1>1. Exists(a) /\ Exists(Root) /\ IsPrefix(PathOf(a), PathOf(Root))
  BY DEF AncestorOrSelf, Exists
<1>2. PathOf(Root) = <<Root>>
  BY DEF PathOf
<1>3. Len(PathOf(a)) <= 1
  BY <1>1, <1>2, PathEndsInNode, PrefixPointwise
<1> QED
  BY <1>1, <1>3, PathEndsInNode

LEMMA AncestorByParent ==
  ASSUME Hanging, NEW n \in Nodes, n # Root, Exists(n), NEW a, Exists(a)
  PROVE  AncestorOrSelf(a, n) <=> a = n \/ AncestorOrSelf(a, parent[n])
<1> DEFINE up == PathOf(parent[n])
<1>1. Exists(parent[n]) /\ up \in Seq(Known) /\ PathOf(n) = Append(up, n) /\ n \in Known
  BY WhatExists, PathIsSequence DEF Hanging, PathOf, Known
<1>2. PathOf(a) \in Seq(Known)
  BY PathEndsInNode
<1> HIDE DEF up
<1>3. IsPrefix(PathOf(a), PathOf(n)) <=> IsPrefix(PathOf(a), up) \/ PathOf(a) = PathOf(n)
  BY <1>1, <1>2, PrefixOfLonger
<1>4. PathOf(a) = PathOf(n) => a = n
  BY PathEndsInNode
<1>5. a = n => AncestorOrSelf(a, n)
  BY AncestorOfSelf
<1> QED
  BY <1>1, <1>3, <1>4, <1>5 DEF AncestorOrSelf, up

(* Going up from a node one meets every ancestor its path names ...        *)
LEMMA AncestorIsAbove ==
  ASSUME Hanging, NEW n, NEW a, AncestorOrSelf(a, n)
  PROVE  a \in Above(n)
<1>1. Exists(a) /\ Exists(n) /\ a \in Known /\ n \in Known
  BY WhatExists DEF AncestorOrSelf
<1>2. SUFFICES ASSUME NEW down \in SUBSET (Known \ {a}), n \in down,
                      \A m \in down \ {Root} : Exists(m) => parent[m] \in down
               PROVE  FALSE
  BY <1>1 DEF Above, Known
<1> DEFINE Below == {m \in down : AncestorOrSelf(a, m)}
           T == {Len(PathOf(m)) : m \in Below}
<1>3. n \in Below
  BY <1>2
<1>4. T \in SUBSET Nat
  <2>1. ASSUME NEW m \in Below PROVE Len(PathOf(m)) \in Nat
    BY PathEndsInNode DEF AncestorOrSelf
  <2> QED
    BY <2>1
<1>5. T # {}
  BY <1>3
<1>6. PICK k \in T : \A j \in T : k <= j
  BY <1>4, <1>5, LeastNumber
<1>7. PICK m \in Below : k = Len(PathOf(m))
  OBVIOUS
<1>8. m # a /\ Exists(m)
  BY DEF AncestorOrSelf
<1>9. m # Root
  BY <1>7, <1>8, AncestorOfRoot
<1>10. m \in Nodes /\ parent[m] \in down
  BY <1>2, <1>8, <1>9 DEF Exists
<1>11. parent[m] \in Below
  BY <1>1, <1>8, <1>9, <1>10, AncestorByParent
<1>12. Len(PathOf(parent[m])) < Len(PathOf(m)) /\ Len(PathOf(parent[m])) \in T
  BY <1>8, <1>9, <1>11, PathEndsInNode
<1> QED
  BY <1>4, <1>6, <1>7, <1>12

(* ... and nothing else.                                                   *)
LEMMA AboveIsAncestor ==
  ASSUME Hanging, NEW n, Exists(n), NEW a \in Above(n)
  PROVE  AncestorOrSelf(a, n)
<1> SUFFICES ASSUME ~AncestorOrSelf(a, n) PROVE FALSE
  OBVIOUS
<1>1. n \in Known /\ a \in Known
  BY WhatExists DEF Above, Known
<1> DEFINE down == {m \in Known : Exists(m) /\ ~AncestorOrSelf(a, m)} \ {a}
<1>2. n \in down
  <2>1. a # n
    BY AncestorOfSelf
  <2> QED
    BY <1>1, <2>1
<1>3. PICK m \in down \ {Root} : Exists(m) /\ parent[m] \notin down
  BY <1>1, <1>2 DEF Above, Known
<1>4. m \in Nodes /\ Exists(parent[m]) /\ parent[m] \in Known
  BY <1>3, WhatExists DEF Known, Hanging
<1>5. ~AncestorOrSelf(a, parent[m])
  <2>1. CASE Exists(a)
    BY <2>1, <1>3, <1>4, AncestorByParent
  <2>2. CASE ~Exists(a)
    BY <2>2 DEF AncestorOrSelf
  <2> QED
    BY <2>1, <2>2
<1>6. parent[m] # a
  BY <1>4, <1>5, AncestorOfSelf
<1> QED
  BY <1>3, <1>4, <1>5, <1>6

(* The two together: the stored path is the ancestry of the parents.       *)
LEMMA PathsTellAncestry ==
  ASSUME Hanging
  PROVE  PathIsAncestry
<1> SUFFICES ASSUME NEW n \in Nodes, Exists(n)
             PROVE  {a \in Known : AncestorOrSelf(a, n)} = Above(n)
  BY DEF PathIsAncestry, Known
<1>1. Above(n) \subseteq Known
  BY DEF Above, Known
<1> QED
  BY <1>1, AncestorIsAbove, AboveIsAncestor

(* Steps that leave the tree alone leave it sound.                         *)
LEMMA TreeKept ==
  ASSUME Hanging, parent' = parent, path' = path
  PROVE  Hanging'
BY DEF Hanging, Exists, PathOf

(* The cascade deletes a node with all that is below it, so whatever is    *)
(* left hangs under something that is left.                                *)
LEMMA CascadeKeepsTree ==
  ASSUME Hanging, NEW n \in Nodes, DeleteNode(n)
  PROVE  Hanging'
<1> DEFINE below == {m \in Nodes : Exists(m) /\ n \in Above(m)}
<1>1. /\ parent' = [m \in Nodes |-> IF m \in below THEN "gone" ELSE parent[m]]
      /\ path' = [m \in Nodes |-> IF m \in below THEN <<>> ELSE path[m]]
  BY DEF DeleteNode
<1>2. parent' \in [Nodes -> Known \cup {"gone"}] /\ path' \in [Nodes -> Seq(Known)]
  BY <1>1 DEF Hanging
<1>3. \A m : Exists(m)' <=> (Exists(m) /\ m \notin below) \/ m = Root
  <2> HIDE DEF below
  <2> QED
    BY <1>1 DEF Exists
<1>4. Root \notin below
  BY AuthorizationAssumption DEF AuthorizationAssumption
<1>5. ASSUME NEW m \in Nodes, Exists(m)'
      PROVE  Exists(parent[m])' /\ path'[m] = Append(PathOf(parent[m])', m)
  <2>1. m # Root /\ Exists(m) /\ m \notin below
    BY <1>3, <1>5, AuthorizationAssumption DEF AuthorizationAssumption
  <2>2. Exists(parent[m]) /\ path[m] = Append(PathOf(parent[m]), m)
    BY <2>1 DEF Hanging
  <2>3. parent[m] \notin below
    <3> SUFFICES ASSUME parent[m] \in below PROVE FALSE
      OBVIOUS
    <3>1. AncestorOrSelf(n, parent[m]) /\ Exists(n)
      BY <2>2, AboveIsAncestor DEF AncestorOrSelf
    <3>2. AncestorOrSelf(n, m)
      BY <2>1, <3>1, AncestorByParent
    <3> QED
      BY <2>1, <3>2, AncestorIsAbove
  <2>4. parent'[m] = parent[m] /\ path'[m] = path[m]
    BY <1>1, <2>1
  <2>5. parent[m] \in Known
    BY <2>2, WhatExists
  <2>6. PathOf(parent[m])' = PathOf(parent[m])
    <3> HIDE DEF below
    <3> QED
      BY <1>1, <2>3, <2>4, <2>5 DEF PathOf, Known
  <2>7. Exists(parent[m])'
    <3> HIDE DEF below
    <3> QED
      BY <1>1, <2>2, <2>3, <2>4 DEF Exists
  <2> QED
    BY <2>2, <2>4, <2>6, <2>7
<1> QED
  BY <1>2, <1>5 DEF Hanging

(* The trigger of migration 3 writes the path of the row that moved, and   *)
(* that is all there is to write when nothing hangs below it.              *)
LEMMA MoveKeepsTree ==
  ASSUME Hanging, NEW n \in Nodes, NEW p \in Nodes \cup {Root}, MoveLeaf(n, p)
  PROVE  Hanging'
<1>1. /\ Exists(n) /\ Exists(p) /\ n # p
      /\ parent' = [parent EXCEPT ![n] = p]
      /\ path' = [path EXCEPT ![n] = Append(PathOf(p), n)]
      /\ \A m \in Nodes : parent[m] # n
  BY AncestorOfSelf DEF MoveLeaf, Move, SetScopePath, Children
<1>2. n # Root /\ n \in Known /\ p \in Known
  BY AuthorizationAssumption DEF AuthorizationAssumption, Known
<1>3. parent' \in [Nodes -> Known \cup {"gone"}] /\ path' \in [Nodes -> Seq(Known)]
  <2>1. Append(PathOf(p), n) \in Seq(Known)
    BY <1>2, PathIsSequence
  <2> QED
    BY <1>1, <1>2, <2>1 DEF Hanging
<1>4. ASSUME NEW m \in Nodes, Exists(m)'
      PROVE  Exists(parent[m])' /\ path'[m] = Append(PathOf(parent[m])', m)
  <2>1. CASE m = n
    <3>1. parent'[m] = p /\ path'[m] = Append(PathOf(p), n)
      BY <1>1, <2>1 DEF Hanging
    <3>2. Exists(p)' /\ PathOf(p)' = PathOf(p)
      BY <1>1 DEF Hanging, Exists, PathOf
    <3> QED
      BY <2>1, <3>1, <3>2 DEF Exists, PathOf
  <2>2. CASE m # n
    <3>1. /\ parent'[m] = parent[m] /\ path'[m] = path[m] /\ parent[m] # n
          /\ m # Root /\ Exists(m)
      BY <1>1, <1>4, <2>2, AuthorizationAssumption DEF AuthorizationAssumption, Hanging, Exists
    <3>2. Exists(parent[m]) /\ path[m] = Append(PathOf(parent[m]), m)
      BY <3>1 DEF Hanging
    <3> QED
      BY <1>1, <3>1, <3>2 DEF Exists, PathOf, Hanging
  <2> QED
    BY <2>1, <2>2
<1> QED
  BY <1>3, <1>4 DEF Hanging

(* The tree an installation begins with is sound.                          *)
LEMMA FirstTree ==
  ASSUME Init
  PROVE  Hanging
<1>1. parent = Hangs /\ path = Paths
  BY DEF Init
<1>2. ASSUME NEW n \in Nodes
      PROVE  Exists(parent[n]) /\ path[n] = Append(PathOf(parent[n]), n)
  BY <1>1, TreeAssumption, AuthorizationAssumption DEF AuthorizationAssumption, TreeAssumption, Exists, PathOf
<1> QED
  BY <1>1, <1>2, TreeAssumption DEF TreeAssumption, Hanging, Known

-----------------------------------------------------------------------------
(* The rules read off one snapshot d = <<parent, path, standing, grants,   *)
(* token, now>>, so that they can be said of the rows before and after a   *)
(* step alike.                                                             *)

ThereIn(d, n) == n = Root \/ (n \in Nodes /\ d[1][n] # "gone")
AboveIn(d, n) ==
    {a \in Nodes \cup {Root} : \A down \in SUBSET ((Nodes \cup {Root}) \ {a}) :
        n \in down => \E m \in down \ {Root} : ThereIn(d, m) /\ d[1][m] \notin down}
ReachingIn(d, node, res) ==
    (IF ThereIn(d, node) THEN AboveIn(d, node) ELSE {}) \cup ({res} \ {NoRes})
RowsIn(d, s, roles, node, res) ==
    {g \in d[4] : /\ g.subject = s /\ g.role \in roles /\ g.expires > d[6]
                  /\ g.at \in ReachingIn(d, node, res)}
HoldsIn(d, s, roles, node, res) ==
    LET rows == RowsIn(d, s, roles, node, res)
    IN  (\E g \in rows : g.effect = "allow") /\ (\A g \in rows : g.effect = "allow")
MayActIn(d, s) ==
    IF s \in Tokens
    THEN d[5][s].issuer # NoOne /\ ~d[5][s].revoked /\ d[5][s].expires > d[6]
    ELSE d[3][s] = "enabled"
FactsIn(d, q) ==
    {f \in {"actor", "scope", "allow", "issuer", "ceiling"} :
        \/ f = "actor" /\ MayActIn(d, q.actor)
        \/ f = "scope" /\ ThereIn(d, q.node)
        \/ f = "allow" /\ HoldsIn(d, q.actor, q.roles, q.node, q.res)
        \/ f = "issuer" /\ q.issuer # NoOne /\ MayActIn(d, q.issuer)
        \/ f = "ceiling" /\ q.issuer # NoOne /\ HoldsIn(d, q.issuer, q.roles, q.node, q.res)}

(* What is remembered of a call that goes from q to p as the rows become d. *)
Recalled(q, p, d, s) ==
    IF p.pc = "status" /\ q.pc # "status" THEN FactsIn(d, p)
    ELSE IF q.pc \in {"idle", "done"} THEN s ELSE s \cup FactsIn(d, p)

LEMMA WhatIsRemembered ==
  ASSUME Remember, NEW r \in Requests
  PROVE  /\ seen'[r] = Recalled(ask[r], ask'[r], data', seen[r])
         /\ quiet'[r] <=> (quiet[r] /\ (ask[r].pc \in {"idle", "done"} \/ data' = data))
<1>1. Facts(r)' = FactsIn(data', ask'[r])
  BY DEF Facts, FactsIn, HoldsIn, Holds, RowsIn, Rows, ReachingIn, Reaching, AboveIn,
         Above, ThereIn, Exists, MayActIn, MayAct, data
<1> QED
  BY <1>1 DEF Remember, Recalled

LEMMA HoldsNow ==
  ASSUME NEW s, NEW roles, NEW node, NEW res
  PROVE  Holds(s, roles, node, res) <=> HoldsIn(data, s, roles, node, res)
BY DEF HoldsIn, Holds, RowsIn, Rows, ReachingIn, Reaching, AboveIn, Above, ThereIn, Exists, data

(* The rows found by the stored paths are those of the places above.       *)
LEMMA EffectiveIsRows ==
  ASSUME Hanging, grants \subseteq Grant, NEW s, NEW roles,
         NEW node \in Known, NEW res \in Resources \cup {NoRes}
  PROVE  Effective(s, roles, node, res) = RowsIn(data, s, roles, node, res)
<1>1. ASSUME NEW g \in grants
      PROVE  Reaches(g, node, res) <=> g.at \in Reaching(node, res)
  <2>1. g.at \in Nodes \cup {Root} \cup Resources
    BY DEF Grant, Places
  <2>2. /\ g.at \in Resources => g.at \notin Known
        /\ res # NoRes <=> res \in Resources
    BY AuthorizationAssumption DEF AuthorizationAssumption, Known
  <2>3. AncestorOrSelf(g.at, node) <=> Exists(node) /\ g.at \in Above(node)
    BY AncestorIsAbove, AboveIsAncestor DEF AncestorOrSelf
  <2>4. g.at \in Above(node) => g.at \in Known
    BY DEF Above, Known
  <2>5. AncestorOrSelf(g.at, node) => g.at \in Known
    BY WhatExists DEF AncestorOrSelf
  <2> QED
    BY <2>1, <2>2, <2>3, <2>4, <2>5 DEF Reaches, Reaching
<1>2. Effective(s, roles, node, res) = Rows(s, roles, node, res)
  BY <1>1 DEF Effective, Rows, Live
<1>3. Rows(s, roles, node, res) = RowsIn(data, s, roles, node, res)
  BY DEF RowsIn, Rows, ReachingIn, Reaching, AboveIn, Above, ThereIn, Exists, data
<1> QED
  BY <1>2, <1>3

(* grant_decision is the rule, and "explicit-deny" is told from "no-grant". *)
LEMMA DecisionIsTheRule ==
  ASSUME Hanging, grants \subseteq Grant, NEW s, NEW roles,
         NEW node \in Known, NEW res \in Resources \cup {NoRes}
  PROVE  /\ Decision(s, roles, node, res) = "allow" <=> HoldsIn(data, s, roles, node, res)
         /\ HasAllowingGrant(s, roles, node, res)
            <=> \E g \in RowsIn(data, s, roles, node, res) : g.effect = "allow"
<1>1. Effective(s, roles, node, res) = RowsIn(data, s, roles, node, res)
  BY EffectiveIsRows
<1>2. \A g \in Effective(s, roles, node, res) : g.effect = "allow" <=> g.effect # "deny"
  BY DEF Effective, Grant
<1> QED
  BY <1>1, <1>2 DEF Decision, HasAllowingGrant, HoldsIn

-----------------------------------------------------------------------------
(* One call: what it holds, what has been learnt for it, and, while        *)
(* nothing changes, what of that is still so.                              *)

Steps == {"idle", "status", "scope", "grants", "explain", "issuer", "ceiling",
          "granted", "insert", "done"}
Reasons == {"none", "unknown-action", "actor-not-in-tenant", "actor-disabled",
            "unknown-scope", "explicit-deny", "no-grant", "issuer-not-in-tenant",
            "issuer-disabled", "granted", "exceeds-issuer", "stale", "no-node",
            "issued", "refused", "revoked"}
RoleSets == SUBSET DOMAIN DEFAULT_ROLES
Asked ==
    [pc : Steps, doing : {"decide", "issue", "revokeOne", "revokeAll"},
     actor : Subjects, issuer : People \cup {NoOne}, roles : RoleSets,
     node : Known, res : Resources \cup {NoRes}, reason : Reasons,
     want : Issues \cup {CHOOSE w \in Issues : TRUE}, left : SUBSET RoleSets,
     about : Subjects \cup {NoOne}]

Answering == {"status", "scope", "grants", "explain", "issuer", "ceiling"}

(* A token's question names the person behind it; a person's names nobody. *)
Proper(q, d) ==
    /\ q \in Asked
    /\ q.issuer = IF q.actor \in Tokens THEN d[5][q.actor].issuer ELSE NoOne
    /\ q.actor \in Tokens => q.issuer # NoOne
    /\ q.pc \in Answering => q.roles # {} /\ q.reason = "none"
    /\ q.pc \in {"issuer", "ceiling"} => q.actor \in Tokens
    /\ q.doing # "decide" => q.actor \in People
    /\ q.doing = "issue" => q.want \in Issues /\ q.left \subseteq Ceiling(q.want.role)
    /\ q.pc = "insert" => q.doing = "issue" /\ q.left = {}
    /\ q.pc \in {"idle", "granted"} => (q.doing = "decide" <=> q.pc = "idle")
    /\ q.pc = "idle" => q.reason = "none"

(* s is what was true for it at some moment since it was asked.            *)
Learnt(q, s) ==
    /\ q.pc \in {"scope", "grants", "issuer", "ceiling"} => "actor" \in s
    /\ q.pc \in {"grants", "issuer", "ceiling"} => "scope" \in s
    /\ q.pc \in {"issuer", "ceiling"} => "allow" \in s
    /\ q.pc = "ceiling" => "issuer" \in s
    /\ q.reason = "granted" => Needed(q) \subseteq s

(* Of the ceiling of a token that is being issued, what has been asked.    *)
Covered(q, d) ==
    q.doing = "issue" /\ q.pc \notin {"idle", "done"} =>
        \A c \in Ceiling(q.want.role) \ q.left :
            \/ HoldsIn(d, q.actor, c, q.want.node, q.want.res)
            \/ /\ q.pc \in Answering
               /\ q.roles = c /\ q.node = q.want.node /\ q.res = q.want.res

Current(q, d) ==
    /\ q.pc \in {"scope", "grants", "explain", "issuer", "ceiling", "granted", "insert"}
       => MayActIn(d, q.actor)
    /\ q.pc \in {"grants", "explain", "issuer", "ceiling"} => ThereIn(d, q.node)
    /\ q.pc = "explain" => ~HoldsIn(d, q.actor, q.roles, q.node, q.res)
    /\ q.pc \in {"issuer", "ceiling"} => HoldsIn(d, q.actor, q.roles, q.node, q.res)
    /\ q.pc = "ceiling" => MayActIn(d, q.issuer)
    /\ Covered(q, d)

Tables ==
    /\ standing \in [People \cup Services -> {"enabled", "disabled", "absent"}]
    /\ grants \subseteq Grant /\ leaving \subseteq grants
    /\ token \in [Tokens -> Row]
    /\ now \in 0..MaxNow /\ changes \in 0..MaxChanges /\ raced \in BOOLEAN

CallsInv ==
    /\ Hanging /\ Tables
    /\ DOMAIN ask = Requests
    /\ \A r \in Requests : /\ Proper(ask[r], data) /\ Learnt(ask[r], seen[r])
                           /\ quiet[r] => Current(ask[r], data)

(* What the rules say at once of a question, from one snapshot.            *)
AtOnceIn(q, d) ==
    LET allowed == \E g \in RowsIn(d, q.actor, q.roles, q.node, q.res) : g.effect = "allow"
        standingOf(s, none, off) ==
            IF s \in Tokens \/ d[3][s] # "absent" THEN off ELSE none
    IN  IF q.roles = {} THEN "unknown-action"
        ELSE IF ~MayActIn(d, q.actor)
             THEN standingOf(q.actor, "actor-not-in-tenant", "actor-disabled")
        ELSE IF ~ThereIn(d, q.node) THEN "unknown-scope"
        ELSE IF ~HoldsIn(d, q.actor, q.roles, q.node, q.res)
             THEN IF allowed THEN "explicit-deny" ELSE "no-grant"
        ELSE IF q.issuer = NoOne THEN "granted"
        ELSE IF ~MayActIn(d, q.issuer)
             THEN standingOf(q.issuer, "issuer-not-in-tenant", "issuer-disabled")
        ELSE IF HoldsIn(d, q.issuer, q.roles, q.node, q.res) THEN "granted" ELSE "exceeds-issuer"

(* A step of the call that leaves the rows as they are, from q to p.       *)
Goes(q, p, d) ==
    /\ Proper(p, d)
    /\ \A s : Learnt(q, s) => Learnt(p, Recalled(q, p, d, s))
    /\ Current(q, d) => Current(p, d)
    /\ Current(q, d) /\ q.pc # "done" /\ p.pc = "done" /\ q.doing = "decide"
       => p.reason = AtOnceIn(p, d)
    /\ p.reason = "issued" => q.reason = "issued"

(* The row a step concerns, when the step writes only the call.            *)
LEMMA ReadingKeepsCalls ==
  ASSUME CallsInv, Remember, NEW r \in Requests, NEW p,
         ask' = [ask EXCEPT ![r] = p], Reading, Goes(ask[r], p, data)
  PROVE  CallsInv'
<1>1. data' = data /\ leaving' = leaving /\ changes' = changes /\ raced' = raced
  BY DEF Reading
<1>2. Hanging' /\ Tables'
  BY <1>1, TreeKept DEF CallsInv, Tables, data
<1>3. DOMAIN ask' = Requests /\ ask'[r] = p /\ \A x \in Requests \ {r} : ask'[x] = ask[x]
  BY DEF CallsInv
<1>4. ASSUME NEW x \in Requests
      PROVE  /\ Proper(ask'[x], data') /\ Learnt(ask'[x], seen'[x])
             /\ quiet'[x] => Current(ask'[x], data')
  <2>1. /\ seen'[x] = Recalled(ask[x], ask'[x], data, seen[x])
        /\ quiet'[x] => quiet[x]
    BY <1>1, WhatIsRemembered
  <2>2. Proper(ask[x], data) /\ Learnt(ask[x], seen[x]) /\ (quiet[x] => Current(ask[x], data))
    BY DEF CallsInv
  <2>3. CASE x = r
    BY <1>1, <1>3, <2>1, <2>2, <2>3 DEF Goes
  <2>4. CASE x # r
    <3>1. Learnt(ask[x], Recalled(ask[x], ask[x], data, seen[x]))
      BY <2>2 DEF Learnt, Recalled
    <3> QED
      BY <1>1, <1>3, <2>1, <2>2, <2>4, <3>1
  <2> QED
    BY <2>3, <2>4
<1> QED
  BY <1>2, <1>3, <1>4 DEF CallsInv

(* What makes b the beginning of a proper question, asked after q.         *)
Askable(q, b, roles, node, res, d) ==
    /\ q.pc \in {"idle", "granted"}
    /\ b \in Asked /\ roles \in RoleSets /\ node \in Known /\ res \in Resources \cup {NoRes}
    /\ b.issuer = IF b.actor \in Tokens THEN d[5][b.actor].issuer ELSE NoOne
    /\ b.actor \in Tokens => b.issuer # NoOne
    /\ b.doing # "decide" => b.actor \in People
    /\ b.doing = "issue" => b.want \in Issues /\ b.left \subseteq Ceiling(b.want.role)
    /\ b.doing = "issue" /\ Current(q, d) =>
          \A c \in Ceiling(b.want.role) \ b.left :
             \/ HoldsIn(d, b.actor, c, b.want.node, b.want.res)
             \/ roles = c /\ node = b.want.node /\ res = b.want.res

(* A new question forgets what was learnt for the last one.                *)
LEMMA QuestionGoes ==
  ASSUME NEW d, NEW q, NEW b, NEW roles, NEW node, NEW res,
         Askable(q, b, roles, node, res, d)
  PROVE  Goes(q, Question(b, roles, node, res), d)
<1> USE DEF Askable
<1> DEFINE p == Question(b, roles, node, res)
<1>1. /\ p.pc = (IF roles = {} THEN "done" ELSE "status")
      /\ p.reason = (IF roles = {} THEN "unknown-action" ELSE "none")
      /\ p.roles = roles /\ p.node = node /\ p.res = res
      /\ p.doing = b.doing /\ p.actor = b.actor /\ p.issuer = b.issuer
      /\ p.want = b.want /\ p.left = b.left /\ p.about = b.about
  BY DEF Question, Asked
<1>2. p \in Asked
  <2>1. (IF roles = {} THEN "done" ELSE "status") \in Steps
        /\ (IF roles = {} THEN "unknown-action" ELSE "none") \in Reasons
    BY DEF Steps, Reasons
  <2> QED
    BY <2>1 DEF Question, Asked
<1> HIDE DEF p
<1>3. Proper(p, d)
  BY <1>1, <1>2 DEF Proper, Answering
<1>4. ASSUME NEW s PROVE Learnt(p, Recalled(q, p, d, s))
  BY <1>1 DEF Learnt
<1>5. Current(q, d) => Current(p, d)
  <2>1. Current(q, d) => Covered(p, d)
    BY <1>1 DEF Covered, Answering
  <2> QED
    BY <1>1, <2>1 DEF Current
<1>6. p.pc = "done" => p.reason = AtOnceIn(p, d)
  BY <1>1 DEF AtOnceIn
<1> QED
  BY <1>1, <1>3, <1>4, <1>5, <1>6 DEF Goes, p

(* An answer that is the rules' own, when nothing has changed; a yes with  *)
(* every part of it learnt.                                                *)
LEMMA AnswerGoes ==
  ASSUME NEW d, NEW q, Proper(q, d), q.pc \in Answering, NEW reason \in Reasons \ {"issued"}, NEW p,
         \/ p = [q EXCEPT !.reason = reason,
                          !.pc = IF reason = "granted" /\ q.doing # "decide" THEN "granted" ELSE "done"]
         \/ /\ reason = "granted" /\ q.doing # "decide"
            /\ p = [q EXCEPT !.pc = "done", !.reason = "stale"],
         \A s : Learnt(q, s) /\ reason = "granted" => Needed(q) \subseteq s \cup FactsIn(d, q),
         Current(q, d) => reason = AtOnceIn(q, d)
  PROVE  Goes(q, p, d)
<1>1. q \in Asked
  BY DEF Proper
<1>2. /\ p.roles = q.roles /\ p.node = q.node /\ p.res = q.res
      /\ p.doing = q.doing /\ p.actor = q.actor /\ p.issuer = q.issuer
      /\ p.want = q.want /\ p.left = q.left /\ p.about = q.about
  BY <1>1 DEF Asked
<1>3. \/ p.pc = "done" /\ p.reason = reason /\ (reason = "granted" => q.doing = "decide")
      \/ p.pc = "granted" /\ p.reason = reason /\ reason = "granted" /\ q.doing # "decide"
      \/ p.pc = "done" /\ p.reason = "stale" /\ q.doing # "decide"
  BY <1>1 DEF Asked
<1>4. p \in Asked
  <2>1. "done" \in Steps /\ "granted" \in Steps /\ "stale" \in Reasons
    BY DEF Steps, Reasons
  <2> QED
    BY <1>1, <2>1 DEF Asked
<1>5. Proper(p, d)
  BY <1>2, <1>3, <1>4 DEF Proper, Answering
<1>6. ASSUME NEW s, Learnt(q, s) PROVE Learnt(p, Recalled(q, p, d, s))
  <2>1. Needed(p) = Needed(q)
    BY <1>2 DEF Needed
  <2>2. FactsIn(d, p) = FactsIn(d, q)
    BY <1>2 DEF FactsIn
  <2>3. Recalled(q, p, d, s) = s \cup FactsIn(d, q)
    BY <1>3, <2>2 DEF Recalled, Answering
  <2> QED
    BY <1>3, <1>6, <2>1, <2>3 DEF Learnt
<1>7. AtOnceIn(p, d) = AtOnceIn(q, d)
  BY <1>2 DEF AtOnceIn
<1>8. ASSUME Current(q, d) PROVE Current(p, d)
  <2>1. CASE p.pc = "done"
    BY <2>1 DEF Current, Covered
  <2>2. CASE p.pc = "granted"
    <3>1. AtOnceIn(q, d) = "granted" /\ q.roles # {}
      BY <1>3, <1>8, <2>2 DEF Proper
    <3>2. MayActIn(d, q.actor) /\ HoldsIn(d, q.actor, q.roles, q.node, q.res)
      BY <3>1 DEF AtOnceIn
    <3>3. Covered(p, d)
      BY <1>2, <1>8, <2>2, <3>2 DEF Covered, Current, Answering
    <3> QED
      BY <1>2, <2>2, <3>2, <3>3 DEF Current
  <2> QED
    BY <1>3, <2>1, <2>2
<1> QED
  BY <1>3, <1>5, <1>6, <1>7, <1>8 DEF Goes

(* One read of can() further, with what it read learnt.                    *)
LEMMA ReadGoes ==
  ASSUME NEW d, NEW q, Proper(q, d), q.pc \in Answering,
         NEW pc \in Answering \ {"status"}, NEW p, p = [q EXCEPT !.pc = pc],
         pc \in {"issuer", "ceiling"} => q.actor \in Tokens,
         \A s : Learnt(q, s) => Learnt(p, s \cup FactsIn(d, q)),
         Current(q, d) => Current(p, d)
  PROVE  Goes(q, p, d)
<1>1. q \in Asked
  BY DEF Proper
<1>2. /\ p.roles = q.roles /\ p.node = q.node /\ p.res = q.res
      /\ p.doing = q.doing /\ p.actor = q.actor /\ p.issuer = q.issuer
      /\ p.want = q.want /\ p.left = q.left /\ p.about = q.about
      /\ p.pc = pc /\ p.reason = q.reason
  BY <1>1 DEF Asked
<1>3. p \in Asked
  <2>1. pc \in Steps
    BY DEF Steps, Answering
  <2> QED
    BY <1>1, <2>1 DEF Asked
<1>4. Proper(p, d)
  BY <1>2, <1>3 DEF Proper, Answering
<1>5. FactsIn(d, p) = FactsIn(d, q)
  BY <1>2 DEF FactsIn
<1>6. ASSUME NEW s PROVE Recalled(q, p, d, s) = s \cup FactsIn(d, q)
  BY <1>2, <1>5 DEF Recalled, Answering
<1>7. p.pc # "done"
  BY <1>2 DEF Answering
<1> QED
  BY <1>2, <1>4, <1>6, <1>7 DEF Goes

-----------------------------------------------------------------------------
(* The reads of can(), one by one.                                         *)

(* A request's call, its rows typed, in the words of the lemmas above.     *)
LEMMA CallFacts ==
  ASSUME CallsInv, NEW r \in Requests
  PROVE  /\ Proper(ask[r], data) /\ ask[r] \in Asked /\ DOMAIN ask = Requests
         /\ Hanging /\ grants \subseteq Grant
BY DEF CallsInv, Tables, Proper

(* findActorStatus of whoever can be asked about.                          *)
LEMMA StatusIsTheRule ==
  ASSUME Tables, NEW s \in Subjects
  PROVE  /\ FindActorStatus(s).exists /\ ~FindActorStatus(s).disabled <=> MayActIn(data, s)
         /\ s \notin Tokens => (FindActorStatus(s).exists <=> standing[s] # "absent")
         /\ s \in Tokens => (FindActorStatus(s).exists <=> token[s].issuer # NoOne)
<1>1. CASE s \in Tokens
  <2>1. token[s].revoked \in BOOLEAN
    BY <1>1 DEF Tables, Row
  <2> QED
    BY <1>1, <2>1 DEF FindActorStatus, MayActIn, LiveToken, data
<1>2. CASE s \notin Tokens
  <2>1. standing[s] \in {"enabled", "disabled", "absent"}
    BY <1>2 DEF Tables, Subjects
  <2> QED
    BY <1>2, <2>1 DEF FindActorStatus, MayActIn, data
<1> QED
  BY <1>1, <1>2

LEMMA ReadStatusKeepsCalls ==
  ASSUME CallsInv, Remember, NEW r \in Requests, ReadStatus(r)
  PROVE  CallsInv' /\ \E p : ask' = [ask EXCEPT ![r] = p] /\ Goes(ask[r], p, data)
<1> DEFINE q == ask[r]
           st == FindActorStatus(q.actor)
<1>1. Proper(q, data) /\ q \in Asked /\ q.pc = "status" /\ q.pc \in Answering /\ q.roles # {}
  BY CallFacts DEF ReadStatus, Answering, Proper
<1>2. /\ st.exists /\ ~st.disabled <=> MayActIn(data, q.actor)
      /\ q.actor \notin Tokens => (st.exists <=> standing[q.actor] # "absent")
      /\ q.actor \in Tokens => st.exists
  <2>1. q.actor \in Subjects /\ Tables
    BY <1>1 DEF Asked, CallsInv
  <2>2. q.actor \in Tokens => token[q.actor].issuer # NoOne
    BY <1>1 DEF Proper, data
  <2> QED
    BY <2>1, <2>2, StatusIsTheRule
<1>3. Reading
  BY DEF ReadStatus
<1>4. CASE ~st.exists /\ Answers(r, "actor-not-in-tenant")
  <2>1. AtOnceIn(q, data) = "actor-not-in-tenant"
    BY <1>1, <1>2, <1>4 DEF AtOnceIn, data
  <2>2. PICK p : ask' = [ask EXCEPT ![r] = p] /\ p = [q EXCEPT !.reason = "actor-not-in-tenant", !.pc = "done"]
    BY <1>4 DEF Answers, Becomes
  <2>3. Goes(q, p, data)
    <3>1. "actor-not-in-tenant" \in Reasons \ {"issued"}
      BY DEF Reasons
    <3> QED
      BY <1>1, <2>1, <2>2, <3>1, AnswerGoes
  <2> QED
    BY <1>3, <2>2, <2>3, ReadingKeepsCalls
<1>5. CASE st.exists /\ st.disabled /\ Answers(r, "actor-disabled")
  <2>1. AtOnceIn(q, data) = "actor-disabled"
    BY <1>1, <1>2, <1>5 DEF AtOnceIn, data
  <2>2. PICK p : ask' = [ask EXCEPT ![r] = p] /\ p = [q EXCEPT !.reason = "actor-disabled", !.pc = "done"]
    BY <1>5 DEF Answers, Becomes
  <2>3. Goes(q, p, data)
    <3>1. "actor-disabled" \in Reasons \ {"issued"}
      BY DEF Reasons
    <3> QED
      BY <1>1, <2>1, <2>2, <3>1, AnswerGoes
  <2> QED
    BY <1>3, <2>2, <2>3, ReadingKeepsCalls
<1>6. CASE st.exists /\ ~st.disabled /\ Becomes(r, [q EXCEPT !.pc = "scope"])
  <2>1. PICK p : ask' = [ask EXCEPT ![r] = p] /\ p = [q EXCEPT !.pc = "scope"]
    BY <1>6 DEF Becomes
  <2>2. MayActIn(data, q.actor) /\ "scope" \in Answering \ {"status"}
    BY <1>2, <1>6 DEF Answering
  <2>3. /\ p.roles = q.roles /\ p.node = q.node /\ p.res = q.res
        /\ p.doing = q.doing /\ p.actor = q.actor /\ p.issuer = q.issuer
        /\ p.want = q.want /\ p.left = q.left
        /\ p.pc = "scope" /\ p.reason = q.reason
    BY <1>1, <2>1 DEF Asked
  <2>4. \A s : Learnt(q, s) => Learnt(p, s \cup FactsIn(data, q))
    BY <1>1, <2>2, <2>3 DEF Learnt, FactsIn, Proper
  <2>5. Current(q, data) => Current(p, data)
    BY <1>1, <2>2, <2>3 DEF Current, Covered, Answering
  <2>6. Goes(q, p, data)
    BY <1>1, <2>1, <2>2, <2>4, <2>5, ReadGoes
  <2> QED
    BY <1>3, <2>1, <2>6, ReadingKeepsCalls
<1> QED
  BY <1>4, <1>5, <1>6 DEF ReadStatus

LEMMA ReadScopeKeepsCalls ==
  ASSUME CallsInv, Remember, NEW r \in Requests, ReadScope(r)
  PROVE  CallsInv' /\ \E p : ask' = [ask EXCEPT ![r] = p] /\ Goes(ask[r], p, data)
<1> DEFINE q == ask[r]
<1>1. /\ Proper(q, data) /\ q \in Asked /\ q.pc = "scope" /\ q.pc \in Answering /\ q.roles # {}
      /\ Exists(q.node) <=> ThereIn(data, q.node)
  BY CallFacts DEF ReadScope, Answering, Proper, Exists, ThereIn, data
<1>2. Reading
  BY DEF ReadScope
<1>3. CASE ~Exists(q.node) /\ Answers(r, "unknown-scope")
  <2>1. Current(q, data) => AtOnceIn(q, data) = "unknown-scope"
    BY <1>1, <1>3 DEF AtOnceIn, Current
  <2>2. PICK p : ask' = [ask EXCEPT ![r] = p] /\ p = [q EXCEPT !.reason = "unknown-scope", !.pc = "done"]
    BY <1>3 DEF Answers, Becomes
  <2>3. Goes(q, p, data)
    <3>1. "unknown-scope" \in Reasons \ {"issued"}
      BY DEF Reasons
    <3> QED
      BY <1>1, <2>1, <2>2, <3>1, AnswerGoes
  <2> QED
    BY <1>2, <2>2, <2>3, ReadingKeepsCalls
<1>4. CASE Exists(q.node) /\ Becomes(r, [q EXCEPT !.pc = "grants"])
  <2>1. PICK p : ask' = [ask EXCEPT ![r] = p] /\ p = [q EXCEPT !.pc = "grants"]
    BY <1>4 DEF Becomes
  <2>2. "grants" \in Answering \ {"status"}
    BY DEF Answering
  <2>3. /\ p.roles = q.roles /\ p.node = q.node /\ p.res = q.res
        /\ p.doing = q.doing /\ p.actor = q.actor /\ p.issuer = q.issuer
        /\ p.want = q.want /\ p.left = q.left
        /\ p.pc = "grants" /\ p.reason = q.reason
    BY <1>1, <2>1 DEF Asked
  <2>4. \A s : Learnt(q, s) => Learnt(p, s \cup FactsIn(data, q))
    BY <1>1, <1>4, <2>3 DEF Learnt, FactsIn, Proper
  <2>5. Current(q, data) => Current(p, data)
    BY <1>1, <1>4, <2>3 DEF Current, Covered, Answering
  <2>6. Goes(q, p, data)
    BY <1>1, <2>1, <2>2, <2>3, <2>4, <2>5, ReadGoes
  <2> QED
    BY <1>2, <2>1, <2>6, ReadingKeepsCalls
<1> QED
  BY <1>3, <1>4 DEF ReadScope

LEMMA ReadGrantsKeepsCalls ==
  ASSUME CallsInv, Remember, NEW r \in Requests, ReadGrants(r)
  PROVE  CallsInv' /\ \E p : ask' = [ask EXCEPT ![r] = p] /\ Goes(ask[r], p, data)
<1> DEFINE q == ask[r]
           yes == Decision(q.actor, q.roles, q.node, q.res) = "allow"
<1>1. Proper(q, data) /\ q \in Asked /\ q.pc = "grants" /\ q.pc \in Answering /\ q.roles # {}
  BY CallFacts DEF ReadGrants, Answering, Proper
<1>2. yes <=> HoldsIn(data, q.actor, q.roles, q.node, q.res)
  <2>1. q.node \in Known /\ q.res \in Resources \cup {NoRes}
    BY <1>1 DEF Asked
  <2> QED
    BY <2>1, CallFacts, DecisionIsTheRule
<1>3. Reading
  BY DEF ReadGrants
<1>4. ASSUME NEW pc \in {"explain", "issuer"}, Becomes(r, [q EXCEPT !.pc = pc]),
             IF pc = "explain" THEN ~yes ELSE yes /\ q.actor \in Tokens
      PROVE  CallsInv' /\ \E p : ask' = [ask EXCEPT ![r] = p] /\ Goes(q, p, data)
  <2>1. PICK p : ask' = [ask EXCEPT ![r] = p] /\ p = [q EXCEPT !.pc = pc]
    BY <1>4 DEF Becomes
  <2>2. pc \in Answering \ {"status"}
    BY DEF Answering
  <2>3. /\ p.roles = q.roles /\ p.node = q.node /\ p.res = q.res
        /\ p.doing = q.doing /\ p.actor = q.actor /\ p.issuer = q.issuer
        /\ p.want = q.want /\ p.left = q.left
        /\ p.pc = pc /\ p.reason = q.reason
    BY <1>1, <2>1 DEF Asked
  <2>4. \A s : Learnt(q, s) => Learnt(p, s \cup FactsIn(data, q))
    BY <1>1, <1>2, <1>4, <2>3 DEF Learnt, FactsIn, Proper
  <2>5. Current(q, data) => Current(p, data)
    <3>1. q.actor \in Tokens => q.doing = "decide"
      BY <1>1, AuthorizationAssumption DEF Proper, AuthorizationAssumption
    <3> QED
      BY <1>1, <1>2, <1>4, <2>3, <3>1 DEF Current, Covered, Answering
  <2>6. Goes(q, p, data)
    BY <1>1, <1>4, <2>1, <2>2, <2>4, <2>5, ReadGoes
  <2> QED
    BY <1>3, <2>1, <2>6, ReadingKeepsCalls
<1>5. CASE yes /\ q.actor \notin Tokens /\ Answers(r, "granted")
  <2>1. Current(q, data) => AtOnceIn(q, data) = "granted"
    BY <1>1, <1>2, <1>5 DEF AtOnceIn, Current, Proper
  <2>2. \A s : Learnt(q, s) => Needed(q) \subseteq s \cup FactsIn(data, q)
    BY <1>1, <1>2, <1>5 DEF Learnt, Needed, FactsIn, Proper
  <2>3. PICK p : /\ ask' = [ask EXCEPT ![r] = p]
                 /\ \/ p = [q EXCEPT !.reason = "granted",
                                     !.pc = IF q.doing # "decide" THEN "granted" ELSE "done"]
                    \/ q.doing # "decide" /\ p = [q EXCEPT !.pc = "done", !.reason = "stale"]
    BY <1>5 DEF Answers, Becomes
  <2>4. Goes(q, p, data)
    <3>1. "granted" \in Reasons \ {"issued"}
      BY DEF Reasons
    <3> QED
      BY <1>1, <2>1, <2>2, <2>3, <3>1, AnswerGoes
  <2> QED
    BY <1>3, <2>3, <2>4, ReadingKeepsCalls
<1> QED
  BY <1>4, <1>5 DEF ReadGrants

LEMMA ReadExplanationKeepsCalls ==
  ASSUME CallsInv, Remember, NEW r \in Requests, ReadExplanation(r)
  PROVE  CallsInv' /\ \E p : ask' = [ask EXCEPT ![r] = p] /\ Goes(ask[r], p, data)
<1> DEFINE q == ask[r]
           some == HasAllowingGrant(q.actor, q.roles, q.node, q.res)
           why == IF some THEN "explicit-deny" ELSE "no-grant"
<1>1. Proper(q, data) /\ q \in Asked /\ q.pc = "explain" /\ q.pc \in Answering /\ q.roles # {}
  BY CallFacts DEF ReadExplanation, Answering, Proper
<1>2. some <=> \E g \in RowsIn(data, q.actor, q.roles, q.node, q.res) : g.effect = "allow"
  <2>1. q.node \in Known /\ q.res \in Resources \cup {NoRes}
    BY <1>1 DEF Asked
  <2> QED
    BY <2>1, CallFacts, DecisionIsTheRule
<1>3. Current(q, data) => why = AtOnceIn(q, data)
  BY <1>1, <1>2 DEF AtOnceIn, Current
<1>4. why \in Reasons \ {"issued"} /\ why # "granted"
  BY DEF Reasons
<1>5. PICK p : ask' = [ask EXCEPT ![r] = p] /\ p = [q EXCEPT !.reason = why, !.pc = "done"]
  BY <1>4 DEF ReadExplanation, Answers, Becomes
<1>6. Goes(q, p, data)
  <2> HIDE DEF why
  <2> QED
    BY <1>1, <1>3, <1>4, <1>5, AnswerGoes
<1>7. Reading
  BY DEF ReadExplanation
<1> QED
  BY <1>5, <1>6, <1>7, ReadingKeepsCalls

LEMMA ReadIssuerKeepsCalls ==
  ASSUME CallsInv, Remember, NEW r \in Requests, ReadIssuer(r)
  PROVE  CallsInv' /\ \E p : ask' = [ask EXCEPT ![r] = p] /\ Goes(ask[r], p, data)
<1> DEFINE q == ask[r]
           st == FindActorStatus(q.issuer)
<1>1. /\ Proper(q, data) /\ q \in Asked /\ q.pc = "issuer" /\ q.pc \in Answering /\ q.roles # {}
      /\ q.actor \in Tokens /\ q.issuer \in People /\ q.issuer # NoOne /\ q.issuer \notin Tokens
  BY CallFacts, AuthorizationAssumption
     DEF ReadIssuer, Answering, Proper, Asked, AuthorizationAssumption
<1>2. /\ st.exists /\ ~st.disabled <=> MayActIn(data, q.issuer)
      /\ st.exists <=> standing[q.issuer] # "absent"
  <2>1. q.issuer \in Subjects /\ Tables
    BY <1>1 DEF Subjects, CallsInv
  <2> QED
    BY <1>1, <2>1, StatusIsTheRule
<1>3. Reading
  BY DEF ReadIssuer
<1>4. CASE ~st.exists /\ Answers(r, "issuer-not-in-tenant")
  <2>1. Current(q, data) => AtOnceIn(q, data) = "issuer-not-in-tenant"
    BY <1>1, <1>2, <1>4 DEF AtOnceIn, Current, data
  <2>2. PICK p : ask' = [ask EXCEPT ![r] = p] /\ p = [q EXCEPT !.reason = "issuer-not-in-tenant", !.pc = "done"]
    BY <1>4 DEF Answers, Becomes
  <2>3. Goes(q, p, data)
    <3>1. "issuer-not-in-tenant" \in Reasons \ {"issued"}
      BY DEF Reasons
    <3> QED
      BY <1>1, <2>1, <2>2, <3>1, AnswerGoes
  <2> QED
    BY <1>3, <2>2, <2>3, ReadingKeepsCalls
<1>5. CASE st.exists /\ st.disabled /\ Answers(r, "issuer-disabled")
  <2>1. Current(q, data) => AtOnceIn(q, data) = "issuer-disabled"
    BY <1>1, <1>2, <1>5 DEF AtOnceIn, Current, data
  <2>2. PICK p : ask' = [ask EXCEPT ![r] = p] /\ p = [q EXCEPT !.reason = "issuer-disabled", !.pc = "done"]
    BY <1>5 DEF Answers, Becomes
  <2>3. Goes(q, p, data)
    <3>1. "issuer-disabled" \in Reasons \ {"issued"}
      BY DEF Reasons
    <3> QED
      BY <1>1, <2>1, <2>2, <3>1, AnswerGoes
  <2> QED
    BY <1>3, <2>2, <2>3, ReadingKeepsCalls
<1>6. CASE st.exists /\ ~st.disabled /\ Becomes(r, [q EXCEPT !.pc = "ceiling"])
  <2>1. PICK p : ask' = [ask EXCEPT ![r] = p] /\ p = [q EXCEPT !.pc = "ceiling"]
    BY <1>6 DEF Becomes
  <2>2. MayActIn(data, q.issuer) /\ "ceiling" \in Answering \ {"status"}
    BY <1>2, <1>6 DEF Answering
  <2>3. /\ p.roles = q.roles /\ p.node = q.node /\ p.res = q.res
        /\ p.doing = q.doing /\ p.actor = q.actor /\ p.issuer = q.issuer
        /\ p.want = q.want /\ p.left = q.left
        /\ p.pc = "ceiling" /\ p.reason = q.reason
    BY <1>1, <2>1 DEF Asked
  <2>4. \A s : Learnt(q, s) => Learnt(p, s \cup FactsIn(data, q))
    BY <1>1, <2>2, <2>3 DEF Learnt, FactsIn, Proper
  <2>5. Current(q, data) => Current(p, data)
    BY <1>1, <2>2, <2>3 DEF Current, Covered, Answering
  <2>6. Goes(q, p, data)
    BY <1>1, <2>1, <2>2, <2>4, <2>5, ReadGoes
  <2> QED
    BY <1>3, <2>1, <2>6, ReadingKeepsCalls
<1> QED
  BY <1>4, <1>5, <1>6 DEF ReadIssuer

LEMMA ReadCeilingKeepsCalls ==
  ASSUME CallsInv, Remember, NEW r \in Requests, ReadCeiling(r)
  PROVE  CallsInv' /\ \E p : ask' = [ask EXCEPT ![r] = p] /\ Goes(ask[r], p, data)
<1> DEFINE q == ask[r]
           yes == Decision(q.issuer, q.roles, q.node, q.res) = "allow"
           why == IF yes THEN "granted" ELSE "exceeds-issuer"
<1>1. /\ Proper(q, data) /\ q \in Asked /\ q.pc = "ceiling" /\ q.pc \in Answering /\ q.roles # {}
      /\ q.actor \in Tokens /\ q.issuer # NoOne /\ q.doing = "decide"
  BY CallFacts, AuthorizationAssumption
     DEF ReadCeiling, Answering, Proper, Asked, AuthorizationAssumption
<1>2. yes <=> HoldsIn(data, q.issuer, q.roles, q.node, q.res)
  <2>1. q.node \in Known /\ q.res \in Resources \cup {NoRes}
    BY <1>1 DEF Asked
  <2> QED
    BY <2>1, CallFacts, DecisionIsTheRule
<1>3. Current(q, data) => why = AtOnceIn(q, data)
  BY <1>1, <1>2 DEF AtOnceIn, Current
<1>4. \A s : Learnt(q, s) /\ why = "granted" => Needed(q) \subseteq s \cup FactsIn(data, q)
  BY <1>1, <1>2 DEF Learnt, Needed, FactsIn
<1>5. PICK p : ask' = [ask EXCEPT ![r] = p] /\ p = [q EXCEPT !.reason = why, !.pc = "done"]
  BY <1>1 DEF ReadCeiling, Answers, Becomes
<1>6. why \in Reasons \ {"issued"}
  BY DEF Reasons
<1>7. Goes(q, p, data)
  <2> HIDE DEF why
  <2> QED
    BY <1>1, <1>3, <1>4, <1>5, <1>6, AnswerGoes
<1>8. Reading
  BY DEF ReadCeiling
<1> QED
  BY <1>5, <1>7, <1>8, ReadingKeepsCalls

-----------------------------------------------------------------------------
(* The questions that begin a call, and the ceiling of a new token.        *)

LEMMA CarriersAreRoles ==
  ASSUME NEW a
  PROVE  rolesCarrying(a) \in RoleSets
BY DEF rolesCarrying, RoleSets

LEMMA IdleAsked == Idle \in Asked
<1>1. /\ "idle" \in Steps /\ "none" \in Reasons /\ Founder \in Subjects /\ {} \in RoleSets
      /\ Root \in Known
  BY AuthorizationAssumption DEF AuthorizationAssumption, Steps, Reasons, Subjects, RoleSets, Known
<1> QED
  BY <1>1 DEF Idle, Asked

LEMMA CanAskKeepsCalls ==
  ASSUME CallsInv, Remember, NEW r \in Requests, NEW a \in Asks,
         CanAsk(r, a.who, a.name, a.node, a.res)
  PROVE  CallsInv' /\ \E p : ask' = [ask EXCEPT ![r] = p] /\ Goes(ask[r], p, data)
<1> DEFINE b == [Idle EXCEPT !.actor = a.who, !.issuer = Issuer(a.who)]
           roles == IF a.name \in ACTION_CATALOGUE THEN rolesCarrying(a.name) ELSE {}
           p == Question(b, roles, a.node, a.res)
<1>1. a.who \in Subjects /\ a.node \in Known /\ a.res \in Resources \cup {NoRes}
  BY AuthorizationAssumption DEF AuthorizationAssumption, Known
<1>2. Issuer(a.who) = (IF a.who \in Tokens THEN data[5][a.who].issuer ELSE NoOne)
  BY DEF Issuer, data
<1>3. a.who \in Tokens => Issuer(a.who) # NoOne
  BY DEF CanAsk, Issuer
<1>4. Issuer(a.who) \in People \cup {NoOne}
  BY DEF CallsInv, Tables, Row, Issuer
<1>5. /\ b \in Asked /\ b.actor = a.who /\ b.issuer = Issuer(a.who)
      /\ b.doing = "decide"
  BY <1>1, <1>4, IdleAsked DEF Asked, Idle
<1>6. roles \in RoleSets
  BY CarriersAreRoles DEF RoleSets
<1>7. ask[r].pc = "idle" /\ ask' = [ask EXCEPT ![r] = p] /\ Reading
  BY DEF CanAsk, Starts, Becomes
<1> HIDE DEF b, roles
<1>8. Askable(ask[r], b, roles, a.node, a.res, data)
  BY <1>1, <1>2, <1>3, <1>5, <1>6, <1>7 DEF Askable
<1>9. Goes(ask[r], p, data)
  BY <1>8, QuestionGoes
<1> QED
  BY <1>7, <1>9, ReadingKeepsCalls

LEMMA IssueKeepsCalls ==
  ASSUME CallsInv, Remember, NEW r \in Requests, NEW who \in People, NEW w \in Issues,
         IssueApiToken(r, who, w)
  PROVE  CallsInv' /\ \E p : ask' = [ask EXCEPT ![r] = p] /\ Goes(ask[r], p, data)
<1> DEFINE b == [Idle EXCEPT !.doing = "issue", !.actor = who, !.want = w,
                             !.left = Ceiling(w.role)]
           roles == rolesCarrying(<<"api_token", "manage_own">>)
           p == Question(b, roles, Root, NoRes)
<1>1. who \in Subjects /\ who \notin Tokens /\ Root \in Known /\ roles \in RoleSets
  BY CarriersAreRoles, AuthorizationAssumption DEF AuthorizationAssumption, Known, Subjects
<1>2. Ceiling(w.role) \in SUBSET RoleSets
  BY CarriersAreRoles DEF Ceiling
<1>3. /\ b \in Asked /\ b.actor = who /\ b.issuer = NoOne /\ b.doing = "issue"
      /\ b.want = w /\ b.left = Ceiling(w.role)
  BY <1>1, <1>2, IdleAsked DEF Asked, Idle
<1>4. ask[r].pc = "idle" /\ ask' = [ask EXCEPT ![r] = p] /\ Reading
  BY DEF IssueApiToken, Starts, Becomes
<1> HIDE DEF b, roles
<1>5. Askable(ask[r], b, roles, Root, NoRes, data)
  BY <1>1, <1>3, <1>4 DEF Askable
<1>6. Goes(ask[r], p, data)
  BY <1>5, QuestionGoes
<1> QED
  BY <1>4, <1>6, ReadingKeepsCalls

LEMMA RevokeAskKeepsCalls ==
  ASSUME CallsInv, Remember, NEW r \in Requests, NEW who \in People,
         NEW doing \in {"revokeOne", "revokeAll"}, NEW about \in Subjects,
         RevokeAsk(r, who, doing, about)
  PROVE  CallsInv' /\ \E p : ask' = [ask EXCEPT ![r] = p] /\ Goes(ask[r], p, data)
<1> DEFINE b == [Idle EXCEPT !.doing = doing, !.actor = who, !.about = about]
<1>1. PICK roles \in RoleSets : ask' = [ask EXCEPT ![r] = Question(b, roles, Root, NoRes)]
  BY CarriersAreRoles DEF RevokeAsk, Becomes
<1>2. who \in Subjects /\ who \notin Tokens /\ Root \in Known
  BY AuthorizationAssumption DEF AuthorizationAssumption, Known, Subjects
<1>3. b \in Asked /\ b.actor = who /\ b.issuer = NoOne /\ b.doing = doing
  BY <1>2, IdleAsked DEF Asked, Idle
<1>4. ask[r].pc = "idle" /\ Reading
  BY DEF RevokeAsk, Starts
<1> HIDE DEF b
<1>5. Askable(ask[r], b, roles, Root, NoRes, data)
  BY <1>2, <1>3, <1>4 DEF Askable
<1>6. Goes(ask[r], Question(b, roles, Root, NoRes), data)
  BY <1>5, QuestionGoes
<1> QED
  BY <1>1, <1>4, <1>6, ReadingKeepsCalls

(* The question that was granted is one more of the role's that the issuer *)
(* holds at the place the token is for.                                    *)
LEMMA NextQuestionKeepsCalls ==
  ASSUME CallsInv, Remember, NEW r \in Requests, NextQuestion(r)
  PROVE  CallsInv' /\ \E p : ask' = [ask EXCEPT ![r] = p] /\ Goes(ask[r], p, data)
<1> DEFINE q == ask[r]
<1>1. /\ Proper(q, data) /\ q \in Asked /\ q.pc = "granted" /\ q.doing = "issue"
      /\ q.left # {} /\ Reading
  BY CallFacts DEF NextQuestion
<1>2. PICK roles \in q.left :
         ask' = [ask EXCEPT ![r] = Question([q EXCEPT !.left = @ \ {roles}], roles,
                                            q.want.node, q.want.res)]
  <2>1. (CHOOSE c \in q.left : TRUE) \in q.left
    BY <1>1
  <2> QED
    BY <2>1 DEF NextQuestion, Becomes
<1> DEFINE b == [q EXCEPT !.left = q.left \ {roles}]
<1>3. /\ b \in Asked /\ b.actor = q.actor /\ b.issuer = q.issuer /\ b.doing = q.doing
      /\ b.want = q.want /\ b.left = q.left \ {roles}
  BY <1>1 DEF Asked
<1>4. roles \in RoleSets /\ q.want \in Issues
  BY <1>1 DEF Asked, Proper
<1>5. q.want.node \in Known /\ q.want.res \in Resources \cup {NoRes}
  BY <1>4, AuthorizationAssumption DEF AuthorizationAssumption, Known
<1>6. /\ b.issuer = IF b.actor \in Tokens THEN data[5][b.actor].issuer ELSE NoOne
      /\ b.actor \in Tokens => b.issuer # NoOne
      /\ b.doing # "decide" => b.actor \in People
      /\ b.doing = "issue" => b.want \in Issues /\ b.left \subseteq Ceiling(b.want.role)
  BY <1>1, <1>3 DEF Proper
<1>7. Current(q, data) => \A c \in Ceiling(b.want.role) \ b.left :
          \/ HoldsIn(data, b.actor, c, b.want.node, b.want.res)
          \/ roles = c
  BY <1>1, <1>3 DEF Current, Covered, Answering
<1> HIDE DEF b
<1>8. Askable(q, b, roles, q.want.node, q.want.res, data)
  BY <1>1, <1>3, <1>4, <1>5, <1>6, <1>7 DEF Askable
<1>9. Goes(q, Question(b, roles, q.want.node, q.want.res), data)
  BY <1>8, QuestionGoes
<1> QED
  BY <1>1, <1>2, <1>9, ReadingKeepsCalls DEF b

LEMMA ResolveKeepsCalls ==
  ASSUME CallsInv, Remember, NEW r \in Requests, ResolveColumns(r)
  PROVE  CallsInv' /\ \E p : ask' = [ask EXCEPT ![r] = p] /\ Goes(ask[r], p, data)
<1> DEFINE q == ask[r]
<1>1. /\ Proper(q, data) /\ q \in Asked /\ q.pc = "granted" /\ q.doing = "issue"
      /\ q.left = {} /\ Reading
  BY CallFacts DEF ResolveColumns
<1>2. PICK p : /\ ask' = [ask EXCEPT ![r] = p]
               /\ \/ p = [q EXCEPT !.pc = "done", !.reason = "no-node"]
                  \/ p = [q EXCEPT !.pc = "insert"]
  BY DEF ResolveColumns, Becomes
<1>3. /\ p.roles = q.roles /\ p.node = q.node /\ p.res = q.res
      /\ p.doing = q.doing /\ p.actor = q.actor /\ p.issuer = q.issuer
      /\ p.want = q.want /\ p.left = q.left /\ p.about = q.about
      /\ \/ p.pc = "done" /\ p.reason = "no-node"
         \/ p.pc = "insert" /\ p.reason = q.reason
  BY <1>1, <1>2 DEF Asked
<1>4. p \in Asked
  <2>1. "done" \in Steps /\ "insert" \in Steps /\ "no-node" \in Reasons
    BY DEF Steps, Reasons
  <2> QED
    BY <1>1, <1>2, <2>1 DEF Asked
<1>5. Proper(p, data)
  BY <1>1, <1>3, <1>4 DEF Proper, Answering
<1>6. ASSUME NEW s, Learnt(q, s) PROVE Learnt(p, Recalled(q, p, data, s))
  <2>1. s \subseteq Recalled(q, p, data, s)
    BY <1>1, <1>3 DEF Recalled
  <2>2. Needed(p) = Needed(q)
    BY <1>3 DEF Needed
  <2> QED
    BY <1>3, <1>6, <2>1, <2>2 DEF Learnt
<1>7. Current(q, data) => Current(p, data)
  BY <1>1, <1>3 DEF Current, Covered, Answering
<1>8. Goes(q, p, data)
  BY <1>1, <1>3, <1>5, <1>6, <1>7 DEF Goes
<1> QED
  BY <1>1, <1>2, <1>8, ReadingKeepsCalls

-----------------------------------------------------------------------------
(* Steps that write rows.                                                  *)

(* A call such a step does not touch is as proper as it was, nothing it    *)
(* learnt is lost, and it is quiet no longer unless no row changed.        *)
LEMMA BystanderKept ==
  ASSUME CallsInv, Remember, NEW x \in Requests, ask'[x] = ask[x],
         \A t \in Tokens : token[t].issuer # NoOne => token'[t].issuer = token[t].issuer
  PROVE  /\ Proper(ask'[x], data') /\ Learnt(ask'[x], seen'[x])
         /\ quiet'[x] => Current(ask'[x], data')
<1>1. Proper(ask[x], data) /\ Learnt(ask[x], seen[x]) /\ (quiet[x] => Current(ask[x], data))
  BY DEF CallsInv
<1>2. Proper(ask[x], data')
  <2>1. data[5] = token /\ data'[5] = token'
    BY DEF data
  <2> QED
    BY <1>1, <2>1 DEF Proper
<1>3. Learnt(ask[x], Recalled(ask[x], ask[x], data', seen[x]))
  BY <1>1 DEF Learnt, Recalled
<1>4. seen'[x] = Recalled(ask[x], ask[x], data', seen[x])
  BY WhatIsRemembered
<1>5. CASE quiet'[x] /\ ask[x].pc \in {"idle", "done"}
  BY <1>2, <1>3, <1>4, <1>5 DEF Current, Covered
<1>6. CASE quiet'[x] /\ ask[x].pc \notin {"idle", "done"}
  <2>1. quiet[x] /\ data' = data
    BY <1>6, WhatIsRemembered
  <2> QED
    BY <1>1, <1>2, <1>3, <1>4, <2>1
<1> QED
  BY <1>2, <1>3, <1>4, <1>5, <1>6

(* The call that wrote is over, and it was a person's.                     *)
LEMMA WriterKept ==
  ASSUME CallsInv, Remember, NEW r \in Requests, ask[r].pc \notin {"idle", "done"},
         ask[r].doing # "decide", NEW reason \in Reasons \ {"none", "granted"},
         NEW about \in Subjects \cup {NoOne},
         ask'[r] = [ask[r] EXCEPT !.pc = "done", !.reason = reason, !.about = about]
  PROVE  /\ Proper(ask'[r], data') /\ Learnt(ask'[r], seen'[r])
         /\ quiet'[r] => Current(ask'[r], data')
<1> DEFINE q == ask[r]
<1>1. Proper(q, data) /\ q \in Asked /\ q.actor \in People /\ q.actor \notin Tokens
  BY CallFacts, AuthorizationAssumption DEF Proper, AuthorizationAssumption
<1>2. PICK p : p = [q EXCEPT !.pc = "done", !.reason = reason, !.about = about]
  OBVIOUS
<1>3. /\ p.doing = q.doing /\ p.actor = q.actor /\ p.issuer = q.issuer
      /\ p.want = q.want /\ p.left = q.left /\ p.pc = "done" /\ p.reason = reason
  BY <1>1, <1>2 DEF Asked
<1>4. p \in Asked
  <2>1. "done" \in Steps
    BY DEF Steps
  <2> QED
    BY <1>1, <1>2, <2>1 DEF Asked
<1>5. Proper(p, data')
  BY <1>1, <1>3, <1>4 DEF Proper, Answering
<1>6. Learnt(p, seen'[r]) /\ Current(p, data')
  BY <1>3 DEF Learnt, Current, Covered
<1> QED
  BY <1>2, <1>5, <1>6

(* One transaction, that may be refused: the token and its grant.          *)
LEMMA InsertKeepsCalls ==
  ASSUME CallsInv, Remember, NEW r \in Requests, NEW t \in Tokens, InsertToken(r, t)
  PROVE  CallsInv'
<1> DEFINE q == ask[r]
           g == TokenGrant(t, q.want)
<1>1. /\ Proper(q, data) /\ q \in Asked /\ q.pc = "insert" /\ q.doing = "issue"
      /\ q.want \in Issues /\ q.actor \in People /\ token[t].issuer = NoOne
  BY CallFacts DEF InsertToken, Proper
<1>2. g \in Grant
  <2>1. /\ q.want.role \in DOMAIN DEFAULT_ROLES
        /\ q.want.node \in Nodes \cup {Root} /\ q.want.res \in Resources \cup {NoRes}
        /\ Never \in 0..Never
    BY <1>1, AuthorizationAssumption DEF AuthorizationAssumption, Never
  <2>2. (IF q.want.res = NoRes THEN q.want.node ELSE q.want.res) \in Places
    BY <2>1 DEF Places
  <2> QED
    BY <2>1, <2>2 DEF TokenGrant, Grant, Subjects
<1>3. PICK reason \in {"issued", "refused"}, about \in Subjects \cup {NoOne} :
         ask' = [ask EXCEPT ![r] = [q EXCEPT !.pc = "done", !.reason = reason, !.about = about]]
  <2>1. [q EXCEPT !.pc = "done", !.reason = "refused"]
        = [q EXCEPT !.pc = "done", !.reason = "refused", !.about = q.about]
    BY <1>1 DEF Asked
  <2>2. q.about \in Subjects \cup {NoOne} /\ t \in Subjects \cup {NoOne}
    BY <1>1 DEF Asked, Subjects
  <2> QED
    BY <2>1, <2>2 DEF InsertToken, Becomes
<1>4. Tables'
  <2>1. /\ grants' \in {grants, grants \cup {g}} /\ leaving' = leaving
        /\ standing' = standing /\ now' = now /\ changes' = changes /\ raced' = raced
    BY DEF InsertToken
  <2>2. token' \in [Tokens -> Row]
    <3>1. q.want.expires \in 0..Never
      BY <1>1, AuthorizationAssumption DEF AuthorizationAssumption
    <3>2. [issuer |-> q.actor, revoked |-> FALSE, expires |-> q.want.expires] \in Row
      BY <1>1, <3>1 DEF Row
    <3>3. token \in [Tokens -> Row]
      BY DEF CallsInv, Tables
    <3> QED
      BY <3>2, <3>3 DEF InsertToken
  <2> QED
    BY <1>2, <2>1, <2>2 DEF CallsInv, Tables
<1>5. Hanging'
  BY TreeKept DEF InsertToken, CallsInv
<1>6. \A x \in Tokens : token[x].issuer # NoOne => token'[x].issuer = token[x].issuer
  BY <1>1 DEF InsertToken, CallsInv, Tables
<1>7. DOMAIN ask' = Requests /\ \A x \in Requests \ {r} : ask'[x] = ask[x]
  BY <1>3 DEF CallsInv
<1>8. ask'[r] = [q EXCEPT !.pc = "done", !.reason = reason, !.about = about]
  BY <1>3 DEF CallsInv
<1>9. reason \in Reasons \ {"none", "granted"}
  BY DEF Reasons
<1>10. /\ Proper(ask'[r], data') /\ Learnt(ask'[r], seen'[r])
       /\ quiet'[r] => Current(ask'[r], data')
  BY <1>1, <1>8, <1>9, WriterKept
<1>11. \A x \in Requests \ {r} : /\ Proper(ask'[x], data') /\ Learnt(ask'[x], seen'[x])
                                 /\ quiet'[x] => Current(ask'[x], data')
  BY <1>6, <1>7, BystanderKept
<1> QED
  BY <1>4, <1>5, <1>7, <1>10, <1>11 DEF CallsInv

LEMMA RevokeKeepsCalls ==
  ASSUME CallsInv, Remember, NEW r \in Requests, Revoke(r)
  PROVE  CallsInv'
<1> DEFINE q == ask[r]
<1>1. /\ Proper(q, data) /\ q \in Asked /\ q.pc = "granted" /\ q.doing # "decide"
  BY CallFacts DEF Revoke
<1>2. ask' = [ask EXCEPT ![r] = [q EXCEPT !.pc = "done", !.reason = "revoked", !.about = q.about]]
  <2>1. [q EXCEPT !.pc = "done", !.reason = "revoked"]
        = [q EXCEPT !.pc = "done", !.reason = "revoked", !.about = q.about]
    BY <1>1 DEF Asked
  <2> QED
    BY <2>1 DEF Revoke, Becomes
<1>3. PICK hit : token' = [t \in Tokens |-> [token[t] EXCEPT !.revoked = @ \/ t \in hit]]
  BY DEF Revoke
<1>4. token \in [Tokens -> Row]
  BY DEF CallsInv, Tables
<1>5. ASSUME NEW t \in Tokens
      PROVE  token'[t] \in Row /\ token'[t].issuer = token[t].issuer
  <2>1. token[t] \in Row /\ token'[t] = [token[t] EXCEPT !.revoked = @ \/ t \in hit]
    BY <1>3, <1>4
  <2>2. (token[t].revoked \/ t \in hit) \in BOOLEAN
    OBVIOUS
  <2> QED
    BY <2>1, <2>2 DEF Row
<1>6. Tables'
  <2>1. token' \in [Tokens -> Row]
    BY <1>3, <1>5
  <2> QED
    BY <2>1 DEF Revoke, CallsInv, Tables
<1>7. Hanging'
  BY TreeKept DEF Revoke, CallsInv
<1>8. DOMAIN ask' = Requests /\ \A x \in Requests \ {r} : ask'[x] = ask[x]
  BY <1>2 DEF CallsInv
<1>9. ask'[r] = [q EXCEPT !.pc = "done", !.reason = "revoked", !.about = q.about]
  BY <1>2 DEF CallsInv
<1>10. "revoked" \in Reasons \ {"none", "granted"} /\ q.about \in Subjects \cup {NoOne}
  BY <1>1 DEF Reasons, Asked
<1>11. /\ Proper(ask'[r], data') /\ Learnt(ask'[r], seen'[r])
       /\ quiet'[r] => Current(ask'[r], data')
  BY <1>1, <1>9, <1>10, WriterKept
<1>12. \A x \in Requests \ {r} : /\ Proper(ask'[x], data') /\ Learnt(ask'[x], seen'[x])
                                 /\ quiet'[x] => Current(ask'[x], data')
  BY <1>5, <1>8, BystanderKept
<1> QED
  BY <1>6, <1>7, <1>8, <1>11, <1>12 DEF CallsInv

(* What is written by hand touches no call.                                *)
LEMMA HandKeepsCalls ==
  ASSUME CallsInv, Remember, Hand
  PROVE  CallsInv'
<1>1. SUFFICES Hanging' /\ Tables' /\ ask' = ask /\ token' = token
  BY BystanderKept DEF CallsInv
<1> USE DEF CallsInv
<1>2. ASSUME NEW g \in Menu, AddGrant(g) PROVE Hanging' /\ Tables' /\ ask' = ask /\ token' = token
  <2>1. g \in Grant /\ MaxChanges \in Nat
    BY AuthorizationAssumption DEF AuthorizationAssumption
  <2> QED
    BY <1>2, <2>1, TreeKept DEF AddGrant, ByHand, Tables
<1>3. ASSUME NEW g \in grants, RemoveGrant(g) PROVE Hanging' /\ Tables' /\ ask' = ask /\ token' = token
  <2>1. MaxChanges \in Nat
    BY AuthorizationAssumption DEF AuthorizationAssumption
  <2>2. raced' \in BOOLEAN
    BY <1>3 DEF RemoveGrant, Tables
  <2> QED
    BY <1>3, <2>1, <2>2, TreeKept DEF RemoveGrant, ByHand, Tables, data
<1>4. ASSUME NEW g \in grants, CommitRemoval(g) PROVE Hanging' /\ Tables' /\ ask' = ask /\ token' = token
  BY <1>4, TreeKept DEF CommitRemoval, Tables
<1>5. ASSUME NEW s \in People \cup Services, NEW to \in {"enabled", "disabled", "absent"},
             SetStanding(s, to)
      PROVE  Hanging' /\ Tables' /\ ask' = ask /\ token' = token
  <2>1. MaxChanges \in Nat
    BY AuthorizationAssumption DEF AuthorizationAssumption
  <2> QED
    BY <1>5, <2>1, TreeKept DEF SetStanding, ByHand, Tables
<1>6. ASSUME NEW n \in Nodes, DeleteNode(n) PROVE Hanging' /\ Tables' /\ ask' = ask /\ token' = token
  <2>1. MaxChanges \in Nat
    BY AuthorizationAssumption DEF AuthorizationAssumption
  <2>2. Hanging'
    BY <1>6, CascadeKeepsTree
  <2> QED
    BY <1>6, <2>1, <2>2 DEF DeleteNode, ByHand, Tables
<1>7. ASSUME NEW n \in Nodes, NEW p \in Nodes \cup {Root}, MoveLeaf(n, p)
      PROVE  Hanging' /\ Tables' /\ ask' = ask /\ token' = token
  <2>1. MaxChanges \in Nat
    BY AuthorizationAssumption DEF AuthorizationAssumption
  <2>2. Hanging'
    BY <1>7, MoveKeepsTree
  <2> QED
    BY <1>7, <2>1, <2>2 DEF MoveLeaf, Move, ByHand, Tables
<1>8. ASSUME Tick PROVE Hanging' /\ Tables' /\ ask' = ask /\ token' = token
  <2>1. MaxNow \in Nat
    BY AuthorizationAssumption DEF AuthorizationAssumption
  <2> QED
    BY <1>8, <2>1, TreeKept DEF Tick, Tables
<1> QED
  BY <1>2, <1>3, <1>4, <1>5, <1>6, <1>7, <1>8 DEF Hand

-----------------------------------------------------------------------------
(* A step of a call as a whole: the invariant, and what becomes of it.     *)
LEMMA CallKeepsCalls ==
  ASSUME CallsInv, Remember, NEW r \in Requests, Call(r)
  PROVE  /\ CallsInv'
         /\ \/ /\ data' = data
               /\ \E p : ask' = [ask EXCEPT ![r] = p] /\ Goes(ask[r], p, data)
            \/ /\ ask[r].doing # "decide" /\ \A x \in Requests \ {r} : ask'[x] = ask[x]
               /\ ask'[r].reason = "issued" => ask[r].pc = "insert"
<1> DEFINE Done == /\ data' = data
                   /\ \E p : ask' = [ask EXCEPT ![r] = p] /\ Goes(ask[r], p, data)
<1>1. CASE \E a \in Asks : CanAsk(r, a.who, a.name, a.node, a.res)
  <2>1. data' = data
    BY <1>1 DEF CanAsk, Reading
  <2> QED
    BY <1>1, <2>1, CanAskKeepsCalls
<1>2. CASE ReadStatus(r)
  BY <1>2, ReadStatusKeepsCalls DEF ReadStatus, Reading
<1>3. CASE ReadScope(r)
  BY <1>3, ReadScopeKeepsCalls DEF ReadScope, Reading
<1>4. CASE ReadGrants(r)
  BY <1>4, ReadGrantsKeepsCalls DEF ReadGrants, Reading
<1>5. CASE ReadExplanation(r)
  BY <1>5, ReadExplanationKeepsCalls DEF ReadExplanation, Reading
<1>6. CASE ReadIssuer(r)
  BY <1>6, ReadIssuerKeepsCalls DEF ReadIssuer, Reading
<1>7. CASE ReadCeiling(r)
  BY <1>7, ReadCeilingKeepsCalls DEF ReadCeiling, Reading
<1>8. CASE \E p \in People, w \in Issues : IssueApiToken(r, p, w)
  <2>1. data' = data
    BY <1>8 DEF IssueApiToken, Reading
  <2> QED
    BY <1>8, <2>1, IssueKeepsCalls
<1>9. CASE NextQuestion(r)
  BY <1>9, NextQuestionKeepsCalls DEF NextQuestion, Reading
<1>10. CASE ResolveColumns(r)
  BY <1>10, ResolveKeepsCalls DEF ResolveColumns, Reading
<1>11. ASSUME NEW t \in Tokens, InsertToken(r, t)
       PROVE  /\ CallsInv'
              /\ ask[r].doing # "decide" /\ ask[r].pc = "insert"
              /\ \A x \in Requests \ {r} : ask'[x] = ask[x]
  <2>1. ask[r].pc = "insert" /\ \E p : ask' = [ask EXCEPT ![r] = p]
    BY <1>11 DEF InsertToken, Becomes
  <2> QED
    BY <1>11, <2>1, InsertKeepsCalls, CallFacts DEF Proper
<1>12. CASE \E p \in People, t \in Tokens : RevokeAsk(r, p, "revokeOne", t)
  <2>1. data' = data
    BY <1>12 DEF RevokeAsk, Reading
  <2>2. Tokens \subseteq Subjects
    BY DEF Subjects
  <2> QED
    BY <1>12, <2>1, <2>2, RevokeAskKeepsCalls
<1>13. CASE \E p, q \in People : RevokeAsk(r, p, "revokeAll", q)
  <2>1. data' = data
    BY <1>13 DEF RevokeAsk, Reading
  <2>2. People \subseteq Subjects
    BY DEF Subjects
  <2> QED
    BY <1>13, <2>1, <2>2, RevokeAskKeepsCalls
<1>14. ASSUME Revoke(r)
       PROVE  /\ CallsInv'
              /\ ask[r].doing # "decide" /\ ask'[r].reason # "issued"
              /\ \A x \in Requests \ {r} : ask'[x] = ask[x]
  <2>1. /\ ask[r].doing \in {"revokeOne", "revokeAll"}
        /\ ask' = [ask EXCEPT ![r] = [ask[r] EXCEPT !.pc = "done", !.reason = "revoked"]]
    BY <1>14 DEF Revoke, Becomes
  <2>2. ask[r] \in Asked /\ DOMAIN ask = Requests
    BY CallFacts
  <2>3. ask'[r].reason = "revoked"
    BY <2>1, <2>2 DEF Asked
  <2> QED
    BY <1>14, <2>1, <2>3, RevokeKeepsCalls
<1> QED
  BY <1>1, <1>2, <1>3, <1>4, <1>5, <1>6, <1>7, <1>8, <1>9, <1>10, <1>11, <1>12, <1>13, <1>14
     DEF Call

LEMMA OnlyTheCallerMoves ==
  ASSUME CallsInv, Remember, NEW r \in Requests, Call(r), NEW x \in Requests, ask'[x] # ask[x]
  PROVE  x = r
<1>1. ASSUME NEW p, ask' = [ask EXCEPT ![r] = p], x # r PROVE FALSE
  BY <1>1, CallFacts
<1> QED
  BY <1>1, CallKeepsCalls

LEMMA InitCalls == Init => CallsInv
<1> SUFFICES ASSUME Init PROVE CallsInv
  OBVIOUS
<1>1. Hanging
  BY FirstTree
<1>2. Tables
  <2> DEFINE row == [subject |-> Founder, role |-> "owner", effect |-> "allow",
                     at |-> Root, expires |-> Never]
  <2>1. "owner" \in DOMAIN DEFAULT_ROLES
    BY DEF DEFAULT_ROLES
  <2>2. Never \in 0..Never /\ 0 \in 0..Never /\ 0 \in 0..MaxNow /\ 0 \in 0..MaxChanges
    BY AuthorizationAssumption DEF AuthorizationAssumption, Never
  <2>3. row \in Grant
    BY <2>1, <2>2, AuthorizationAssumption DEF AuthorizationAssumption, Grant, Subjects, Places
  <2>4. grants \subseteq Grant
    BY <2>3, AuthorizationAssumption DEF AuthorizationAssumption, Init
  <2>5. token \in [Tokens -> Row]
    BY <2>2 DEF Init, Row
  <2> QED
    BY <2>2, <2>4, <2>5 DEF Init, Tables
<1>3. ASSUME NEW r \in Requests
      PROVE  Proper(ask[r], data) /\ Learnt(ask[r], seen[r]) /\ Current(ask[r], data)
  <2>1. ask[r] = Idle
    BY DEF Init
  <2>2. Proper(Idle, data)
    BY IdleAsked, AuthorizationAssumption DEF AuthorizationAssumption, Proper, Idle, Answering
  <2>3. Learnt(Idle, seen[r]) /\ Current(Idle, data)
    BY DEF Learnt, Current, Covered, Idle
  <2> QED
    BY <2>1, <2>2, <2>3
<1> QED
  BY <1>1, <1>2, <1>3 DEF CallsInv, Init

LEMMA NextCalls == CallsInv /\ [Next]_vars => CallsInv'
<1> SUFFICES ASSUME CallsInv, [Next]_vars PROVE CallsInv'
  OBVIOUS
<1>1. CASE Next /\ \E r \in Requests : Call(r)
  BY <1>1, CallKeepsCalls DEF Next
<1>2. CASE Next /\ Hand
  BY <1>2, HandKeepsCalls DEF Next
<1>3. CASE UNCHANGED vars
  <2>1. /\ data' = data /\ leaving' = leaving /\ changes' = changes /\ raced' = raced
        /\ ask' = ask /\ seen' = seen /\ quiet' = quiet
    BY <1>3 DEF vars
  <2>2. Hanging' /\ Tables'
    BY <2>1, TreeKept DEF CallsInv, Tables, data
  <2> QED
    BY <2>1, <2>2 DEF CallsInv
<1> QED
  BY <1>1, <1>2, <1>3 DEF Next

LEMMA CallsAlways == Spec => []CallsInv
BY InitCalls, NextCalls, PTL DEF Spec

-----------------------------------------------------------------------------
(* Every variable has its type, the stored paths among them.               *)
THEOREM RowsAndCallsTyped == Spec => []TypeOK
<1>1. CallsInv => TypeOK
  <2> SUFFICES ASSUME CallsInv PROVE TypeOK
    OBVIOUS
  <2>1. \A n \in Nodes : Exists(n) => PathOf(n) \in Seq(Nodes \cup {Root})
    BY PathIsSequence DEF CallsInv, Known
  <2>2. parent \in [Nodes -> Nodes \cup {Root, "gone"}]
    BY DEF CallsInv, Hanging, Known
  <2> QED
    BY <2>1, <2>2 DEF CallsInv, Tables, TypeOK
<1> QED
  BY <1>1, CallsAlways, PTL

(* The stored path of migration 3's trigger is the ancestry of the parent  *)
(* pointers, as long as what moves is a leaf; with the other moves the     *)
(* schema allows it is refuted.                                            *)
THEOREM PathsStayTrue == Spec => []PathIsAncestry
<1>1. CallsInv => PathIsAncestry
  BY PathsTellAncestry DEF CallsInv
<1> QED
  BY <1>1, CallsAlways, PTL

(* Whatever changes under a call of can(), a yes is never stale in any of  *)
(* its parts: actor, scope, allow with no deny, and the same of the person *)
(* behind a token, each true at some moment since the question.            *)
THEOREM YesWasTrueInEveryPart == Spec => []GrantedIsCurrent
<1>1. CallsInv => GrantedIsCurrent
  BY DEF CallsInv, Learnt, GrantedIsCurrent
<1> QED
  BY <1>1, CallsAlways, PTL

(* When nothing changes under the call, can() answers what the rules give  *)
(* at once, and for the reason they give.                                  *)
THEOREM QuietCallsAnswerTheRules == Spec => QuietAnswerIsRight
<1> DEFINE Right == \A r \in Requests :
          ask[r].pc # "done" /\ ask'[r].pc = "done" /\ ask[r].doing = "decide" /\ quiet'[r]
          => ask'[r].reason = AtOnce(r)'
<1>1. CallsInv /\ [Next]_vars => [Right]_vars
  <2> SUFFICES ASSUME CallsInv, Next, NEW r \in Requests,
                      ask[r].pc # "done", ask'[r].pc = "done", ask[r].doing = "decide", quiet'[r]
               PROVE  ask'[r].reason = AtOnce(r)'
    OBVIOUS
  <2>1. Remember /\ ask' # ask
    BY DEF Next
  <2>2. PICK x \in Requests : Call(x)
    BY <2>1 DEF Next, Hand, AddGrant, RemoveGrant, CommitRemoval, SetStanding, DeleteNode,
                MoveLeaf, Move, Tick, ByHand
  <2>3. x = r
    <3>1. ask'[r] # ask[r]
      OBVIOUS
    <3> QED
      BY <2>1, <2>2, <3>1, OnlyTheCallerMoves
  <2>4. PICK p : data' = data /\ ask' = [ask EXCEPT ![r] = p] /\ Goes(ask[r], p, data)
    BY <2>1, <2>2, <2>3, CallKeepsCalls
  <2>5. ask'[r] = p
    BY <2>4, CallFacts
  <2>6. Current(ask[r], data)
    BY <2>1, WhatIsRemembered DEF CallsInv
  <2>7. ask'[r].reason = AtOnceIn(ask'[r], data')
    BY <2>4, <2>5, <2>6 DEF Goes
  <2>8. AtOnce(r)' = AtOnceIn(ask'[r], data')
    BY DEF AtOnce, AtOnceIn, HoldsIn, Holds, RowsIn, Rows, ReachingIn, Reaching, AboveIn,
           Above, ThereIn, Exists, MayActIn, MayAct, data
  <2> QED
    BY <2>7, <2>8
<1> QED
  BY <1>1, CallsAlways, PTL DEF Spec, QuietAnswerIsRight

(* issueApiToken: a token is born with nothing its issuer lacks, if        *)
(* nothing changed while the role's actions were being asked about.        *)
THEOREM TokensStayWithinTheirIssuer == Spec => TokenWithinIssuer
<1> DEFINE Within == \A r \in Requests :
          ask'[r].reason = "issued" /\ ask[r].reason # "issued" /\ quiet[r]
          => LET w == ask[r].want
             IN  /\ MayAct(ask[r].actor)
                 /\ \A a \in DEFAULT_ROLES[w.role] :
                       Holds(ask[r].actor, rolesCarrying(a), w.node, w.res)
<1>1. CallsInv /\ [Next]_vars => [Within]_vars
  <2> SUFFICES ASSUME CallsInv, Next, NEW r \in Requests,
                      ask'[r].reason = "issued", ask[r].reason # "issued", quiet[r]
               PROVE  /\ MayAct(ask[r].actor)
                      /\ \A a \in DEFAULT_ROLES[ask[r].want.role] :
                            Holds(ask[r].actor, rolesCarrying(a), ask[r].want.node, ask[r].want.res)
    OBVIOUS
  <2>1. Remember /\ ask' # ask
    BY DEF Next
  <2>2. PICK x \in Requests : Call(x)
    BY <2>1 DEF Next, Hand, AddGrant, RemoveGrant, CommitRemoval, SetStanding, DeleteNode,
                MoveLeaf, Move, Tick, ByHand
  <2>3. x = r
    <3>1. ask'[r] # ask[r]
      OBVIOUS
    <3> QED
      BY <2>1, <2>2, <3>1, OnlyTheCallerMoves
  <2>4. ask[r].pc = "insert"
    <3>1. ASSUME NEW p, ask' = [ask EXCEPT ![r] = p], Goes(ask[r], p, data)
          PROVE  FALSE
      <4>1. ask'[r] = p
        BY <3>1, CallFacts
      <4> QED
        BY <3>1, <4>1 DEF Goes
    <3> QED
      BY <2>1, <2>2, <2>3, <3>1, CallKeepsCalls
  <2>5. Proper(ask[r], data) /\ Current(ask[r], data)
    BY DEF CallsInv
  <2>6. /\ MayActIn(data, ask[r].actor)
        /\ \A c \in Ceiling(ask[r].want.role) :
              HoldsIn(data, ask[r].actor, c, ask[r].want.node, ask[r].want.res)
    BY <2>4, <2>5 DEF Proper, Current, Covered, Answering
  <2>7. MayAct(ask[r].actor)
    BY <2>6 DEF MayAct, MayActIn, data
  <2>8. \A a \in DEFAULT_ROLES[ask[r].want.role] : rolesCarrying(a) \in Ceiling(ask[r].want.role)
    BY DEF Ceiling
  <2> QED
    BY <2>6, <2>7, <2>8, HoldsNow
<1> QED
  BY <1>1, CallsAlways, PTL DEF Spec, TokenWithinIssuer
=============================================================================
