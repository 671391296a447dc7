--------------------------- MODULE DeliveryProofs ---------------------------
(***************************************************************************)
(* Proofs about NonceStore.tla and Delivery.tla.                           *)
(*                                                                         *)
(* Of the store, for any envelopes, limit, rewrite interval and number of  *)
(* verifications, through restarts, failing syncs and failing rewrites --  *)
(* as long as no append is torn: an accepted nonce is known while its      *)
(* envelope lives.  The argument: Prune(Known), the live part of what the  *)
(* next Remember works with, never loses an envelope that was accepted,    *)
(* because it is always contained both in the map and in the file's lines. *)
(*                                                                         *)
(* Of the delivery, for any orders, keys, clocks and faults: only what the *)
(* control plane signed for this host is performed, and what the host does *)
(* with its messages is a behaviour of NonceStore.tla, so that what is     *)
(* proved of the store holds of the whole delivery.  The argument: every   *)
(* signature on the wire is one the control plane made, over the bytes of  *)
(* what it then said.  A verified signature is over the bytes of what the  *)
(* message says, and two instructions of the same bytes are the same.      *)
(***************************************************************************)
EXTENDS Delivery, FiniteSetTheorems, TLAPS

NoTornWrites == "tornWrite" \notin Faults

NeverTorn == ~file.torn /\ file.tail = {}

Admitted(e) == Authentic(e) /\ e.expires - e.issued <= MaxValidity

AdmittedInFlight == \A v \in Verifiers : ~Idle(v) => Admitted(verifier[v])

IInv ==
    /\ TypeOK
    /\ NeverTorn
    /\ MapIsInTheFile
    /\ LiveNonceIsKnown
    /\ AdmittedInFlight
    /\ StoreHoldsAdmitted

USE NonceStoreAssumption

-----------------------------------------------------------------------------
(* The helpers *)

LEMMA KnownType == TypeOK => Known \subseteq Envelopes /\ Roomy \subseteq Envelopes
  BY DEF TypeOK, Known, Roomy, Prune, Parsed, File

LEMMA CardinalityType == ASSUME NEW S \in SUBSET Envelopes PROVE Cardinality(S) \in Nat
  BY FS_Subset, FS_CardinalityType

LEMMA AppendedType ==
    ASSUME TypeOK, NEW e \in Envelopes
    PROVE  Appended(e) \in File
  BY DEF TypeOK, File, Appended

LEMMA RewrittenType ==
    ASSUME NEW S \in SUBSET Envelopes
    PROVE  Rewritten(S) \in File
  BY CardinalityType DEF File, Rewritten

(* What the map may drop is dead.                                           *)
LEMMA RoomyKeepsLive == Prune(Roomy) = Prune(Known)
  BY DEF Roomy, Prune

(* The live part of what a Remember works with is in the file.              *)
LEMMA LiveInFile == ASSUME IInv PROVE Prune(Known) \subseteq file.records
  BY DEF IInv, MapIsInTheFile, NeverTorn, Known, Prune, Parsed

LEMMA KnownAdmitted == ASSUME IInv PROVE \A e \in Known \cup Roomy : Admitted(e)
  BY DEF IInv, StoreHoldsAdmitted, Admitted, Known, Roomy, Prune

LEMMA NotTorn == ASSUME NoTornWrites, NEW e PROVE Torn(e) = {}
  BY DEF NoTornWrites, Torn

-----------------------------------------------------------------------------
(* The steps *)

LEMMA DoneType ==
    ASSUME TypeOK, NEW v \in Verifiers, Done(v)
    PROVE  /\ verifier' \in [Verifiers -> Envelopes \cup {NoEnvelope}]
           /\ \A w \in Verifiers : ~Idle(w)' => ~Idle(w) /\ verifier'[w] = verifier[w]
  BY DEF TypeOK, Done, Idle

(* What every Remember keeps to: the live part of the map stays, what is    *)
(* live in it is in the file, and only its own nonce is new.                *)
LEMMA RememberKeepsIInv ==
    ASSUME IInv, NEW v \in Verifiers, ~Idle(v), Done(v), UNCHANGED now,
           loaded', appends' \in Nat, accepted' \in [Envelopes -> Nat],
           seen' \subseteq Known \cup {verifier[v]},
           Prune(Known) \subseteq seen',
           file' \in File, ~file'.torn, file'.tail = {},
           file'.records \subseteq file.records \cup seen' \cup {verifier[v]},
           Prune(seen') \subseteq file'.records,
           \A e \in Envelopes :
              accepted'[e] > 0 /\ e.expires > now =>
                accepted[e] > 0 \/ (e = verifier[v] /\ e \in seen')
    PROVE  IInv'
<1> DEFINE e == verifier[v]
<1>1. e \in Envelopes /\ Admitted(e)
  BY DEF IInv, TypeOK, Idle, AdmittedInFlight
<1>2. TypeOK'
  BY <1>1, KnownType, DoneType DEF IInv, TypeOK
<1>3. NeverTorn'
  BY DEF NeverTorn
<1>4. MapIsInTheFile'
  BY DEF MapIsInTheFile, Prune, Parsed
<1>5. LiveNonceIsKnown'
  BY <1>1, KnownType DEF IInv, TypeOK, LiveNonceIsKnown, Prune, Known
<1>6. AdmittedInFlight'
  BY DoneType DEF IInv, AdmittedInFlight, Admitted, Authentic
<1>7. StoreHoldsAdmitted'
  BY <1>1, KnownAdmitted DEF IInv, NeverTorn, StoreHoldsAdmitted, Admitted, Authentic, Parsed
<1> QED BY <1>2, <1>3, <1>4, <1>5, <1>6, <1>7 DEF IInv

LEMMA InitIInv == Init => IInv
<1> SUFFICES ASSUME Init PROVE IInv
  OBVIOUS
<1>1. TypeOK
  BY DEF Init, TypeOK, File
<1> QED BY <1>1 DEF Init, IInv, NeverTorn, MapIsInTheFile, LiveNonceIsKnown, Prune, Parsed,
                    AdmittedInFlight, Idle, StoreHoldsAdmitted

LEMMA AdmitKeepsIInv ==
    ASSUME IInv, NEW v \in Verifiers, NEW e \in Envelopes, Admit(v, e)
    PROVE  IInv'
<1>1. TypeOK'
  BY DEF Admit, IInv, TypeOK
<1>2. AdmittedInFlight'
  <2> SUFFICES ASSUME NEW w \in Verifiers, ~Idle(w)' PROVE Admitted(verifier'[w])
    BY DEF AdmittedInFlight, Admitted, Authentic
  <2>1. CASE w = v
    BY <2>1 DEF Admit, Fresh, Admitted, IInv, TypeOK
  <2>2. CASE w # v
    BY <2>2 DEF Admit, IInv, TypeOK, AdmittedInFlight, Idle
  <2> QED BY <2>1, <2>2
<1> QED BY <1>1, <1>2 DEF Admit, IInv, NeverTorn, MapIsInTheFile, LiveNonceIsKnown, Known,
                          Prune, Parsed, StoreHoldsAdmitted, Authentic

LEMMA ReplayedKeepsIInv ==
    ASSUME IInv, NEW v \in Verifiers, RememberReplayed(v)
    PROVE  IInv'
<1>1. Prune(Known) \subseteq file.records /\ Prune(Known) \subseteq Known
  BY LiveInFile DEF Prune
<1> QED BY <1>1, RememberKeepsIInv DEF RememberReplayed, IInv, TypeOK, NeverTorn

LEMMA FullKeepsIInv ==
    ASSUME IInv, NEW v \in Verifiers, RememberFull(v)
    PROVE  IInv'
<1>1. Prune(Roomy) \subseteq file.records /\ Prune(Known) \subseteq Roomy /\ Roomy \subseteq Known
  BY LiveInFile DEF Prune, Roomy
<1> QED BY <1>1, RememberKeepsIInv DEF RememberFull, IInv, TypeOK, NeverTorn

LEMMA AppendFailsKeepsIInv ==
    ASSUME NoTornWrites, IInv, NEW v \in Verifiers, AppendFails(v)
    PROVE  IInv'
<1>1. Prune(Roomy) \subseteq file.records /\ Prune(Known) \subseteq Roomy /\ Roomy \subseteq Known
  BY LiveInFile DEF Prune, Roomy
<1>2. verifier[v] \in Envelopes
  BY DEF AppendFails, IInv, TypeOK, Idle
<1>3. file' \in {file, Appended(verifier[v])}
  BY NotTorn DEF AppendFails, Leftovers
<1>4. /\ file' \in File /\ ~file'.torn /\ file'.tail = {}
      /\ file.records \subseteq file'.records
      /\ file'.records \subseteq file.records \cup {verifier[v]}
  BY <1>2, <1>3, AppendedType DEF IInv, TypeOK, NeverTorn, Appended
<1> QED BY <1>1, <1>4, RememberKeepsIInv DEF AppendFails, IInv, TypeOK

LEMMA RecordedKeepsIInv ==
    ASSUME IInv, NEW v \in Verifiers, Remember(v)
    PROVE  IInv'
<1> DEFINE e == verifier[v]
           S == Roomy \cup {e}
<1>1. Prune(Roomy) \subseteq file.records /\ Prune(Known) \subseteq Roomy /\ Roomy \subseteq Known
  BY LiveInFile DEF Prune, Roomy
<1>2. e \in Envelopes /\ S \in SUBSET Envelopes /\ Prune(S) \in SUBSET Envelopes
  BY KnownType DEF Remember, IInv, TypeOK, Idle, Prune
<1>3. Prune(S) = Prune(Prune(S)) /\ Prune(S) \subseteq S /\ Prune(Known) \subseteq Prune(S)
      /\ Prune(S) \subseteq file.records \cup {e}
  BY <1>1 DEF Prune
<1>4. /\ Appended(e) \in File /\ ~Appended(e).torn /\ Appended(e).tail = {}
      /\ Appended(e).records = file.records \cup {e}
  BY <1>2, AppendedType DEF IInv, NeverTorn, Appended
<1>5. /\ Rewritten(Prune(S)) \in File /\ ~Rewritten(Prune(S)).torn
      /\ Rewritten(Prune(S)).tail = {} /\ Rewritten(Prune(S)).records = Prune(S)
  BY <1>2, RewrittenType DEF Rewritten
<1>6. appends' \in Nat
  BY DEF Remember, IInv, TypeOK
<1>7. accepted' \in [Envelopes -> Nat] /\ \A x \in Envelopes : x # e => accepted'[x] = accepted[x]
  BY <1>2 DEF Remember, IInv, TypeOK
<1>8. CASE seen' = S /\ file' = Appended(e)
  BY <1>8, <1>1, <1>3, <1>4, <1>6, <1>7, RememberKeepsIInv DEF Remember
<1>9. CASE seen' = Prune(S) /\ file' \in {Rewritten(Prune(S)), Appended(e)}
  <2>1. e.expires > now => e \in seen'
    BY <1>9 DEF Prune
  <2>2. /\ file' \in File /\ ~file'.torn /\ file'.tail = {}
        /\ Prune(S) \subseteq file'.records
        /\ file'.records \subseteq file.records \cup Prune(S) \cup {e}
    BY <1>9, <1>3, <1>4, <1>5
  <2>3. \A x \in Envelopes : accepted'[x] > 0 /\ x.expires > now => accepted[x] > 0 \/ (x = e /\ x \in seen')
    BY <2>1, <1>7
  <2> QED BY <1>9, <1>1, <1>3, <1>6, <1>7, <2>2, <2>3, RememberKeepsIInv DEF Remember
<1> QED BY <1>8, <1>9 DEF Remember

(* A restart in the middle of a Remember finds its record whole, or not at  *)
(* all, or finds the rewritten file.                                        *)
LEMMA RestartKeepsIInv ==
    ASSUME NoTornWrites, IInv, Restart
    PROVE  IInv'
<1>1. /\ file' \in File /\ ~file'.torn /\ file'.tail = {}
      /\ Prune(Known) \subseteq file'.records
      /\ \A x \in file'.records : Admitted(x)
  <2>1. CASE UNCHANGED file
    BY <2>1, LiveInFile DEF IInv, TypeOK, NeverTorn, StoreHoldsAdmitted, Admitted, Parsed
  <2>2. ASSUME NEW v \in Verifiers, ~Idle(v), file' \in Interrupted(verifier[v])
        PROVE  /\ file' \in File /\ ~file'.torn /\ file'.tail = {}
               /\ Prune(Known) \subseteq file'.records
               /\ \A x \in file'.records : Admitted(x)
    <3> DEFINE e == verifier[v]
               S == Prune(Roomy \cup {e})
    <3>1. e \in Envelopes /\ Admitted(e) /\ S \in SUBSET Envelopes
      BY <2>2, KnownType DEF IInv, TypeOK, Idle, AdmittedInFlight, Prune
    <3>2. \A x \in S \cup file.records : Admitted(x)
      BY <3>1, KnownAdmitted DEF Prune, IInv, StoreHoldsAdmitted, Admitted, Parsed
    <3>3. Prune(Known) \subseteq S
      BY RoomyKeepsLive DEF Prune
    <3>4. file' \in {Appended(e), Rewritten(S)}
      BY <2>2, NotTorn DEF Interrupted
    <3>5. CASE file' = Appended(e)
      BY <3>5, <3>1, <3>2, LiveInFile, AppendedType DEF Appended, IInv, NeverTorn
    <3>6. CASE file' = Rewritten(S)
      BY <3>6, <3>1, <3>2, <3>3, RewrittenType DEF Rewritten
    <3> QED BY <3>4, <3>5, <3>6
  <2> QED BY <2>1, <2>2 DEF Restart
<1>2. TypeOK'
  BY <1>1 DEF Restart, IInv, TypeOK
<1>3. NeverTorn' /\ MapIsInTheFile' /\ AdmittedInFlight'
  BY <1>1 DEF Restart, NeverTorn, MapIsInTheFile, AdmittedInFlight, Idle
<1>4. LiveNonceIsKnown'
  BY <1>1, KnownType DEF Restart, IInv, TypeOK, LiveNonceIsKnown, Known, Prune, Parsed
<1>5. StoreHoldsAdmitted'
  BY <1>1 DEF Restart, StoreHoldsAdmitted, Admitted, Authentic, Parsed
<1> QED BY <1>1, <1>2, <1>3, <1>4, <1>5 DEF IInv

LEMMA TickKeepsIInv == ASSUME IInv, Tick PROVE IInv'
<1>1. TypeOK'
  BY DEF Tick, IInv, TypeOK
<1>2. \A e \in Envelopes : e.expires > now' => e.expires > now
  BY DEF Tick, IInv, TypeOK, EnvelopeType
<1>3. MapIsInTheFile'
  BY <1>2 DEF Tick, IInv, TypeOK, MapIsInTheFile, Prune, Parsed
<1>4. LiveNonceIsKnown'
  BY <1>2 DEF Tick, IInv, LiveNonceIsKnown, Known, Prune, Parsed
<1> QED BY <1>1, <1>3, <1>4 DEF Tick, IInv, NeverTorn, AdmittedInFlight, Idle, Admitted,
                            Authentic, StoreHoldsAdmitted, Parsed

LEMMA NextIInv == ASSUME NoTornWrites, IInv, [Next]_vars PROVE IInv'
<1>1. CASE UNCHANGED vars
  BY <1>1 DEF vars, IInv, TypeOK, NeverTorn, MapIsInTheFile, LiveNonceIsKnown, Known, Prune,
              Parsed, AdmittedInFlight, Idle, Admitted, Authentic, StoreHoldsAdmitted
<1> QED BY <1>1, AdmitKeepsIInv, ReplayedKeepsIInv, FullKeepsIInv, AppendFailsKeepsIInv,
           RecordedKeepsIInv, RestartKeepsIInv, TickKeepsIInv DEF Next

-----------------------------------------------------------------------------
(* The theorems *)

(* The inductive invariant holds of every behaviour without torn writes.    *)
THEOREM Invariant == ASSUME NoTornWrites PROVE Spec => []IInv
  BY InitIInv, NextIInv, PTL DEF Spec

(* Every variable keeps its type.                                           *)
THEOREM TypeCorrect == ASSUME NoTornWrites PROVE Spec => []TypeOK
<1>1. IInv => TypeOK
  BY DEF IInv
<1> QED BY <1>1, Invariant, PTL

(* A nonce Verify accepted is known while its envelope lives.               *)
THEOREM LiveNoncesStayKnown == ASSUME NoTornWrites PROVE Spec => []LiveNonceIsKnown
<1>1. IInv => LiveNonceIsKnown
  BY DEF IInv
<1> QED BY <1>1, Invariant, PTL

(* A restart brings back every live entry of the map.                       *)
THEOREM FileCoversMap == ASSUME NoTornWrites PROVE Spec => []MapIsInTheFile
<1>1. IInv => MapIsInTheFile
  BY DEF IInv
<1> QED BY <1>1, Invariant, PTL

(* Nothing that Verify refused occupies the store.                          *)
THEOREM OnlyAdmittedIsStored == ASSUME NoTornWrites PROVE Spec => []StoreHoldsAdmitted
<1>1. IInv => StoreHoldsAdmitted
  BY DEF IInv
<1> QED BY <1>1, Invariant, PTL

-----------------------------------------------------------------------------
(* The bound on the map                                                     *)

NoFailedSyncs == "syncError" \notin Faults

(* Nothing live is in the file that the map does not hold.                  *)
FileIsInMap == Prune(Parsed) \subseteq Known

BInv == FileIsInMap /\ Cardinality(Known) <= Limit

LEMMA SubsetBound ==
    ASSUME NEW S \in SUBSET Envelopes, NEW T \in SUBSET S
    PROVE  Cardinality(T) <= Cardinality(S)
  BY FS_Subset

LEMMA OneMore ==
    ASSUME NEW S \in SUBSET Envelopes, NEW e \in Envelopes, Cardinality(S) < Limit
    PROVE  Cardinality(S \cup {e}) <= Limit
<1>1. IsFiniteSet(S)
  BY FS_Subset
<1>2. \/ Cardinality(S \cup {e}) = Cardinality(S)
      \/ Cardinality(S \cup {e}) = Cardinality(S) + 1
  BY <1>1, FS_AddElement
<1>3. Cardinality(S) \in Nat
  BY CardinalityType
<1> QED BY <1>2, <1>3

LEMMA RoomyIsBounded ==
    ASSUME TypeOK, BInv
    PROVE  Cardinality(Roomy) <= Limit
<1>1. Known \in SUBSET Envelopes /\ Roomy \in SUBSET Known
  BY KnownType DEF Roomy, Prune
<1>2. Cardinality(Roomy) <= Cardinality(Known)
  BY <1>1, SubsetBound
<1>3. Cardinality(Roomy) \in Nat /\ Cardinality(Known) \in Nat
  BY <1>1, CardinalityType
<1> QED BY <1>2, <1>3 DEF BInv

(* What a Remember that has room makes of the map, or a part of it.         *)
LEMMA GrownIsBounded ==
    ASSUME TypeOK, HasRoom, NEW e \in Envelopes, NEW S \in SUBSET (Roomy \cup {e})
    PROVE  Cardinality(S) <= Limit
<1>1. Roomy \in SUBSET Envelopes
  BY KnownType
<1> DEFINE T == Roomy \cup {e}
<1>2. T \in SUBSET Envelopes /\ S \in SUBSET T
  BY <1>1
<1>3. Cardinality(T) <= Limit
  BY <1>1, OneMore DEF HasRoom
<1> HIDE DEF T
<1>4. S \in SUBSET Envelopes
  BY <1>2
<1>5. Cardinality(S) <= Cardinality(T)
  BY <1>2, SubsetBound
<1>6. Cardinality(S) \in Nat /\ Cardinality(T) \in Nat
  BY <1>2, <1>4, CardinalityType
<1> QED BY <1>3, <1>5, <1>6

LEMMA LoadedKeepsBInv ==
    ASSUME loaded' = TRUE, now' = now, Cardinality(seen') <= Limit,
           Prune(file'.records \cup file'.tail) \subseteq seen'
    PROVE  BInv'
  BY DEF BInv, FileIsInMap, Known, Parsed, Prune

LEMMA ClockKeepsBInv ==
    ASSUME TypeOK, BInv, now' \in Nat, now' >= now, UNCHANGED <<seen, loaded, file>>
    PROVE  BInv'
<1>1. Prune(Parsed)' \subseteq Prune(Parsed)
  BY DEF Prune, Parsed, TypeOK, File, EnvelopeType
<1>2. Known' \in SUBSET Known /\ FileIsInMap'
  BY <1>1 DEF BInv, FileIsInMap, Known, Prune, Parsed, TypeOK
<1>3. Known \in SUBSET Envelopes /\ Known' \in SUBSET Envelopes
  BY <1>2, KnownType
<1>4. Cardinality(Known') <= Cardinality(Known)
  BY <1>2, <1>3, SubsetBound
<1>5. Cardinality(Known') \in Nat /\ Cardinality(Known) \in Nat
  BY <1>3, CardinalityType
<1> QED BY <1>2, <1>4, <1>5 DEF BInv

(* A restart loads what the map held, and at most the one record that was   *)
(* being written, for which there was room.                                 *)
LEMMA RestartKeepsBInv ==
    ASSUME NoTornWrites, IInv, BInv, Restart
    PROVE  BInv'
<1>1. Known' = Prune(file'.records \cup file'.tail) /\ FileIsInMap'
  BY DEF Restart, Known, Parsed, Prune, FileIsInMap
<1>2. CASE UNCHANGED file
  <2>1. Known' \in SUBSET Known
    BY <1>1, <1>2 DEF BInv, FileIsInMap, Parsed
  <2>2. Known \in SUBSET Envelopes /\ Known' \in SUBSET Envelopes
    BY <2>1, KnownType DEF IInv
  <2>3. Cardinality(Known') <= Cardinality(Known)
    BY <2>1, <2>2, SubsetBound
  <2>4. Cardinality(Known') \in Nat /\ Cardinality(Known) \in Nat
    BY <2>2, CardinalityType
  <2> QED BY <1>1, <2>3, <2>4 DEF BInv
<1>3. ASSUME NEW v \in Verifiers, ~Idle(v), HasRoom, file' \in Interrupted(verifier[v])
      PROVE  BInv'
  <2> DEFINE e == verifier[v]
  <2>1. e \in Envelopes
    BY <1>3 DEF IInv, TypeOK, Idle
  <2>2. Prune(Parsed) \subseteq Roomy
    BY DEF BInv, FileIsInMap, Roomy, Prune
  <2>3. file' \in {Appended(e), Rewritten(Prune(Roomy \cup {e}))}
    BY <1>3, NotTorn DEF Interrupted
  <2>4. file'.records \cup file'.tail \subseteq Parsed \cup Roomy \cup {e}
    BY <2>3 DEF Appended, Rewritten, Parsed, Prune
  <2>5. Known' \in SUBSET (Roomy \cup {e})
    BY <1>1, <2>2, <2>4 DEF Prune
  <2>6. Cardinality(Known') <= Limit
    BY <1>3, <2>1, <2>5, GrownIsBounded DEF IInv
  <2> QED BY <1>1, <2>6 DEF BInv
<1> QED BY <1>2, <1>3 DEF Restart

LEMMA NextBInv ==
    ASSUME NoTornWrites, NoFailedSyncs, IInv, BInv, [Next]_vars
    PROVE  BInv'
<1>1. TypeOK /\ Prune(Parsed) \subseteq Roomy
  BY DEF IInv, BInv, FileIsInMap, Roomy, Prune
<1>2. ASSUME NEW v \in Verifiers, RememberReplayed(v) PROVE BInv'
  BY <1>2, LoadedKeepsBInv DEF RememberReplayed, BInv, FileIsInMap, Parsed
<1>3. ASSUME NEW v \in Verifiers, RememberFull(v) PROVE BInv'
  BY <1>1, <1>3, LoadedKeepsBInv, RoomyIsBounded DEF RememberFull, Parsed
<1>4. ASSUME NEW v \in Verifiers, AppendFails(v) PROVE BInv'
  <2>1. file' = file
    BY <1>4, NotTorn DEF AppendFails, Leftovers, NoFailedSyncs
  <2> QED BY <1>1, <1>4, <2>1, LoadedKeepsBInv, RoomyIsBounded DEF AppendFails, Parsed
<1>5. ASSUME NEW v \in Verifiers, Remember(v) PROVE BInv'
  <2> DEFINE e == verifier[v]
             S == Roomy \cup {e}
  <2>1. e \in Envelopes /\ HasRoom
    BY <1>5 DEF Remember, TypeOK, IInv, Idle
  <2>2. seen' \in SUBSET S /\ Prune(S) \subseteq seen' /\ loaded' = TRUE /\ now' = now
    BY <1>5 DEF Remember, Prune
  <2>3. Cardinality(seen') <= Limit
    BY <1>1, <2>1, <2>2, GrownIsBounded
  <2>4. file' \in {Appended(e), Rewritten(Prune(S))}
    BY <1>5 DEF Remember
  <2>5. file'.records \cup file'.tail \subseteq Parsed \cup S
    BY <2>4 DEF Appended, Rewritten, Parsed, Prune
  <2>6. Prune(file'.records \cup file'.tail) \subseteq Prune(S)
    BY <1>1, <2>5 DEF Prune
  <2> QED BY <2>2, <2>3, <2>6, LoadedKeepsBInv
<1>6. ASSUME NEW v \in Verifiers, NEW e \in Envelopes, Admit(v, e) PROVE BInv'
  BY <1>1, <1>6, ClockKeepsBInv DEF Admit, TypeOK
<1>7. CASE Tick \/ UNCHANGED vars
  BY <1>1, <1>7, ClockKeepsBInv DEF Tick, vars, TypeOK
<1> QED BY <1>2, <1>3, <1>4, <1>5, <1>6, <1>7, RestartKeepsBInv DEF Next

LEMMA InitBInv == Init => BInv
<1> SUFFICES ASSUME Init PROVE BInv
  OBVIOUS
<1>1. Known = {} /\ FileIsInMap
  BY DEF Init, Known, Parsed, Prune, FileIsInMap
<1> QED BY <1>1, FS_EmptySet DEF BInv

(* The map never holds more than its limit, however often the agent         *)
(* restarts: what a failed sync leaves in the file is the one thing that    *)
(* could make a restart load more.                                          *)
THEOREM MapStaysBounded ==
    ASSUME NoTornWrites, NoFailedSyncs
    PROVE  Spec => []MapIsBounded
<1>1. BInv => MapIsBounded
  BY DEF BInv, MapIsBounded, Known
<1> QED BY <1>1, Invariant, InitBInv, NextBInv, PTL DEF Spec

HIDE NonceStoreAssumption

-----------------------------------------------------------------------------
(* The delivery                                                            *)

Message == [said : Instruction, signature : Signatures, keyId : SigningKeys]

InRange == now \in 0..MaxTime

SignedFinite == IsFiniteSet(signed) /\ Cardinality(signed) <= MaxSigned

(* What the store can tell of a signed message, if it is for this host.    *)
Arriving(s) ==
    [id |-> s.said.nonce, issued |-> s.said.issuedAt, expires |-> s.said.expiresAt,
     signed |-> TRUE, here |-> TRUE]

SignedRight ==
    \A s \in signed :
        s \in Message /\ s.signature.over = Over(s.said) /\ Arriving(s) \in Envelopes

WireSigned == \A m \in wire : m \in Message /\ \E s \in signed : m.signature = s.signature

Held(v) ==
    /\ holding[v] \in wire
    /\ verifySignature(holding[v])
    /\ holding[v].said.targetHostId = Host

AllHeld ==
    /\ verifier \in [Verifiers -> Envelopes \cup {NoEnvelope}]
    /\ holding \in [Verifiers -> Message \cup {Nothing}]
    /\ \A v \in Verifiers : ~Idle(v) => Held(v)

DInv ==
    InRange /\ SignedFinite /\ SignedRight /\ WireSigned /\ AllHeld /\ PerformedWasSigned

-----------------------------------------------------------------------------
(* The encoding *)

(* A function onto its range that has as many values as arguments takes    *)
(* each of them once.                                                      *)
LEMMA SameBytes ==
    ASSUME NEW i \in Instruction, NEW j \in Instruction, Over(i) = Over(j)
    PROVE  i = j
<1> DEFINE f == [x \in Instruction |-> Over(x)]
           bytes == {Over(x) : x \in Instruction}
<1>1. f \in Surjection(Instruction, bytes)
  BY DEF Surjection
<1>2. f \in Injection(Instruction, bytes)
  BY <1>1, FS_Surjection, EncodingIsInjective
<1> HIDE DEF bytes
<1>3. QED BY <1>2 DEF Injection, IsInjective

(* A message that verifies says what the control plane said.               *)
LEMMA Genuine ==
    ASSUME SignedRight, WireSigned, NEW m \in wire, verifySignature(m)
    PROVE  \E s \in signed : m.said = s.said /\ s.signature.key \in AcceptedKeys
<1>1. PICK k \in AcceptedKeys : m.signature = [key |-> k, over |-> Over(m.said)]
  BY DEF verifySignature
<1>2. PICK s \in signed : m.signature = s.signature
  BY DEF WireSigned
<1>3. Over(m.said) = Over(s.said) /\ s.signature.key = k
  BY <1>1, <1>2 DEF SignedRight
<1>4. m.said \in Instruction /\ s.said \in Instruction
  BY DEF WireSigned, SignedRight, Message
<1> QED BY <1>3, <1>4, SameBytes

-----------------------------------------------------------------------------
(* The steps *)

LEMMA InitDInv == DeliveryInit => DInv
  BY FS_EmptySet, DeliveryAssumption, NonceStoreAssumption
  DEF DeliveryInit, Init, DInv, InRange, SignedFinite, SignedRight, WireSigned, AllHeld, Idle,
      PerformedWasSigned

LEMMA SignKeepsDInv ==
    ASSUME DInv, NEW order \in Orders, NEW key \in SigningKeys, Sign(order, key)
    PROVE  DInv'
<1> DEFINE said == [operation |-> order.operation, arguments |-> order.arguments,
                    targetHostId |-> order.targetHostId, nonce |-> Cardinality(signed) + 1,
                    issuedAt |-> now + Ahead, expiresAt |-> now + Ahead + order.validityMs]
           message == [said |-> said, signature |-> [key |-> key, over |-> Over(said)],
                       keyId |-> key]
<1>1. /\ Cardinality(signed) < MaxSigned /\ Signable(order)
      /\ wire' = wire \cup {message} /\ signed' = signed \cup {message}
      /\ UNCHANGED <<vars, holding, performed, late>>
  BY DEF Sign
<1>2. Cardinality(signed) \in Nat
  BY FS_CardinalityType DEF DInv, SignedFinite
<1>3. SignedFinite'
  <2>1. IsFiniteSet(signed') /\ Cardinality(signed') \in {Cardinality(signed), Cardinality(signed) + 1}
    BY <1>1, FS_AddElement DEF DInv, SignedFinite
  <2> QED BY <2>1, <1>1, <1>2, DeliveryAssumption DEF SignedFinite
<1>4. order.validityMs \in Nat /\ order.validityMs > 0 /\ order.validityMs <= MaxValidity
  BY <1>1, DeliveryAssumption DEF Signable
<1>5. /\ Cardinality(signed) + 1 \in 1..MaxSigned
      /\ now + Ahead \in Stamps /\ now + Ahead + order.validityMs \in Stamps
      /\ now + Ahead \in Ahead..(MaxTime + Ahead)
  BY <1>1, <1>2, <1>4, DeliveryAssumption, NonceStoreAssumption DEF DInv, InRange, Stamps
<1>6. said \in Instruction
  BY <1>5 DEF Instruction
<1>7. message \in Message
  BY <1>6 DEF Message, Signatures
<1>8. Arriving(message) \in Envelopes
  <2>1. Arriving(message) =
            [id |-> Cardinality(signed) + 1, issued |-> now + Ahead,
             expires |-> now + Ahead + order.validityMs, signed |-> TRUE, here |-> TRUE]
    BY DEF Arriving
  <2> QED BY <2>1, <1>1, <1>5, EnvelopesSuffice
<1>9. SignedRight'
  <2> SUFFICES ASSUME NEW s \in signed'
               PROVE  s \in Message /\ s.signature.over = Over(s.said) /\ Arriving(s) \in Envelopes
    BY DEF SignedRight, Arriving
  <2>1. CASE s \in signed
    BY <2>1 DEF DInv, SignedRight
  <2>2. CASE s = message
    BY <2>2, <1>7, <1>8
  <2> QED BY <2>1, <2>2, <1>1
<1>10. WireSigned'
  <2> SUFFICES ASSUME NEW m \in wire' PROVE m \in Message /\ \E s \in signed' : m.signature = s.signature
    BY DEF WireSigned
  <2> HIDE DEF message
  <2> QED BY <1>1, <1>7 DEF DInv, WireSigned
<1> HIDE DEF message
<1>11. AllHeld'
  BY <1>1 DEF DInv, AllHeld, Held, Idle, verifySignature, vars
<1>12. InRange' /\ PerformedWasSigned'
  BY <1>1 DEF DInv, InRange, PerformedWasSigned, vars
<1> QED BY <1>3, <1>9, <1>10, <1>11, <1>12 DEF DInv

LEMMA DamageKeepsDInv ==
    ASSUME DInv, NEW m \in wire, Damage(m)
    PROVE  DInv'
<1>1. PICK d \in Damages(m) : wire' = wire \cup {d}
  BY DEF Damage
<1>2. UNCHANGED <<vars, holding, signed, performed, late>>
  BY DEF Damage
<1>3. m \in Message /\ \E s \in signed : m.signature = s.signature
  BY DEF DInv, WireSigned
<1>4. \A i \in Changes(m.said) : i \in Instruction
  <2>1. m.said \in Instruction /\ MaxTime + Ahead + MaxValidity \in Stamps
    BY <1>3, DeliveryAssumption, NonceStoreAssumption DEF Message, Stamps
  <2>2. \A o \in Orders : [m.said EXCEPT !.operation = o.operation, !.arguments = o.arguments]
                           \in Instruction
    <3> TAKE o \in Orders
    <3>1. o.operation \in {x.operation : x \in Orders} /\ o.arguments \in {x.arguments : x \in Orders}
      OBVIOUS
    <3> QED BY <2>1, <3>1 DEF Instruction
  <2>3. \A o \in Orders : [m.said EXCEPT !.targetHostId = o.targetHostId] \in Instruction
    <3> TAKE o \in Orders
    <3>1. o.targetHostId \in {x.targetHostId : x \in Orders}
      OBVIOUS
    <3> QED BY <2>1, <3>1 DEF Instruction
  <2>4. [m.said EXCEPT !.expiresAt = MaxTime + Ahead + MaxValidity] \in Instruction
    BY <2>1 DEF Instruction
  <2> SUFFICES ASSUME NEW i \in Changes(m.said) PROVE i \in Instruction
    OBVIOUS
  <2>5. \/ \E o \in Orders : i = [m.said EXCEPT !.operation = o.operation, !.arguments = o.arguments]
        \/ \E o \in Orders : i = [m.said EXCEPT !.targetHostId = o.targetHostId]
        \/ i = [m.said EXCEPT !.expiresAt = MaxTime + Ahead + MaxValidity]
    BY Zenon DEF Changes
  <2> QED BY Zenon, <2>2, <2>3, <2>4, <2>5
<1>5. d \in Message /\ d.signature = m.signature
  BY <1>1, <1>3, <1>4 DEF Damages, Message
<1>6. WireSigned'
  BY <1>1, <1>2, <1>3, <1>5 DEF DInv, WireSigned
<1>7. AllHeld'
  BY <1>1, <1>2 DEF DInv, AllHeld, Held, Idle, verifySignature, vars
<1> QED BY <1>2, <1>6, <1>7 DEF DInv, InRange, SignedFinite, SignedRight, PerformedWasSigned, vars

LEMMA DeliverKeepsDInv ==
    ASSUME DInv, NEW m \in wire, NEW v \in Verifiers, Deliver(v, m)
    PROVE  DInv' /\ EnvelopeOf(m) \in Envelopes
<1>1. /\ Admit(v, EnvelopeOf(m)) /\ holding' = [holding EXCEPT ![v] = m]
      /\ UNCHANGED <<wire, signed, performed, late, now>>
  BY DEF Deliver, world, Admit
<1>2. verifySignature(m) /\ m.said.targetHostId = Host
  BY <1>1 DEF Admit, Authentic, EnvelopeOf
<1>3. PICK s \in signed : m.said = s.said
  BY <1>2, Genuine DEF DInv
<1>4. EnvelopeOf(m) = Arriving(s)
  BY <1>2, <1>3 DEF EnvelopeOf, Arriving
<1>5. EnvelopeOf(m) \in Envelopes
  BY <1>4 DEF DInv, SignedRight
<1>6. verifier' = [verifier EXCEPT ![v] = EnvelopeOf(m)]
  BY <1>1 DEF Admit
<1>7. m \in Message
  BY DEF DInv, WireSigned
<1>8. AllHeld'
  <2>1. /\ verifier' \in [Verifiers -> Envelopes \cup {NoEnvelope}]
        /\ holding' \in [Verifiers -> Message \cup {Nothing}]
    BY <1>1, <1>5, <1>6, <1>7 DEF DInv, AllHeld
  <2>2. ASSUME NEW w \in Verifiers, ~Idle(w)' PROVE Held(w)'
    <3>1. CASE w = v
      BY <3>1, <1>1, <1>2 DEF DInv, AllHeld, Held, verifySignature
    <3>2. CASE w # v
      BY <3>2, <2>2, <1>1, <1>6 DEF DInv, AllHeld, Held, Idle, verifySignature
    <3> QED BY <3>1, <3>2
  <2> QED BY <2>1, <2>2 DEF AllHeld
<1>9. InRange' /\ SignedFinite' /\ SignedRight' /\ WireSigned' /\ PerformedWasSigned'
  BY <1>1 DEF DInv, InRange, SignedFinite, SignedRight, WireSigned, PerformedWasSigned, Arriving
<1> QED BY <1>5, <1>8, <1>9 DEF DInv

(* However a Remember ends, its verification is over.                      *)
LEMMA DropsKeepsHeld ==
    ASSUME DInv, NEW v \in Verifiers, Done(v), Drops(v), UNCHANGED wire
    PROVE  AllHeld'
<1>1. /\ verifier' \in [Verifiers -> Envelopes \cup {NoEnvelope}]
      /\ holding' \in [Verifiers -> Message \cup {Nothing}]
  BY DEF DInv, AllHeld, Done, Drops
<1>2. ASSUME NEW w \in Verifiers, ~Idle(w)' PROVE Held(w)'
  <2>1. w # v /\ verifier'[w] = verifier[w] /\ holding'[w] = holding[w]
    BY <1>2 DEF DInv, AllHeld, Done, Drops, Idle
  <2> QED BY <2>1, <1>2 DEF DInv, AllHeld, Held, Idle, verifySignature
<1> QED BY <1>1, <1>2 DEF AllHeld

LEMMA RefuseKeepsDInv ==
    ASSUME DInv, NEW v \in Verifiers, Refuse(v)
    PROVE  DInv'
<1>1. Done(v) /\ Drops(v) /\ UNCHANGED <<wire, signed, performed, now>>
  BY DEF Refuse, world, RememberReplayed, RememberFull, AppendFails
<1>2. AllHeld'
  BY <1>1, DropsKeepsHeld
<1> QED BY <1>1, <1>2 DEF DInv, InRange, SignedFinite, SignedRight, WireSigned, PerformedWasSigned

LEMMA AcceptKeepsDInv ==
    ASSUME DInv, NEW v \in Verifiers, Accept(v)
    PROVE  DInv'
<1>1. /\ ~Idle(v) /\ Done(v) /\ Drops(v) /\ UNCHANGED <<wire, signed, now>>
      /\ performed' \in {performed, performed \cup {holding[v]}}
  BY DEF Accept, Remember
<1>2. Held(v)
  BY <1>1 DEF DInv, AllHeld
<1>3. \E s \in signed : holding[v].said = s.said /\ s.signature.key \in AcceptedKeys
  BY <1>2, Genuine DEF Held, DInv
<1>4. PerformedWasSigned'
  BY <1>1, <1>2, <1>3 DEF DInv, PerformedWasSigned, Held
<1>5. AllHeld'
  BY <1>1, DropsKeepsHeld
<1> QED BY <1>1, <1>4, <1>5 DEF DInv, InRange, SignedFinite, SignedRight, WireSigned

LEMMA NextDInv == ASSUME DInv, [DeliveryNext]_all PROVE DInv'
<1>1. CASE UNCHANGED all
  BY <1>1 DEF all, vars, DInv, InRange, SignedFinite, SignedRight, WireSigned, AllHeld, Held, Idle,
              verifySignature, PerformedWasSigned
<1>2. CASE HostRestarts
  <2>1. /\ \A v \in Verifiers : Idle(v)'
        /\ verifier' \in [Verifiers -> Envelopes \cup {NoEnvelope}]
        /\ holding' \in [Verifiers -> Message \cup {Nothing}]
        /\ UNCHANGED <<wire, signed, performed, now>>
    BY <1>2 DEF HostRestarts, Restart, world, Idle
  <2> QED BY <2>1 DEF DInv, InRange, SignedFinite, SignedRight, WireSigned, AllHeld, PerformedWasSigned
<1>3. CASE TimePasses
  <2>1. UNCHANGED <<wire, signed, performed, verifier, holding>> /\ now < MaxTime /\ now' = now + 1
    BY <1>3 DEF TimePasses, Tick, world
  <2>2. InRange'
    BY <2>1, NonceStoreAssumption DEF DInv, InRange
  <2> QED BY <2>1, <2>2 DEF DInv, SignedFinite, SignedRight, WireSigned, AllHeld, Held, Idle,
                            verifySignature, PerformedWasSigned
<1> QED BY <1>1, <1>2, <1>3, SignKeepsDInv, DamageKeepsDInv, DeliverKeepsDInv, RefuseKeepsDInv,
           AcceptKeepsDInv DEF DeliveryNext

THEOREM DeliveryInvariant == DeliverySpec => []DInv
  BY InitDInv, NextDInv, PTL DEF DeliverySpec

(* Only what the control plane signed for this host, with a key the host   *)
(* accepts, is performed, field for field.                                 *)
THEOREM OnlySignedIsPerformed == DeliverySpec => []PerformedWasSigned
<1>1. DInv => PerformedWasSigned
  BY DEF DInv
<1> QED BY <1>1, DeliveryInvariant, PTL

-----------------------------------------------------------------------------
(* The store's part in it *)

LEMMA StepIsAStoresStep == ASSUME DInv, [DeliveryNext]_all PROVE [Next]_vars
<1>1. ASSUME NEW m \in wire, NEW v \in Verifiers, Deliver(v, m) PROVE Next
  <2>1. EnvelopeOf(m) \in Envelopes /\ Admit(v, EnvelopeOf(m))
    BY <1>1, DeliverKeepsDInv DEF Deliver
  <2> QED BY <2>1 DEF Next
<1>2. ASSUME NEW v \in Verifiers, Refuse(v) PROVE Next
  BY <1>2 DEF Refuse, Next
<1>3. ASSUME NEW v \in Verifiers, Accept(v) PROVE Next
  BY <1>3 DEF Accept, Next
<1>4. HostRestarts \/ TimePasses => Next
  BY DEF HostRestarts, TimePasses, Next
<1>5. ASSUME NEW order \in Orders, NEW key \in SigningKeys, Sign(order, key) PROVE UNCHANGED vars
  BY <1>5 DEF Sign
<1>6. ASSUME NEW m \in wire, Damage(m) PROVE UNCHANGED vars
  BY <1>6 DEF Damage
<1>7. UNCHANGED all => UNCHANGED vars
  BY DEF all
<1> QED BY <1>1, <1>2, <1>3, <1>4, <1>5, <1>6, <1>7 DEF DeliveryNext

(* Whatever arrives, the store behaves as NonceStore.tla says: what is     *)
(* proved of Spec holds of a host that is sent anything.                   *)
THEOREM DeliveryImplementsStore == DeliverySpec => Spec
<1>1. DeliveryInit => Init
  BY DEF DeliveryInit
<1> QED BY <1>1, DeliveryInvariant, StepIsAStoresStep, PTL DEF DeliverySpec, Spec

LEMMA NextAcceptedAtMostOnce ==
    ASSUME NoTornWrites, IInv, AcceptedAtMostOnce, [DeliveryNext]_all
    PROVE  AcceptedAtMostOnce'
<1>1. CASE UNCHANGED accepted
  <2>1. late => late'
    BY DEF DeliveryNext, all, Sign, Damage, Deliver, Refuse, Accept, HostRestarts, TimePasses, world
  <2> QED BY <1>1, <2>1 DEF AcceptedAtMostOnce, AcceptedOnce
<1>2. ASSUME NEW v \in Verifiers, Accept(v) PROVE AcceptedAtMostOnce'
  <2> DEFINE e == verifier[v]
  <2>1. /\ e \in Envelopes /\ e \notin Known
        /\ accepted' = [accepted EXCEPT ![e] = @ + 1]
        /\ late' = (late \/ e.expires <= now)
    BY <1>2 DEF Accept, Remember, IInv, TypeOK, Idle
  <2>2. accepted[e] \in Nat /\ (accepted[e] > 0 => ~(e.expires > now))
    BY <2>1 DEF IInv, TypeOK, LiveNonceIsKnown
  <2>3. e.expires \in Nat /\ now \in Nat
    BY <2>1, NonceStoreAssumption DEF IInv, TypeOK, EnvelopeType
  <2>4. accepted[e] = 0 \/ e.expires <= now
    BY <2>2, <2>3
  <2>5. ~late' => accepted[e] = 0 /\ ~late
    BY <2>1, <2>4, Zenon
  <2>6. ~late' => \A x \in Envelopes : accepted'[x] <= 1
    BY <2>1, <2>5 DEF IInv, TypeOK, AcceptedAtMostOnce, AcceptedOnce
  <2> QED BY <2>6 DEF AcceptedAtMostOnce, AcceptedOnce
<1>3. UNCHANGED accepted \/ \E v \in Verifiers : Accept(v)
  BY DEF DeliveryNext, all, vars, Sign, Damage, Deliver, Admit, Refuse, RememberReplayed,
         RememberFull, AppendFails, HostRestarts, Restart, TimePasses, Tick
<1> QED BY <1>1, <1>2, <1>3

(* However often it is delivered, an instruction is accepted once, through *)
(* restarts and failing writes, as long as no append is torn and no        *)
(* envelope expires between the two clock readings of a verification.      *)
THEOREM NothingIsAcceptedTwice ==
    ASSUME NoTornWrites
    PROVE  DeliverySpec => []AcceptedAtMostOnce
<1>1. DeliveryInit => AcceptedAtMostOnce
  BY DEF DeliveryInit, Init, AcceptedAtMostOnce, AcceptedOnce
<1> QED BY <1>1, NextAcceptedAtMostOnce, DeliveryImplementsStore, Invariant, PTL DEF DeliverySpec
=============================================================================
