------------------------------ MODULE NonceStore ------------------------------
(***************************************************************************)
(* Replay protection on a managed host: Verify of                          *)
(* src/agent/internal/protocol/envelope.go and the store it asks,          *)
(* FileNonceStore of src/agent/internal/protocol/nonces.go.                *)
(*                                                                         *)
(* Verify judges an envelope against a clock reading taken when it starts, *)
(* and only later reaches the store, which has a clock of its own and a    *)
(* mutex: a verification is two steps here, Admit and one of the Remember  *)
(* actions, and a Remember action is everything done under the mutex.      *)
(*                                                                         *)
(* An envelope stands for its nonce (both are signed together).  The file  *)
(* is the set of records its lines parse to, the number of its lines, and  *)
(* what an unterminated last line holds, if there is one: the next append  *)
(* continues that line, and the line that results parses to no nonce.      *)
(***************************************************************************)
EXTENDS Integers, FiniteSets

CONSTANTS
    Envelopes,      \* envelopes that may arrive, any number of times each
    Verifiers,      \* verifications in flight at once
    MaxValidity,    \* MaxValidity, in ticks
    MaxFutureSkew,  \* MaxFutureSkew, in ticks
    Limit,          \* store.limit
    PruneEvery,     \* pruneEvery
    Faults,         \* bound: what may go wrong
    MaxTime,        \* bound on the clock
    MaxLines        \* bound on the lines of the file

EnvelopeType == [id : Nat, issued : Nat, expires : Nat,
                 signed : BOOLEAN,      \* verifies under an accepted key
                 here : BOOLEAN]        \* is addressed to this host

FaultKinds == {"restart", "writeError", "syncError", "tornWrite", "rewriteError"}

ASSUME NonceStoreAssumption ==
    /\ Envelopes \subseteq EnvelopeType /\ IsFiniteSet(Envelopes)
    /\ MaxValidity \in Nat /\ MaxFutureSkew \in Nat
    /\ Limit \in Nat \ {0} /\ PruneEvery \in Nat \ {0}
    /\ Faults \subseteq FaultKinds
    /\ MaxTime \in Nat /\ MaxLines \in Nat

NoEnvelope == [id |-> 0, issued |-> 0, expires |-> 0, signed |-> FALSE,
               here |-> FALSE]

VARIABLES
    now,        \* time.Now(), which Verify's caller and the store read
    seen,       \* store.seen
    loaded,     \* store.loaded
    appends,    \* store.appends
    file,       \* the file: records, number of lines, unterminated tail
    verifier,   \* the envelope each verification holds, or NoEnvelope
    accepted    \* history: how often Verify accepted each envelope's nonce

vars == <<now, seen, loaded, appends, file, verifier, accepted>>

File == [records : SUBSET Envelopes, lines : Nat,
         torn : BOOLEAN,            \* the last line is unterminated
         tail : SUBSET Envelopes]   \* what it parses to

TypeOK ==
    /\ now \in Nat
    /\ seen \subseteq Envelopes
    /\ loaded \in BOOLEAN
    /\ appends \in Nat
    /\ file \in File
    /\ verifier \in [Verifiers -> Envelopes \cup {NoEnvelope}]
    /\ accepted \in [Envelopes -> Nat]

Init ==
    /\ now = 0
    /\ seen = {}
    /\ loaded = FALSE
    /\ appends = 0
    /\ file = [records |-> {}, lines |-> 0, torn |-> FALSE, tail |-> {}]
    /\ verifier = [v \in Verifiers |-> NoEnvelope]
    /\ accepted = [e \in Envelopes |-> 0]

-----------------------------------------------------------------------------
(* Checks *)

(* checkFreshness *)
Fresh(e) ==
    /\ e.expires > now
    /\ e.issued - now <= MaxFutureSkew
    /\ e.expires - e.issued <= MaxValidity

(* checkShape, as far as stamps go; then the signature and the target.      *)
Authentic(e) == e.issued > 0 /\ e.expires > e.issued /\ e.signed /\ e.here

Idle(v) == verifier[v] = NoEnvelope
Done(v) == verifier' = [verifier EXCEPT ![v] = NoEnvelope]

-----------------------------------------------------------------------------
(* The store, its mutex held *)

Prune(S) == {e \in S : e.expires > now}

(* What load() finds: the lines that parse, the unterminated one included,  *)
(* without what is dead.                                                    *)
Parsed == file.records \cup file.tail

(* fault: the file is not read after a restart *)
KnownForgetsFile == seen

Known == IF loaded THEN seen ELSE Prune(Parsed)

(* The map a Remember that finds e absent inserts into: at the limit, what  *)
(* is dead is dropped first.                                                *)
Roomy == IF Cardinality(Known) >= Limit THEN Prune(Known) ELSE Known

(* One more line: the record, unless it continues an unterminated line.     *)
Appended(e) ==
    [records |-> IF file.torn THEN file.records ELSE file.records \cup {e},
     lines |-> IF file.torn THEN file.lines ELSE file.lines + 1,
     torn |-> FALSE, tail |-> {}]

(* The beginning of the line: anything up to the whole line without its end *)
(* (which is junk when it continues an unterminated line).                  *)
Torn(e) ==
    IF "tornWrite" \in Faults
    THEN {[records |-> file.records,
           lines |-> IF file.torn THEN file.lines ELSE file.lines + 1,
           torn |-> TRUE, tail |-> t] :
             t \in {{}} \cup (IF file.torn THEN {} ELSE {{e}})}
    ELSE {}

(* What an append that reports an error may leave behind: nothing, the      *)
(* whole record whose sync failed, or the beginning of its line.            *)
Leftovers(e) ==
    (IF "writeError" \in Faults THEN {file} ELSE {})
    \cup (IF "syncError" \in Faults THEN {Appended(e)} ELSE {})
    \cup Torn(e)

(* fault: the entry just added is not counted *)
RewrittenShort(S) ==
    [records |-> S, lines |-> Cardinality(S) - 1, torn |-> FALSE, tail |-> {}]

(* rewrite(): a temporary file with the map's entries, renamed over the     *)
(* store's.                                                                 *)
Rewritten(S) == [records |-> S, lines |-> Cardinality(S), torn |-> FALSE, tail |-> {}]

RewriteDue == appends + 1 >= PruneEvery

(* What a Remember that is cut off leaves behind.                           *)
Interrupted(e) ==
    {Appended(e)} \cup Torn(e)
    \cup (IF RewriteDue THEN {Rewritten(Prune(Roomy \cup {e}))} ELSE {})

HasRoom == Cardinality(Roomy) < Limit

-----------------------------------------------------------------------------
(* Verify up to the store: a refused envelope changes nothing.  (The        *)
(* operation and its arguments are looked at only once the nonce is spent.) *)
Admit(v, e) ==
    /\ Idle(v)
    /\ Authentic(e)
    /\ Fresh(e)
    /\ verifier' = [verifier EXCEPT ![v] = e]
    /\ UNCHANGED <<now, seen, loaded, appends, file, accepted>>

(* The nonce is present, expired or not.                                    *)
RememberReplayed(v) ==
    /\ ~Idle(v)
    /\ verifier[v] \in Known
    /\ seen' = Known /\ loaded' = TRUE
    /\ Done(v)
    /\ UNCHANGED <<now, appends, file, accepted>>

(* fault: at the limit an old entry makes room *)
RememberEvicts(v) ==
    /\ ~Idle(v)
    /\ verifier[v] \notin Known
    /\ ~HasRoom
    /\ \E e \in Roomy : seen' = (Roomy \ {e}) \cup {verifier[v]}
    /\ loaded' = TRUE
    /\ file' = Appended(verifier[v])
    /\ accepted' = [accepted EXCEPT ![verifier[v]] = @ + 1]
    /\ Done(v)
    /\ UNCHANGED <<now, appends>>

(* ErrStoreFull: refuse rather than forget a live nonce.                    *)
RememberFull(v) ==
    /\ ~Idle(v)
    /\ verifier[v] \notin Known
    /\ ~HasRoom
    /\ seen' = Roomy /\ loaded' = TRUE
    /\ Done(v)
    /\ UNCHANGED <<now, appends, file, accepted>>

(* fault: the entry stays in the map when the file refuses it *)
AppendFailsKeepsEntry(v) ==
    /\ ~Idle(v)
    /\ verifier[v] \notin Known
    /\ HasRoom
    /\ file.lines < MaxLines
    /\ seen' = Roomy \cup {verifier[v]} /\ loaded' = TRUE
    /\ file' \in Leftovers(verifier[v])
    /\ Done(v)
    /\ UNCHANGED <<now, appends, accepted>>

(* The append fails: the map is rolled back and the envelope refused.       *)
AppendFails(v) ==
    /\ ~Idle(v)
    /\ verifier[v] \notin Known
    /\ HasRoom
    /\ file.lines < MaxLines
    /\ file' \in Leftovers(verifier[v])
    /\ seen' = Roomy /\ loaded' = TRUE
    /\ Done(v)
    /\ UNCHANGED <<now, appends, accepted>>

(* The nonce is new and is recorded: in the map, in the file and, every     *)
(* PruneEvery appends, by rewriting the file.  A rewrite that fails is not  *)
(* this caller's error.                                                     *)
Remember(v) ==
    LET e == verifier[v]
        S == Roomy \cup {e} IN
    /\ ~Idle(v)
    /\ e \notin Known
    /\ HasRoom
    /\ file.lines < MaxLines
    /\ IF ~RewriteDue
       THEN seen' = S /\ file' = Appended(e) /\ appends' = appends + 1
       ELSE /\ seen' = Prune(S)
            /\ \/ file' = Rewritten(Prune(S)) /\ appends' = 0
               \/ /\ "rewriteError" \in Faults
                  /\ file' = Appended(e) /\ appends' = appends + 1
    /\ loaded' = TRUE
    /\ accepted' = [accepted EXCEPT ![e] = @ + 1]
    /\ Done(v)
    /\ UNCHANGED now

(* The agent stops, between two calls or in the middle of one, and starts   *)
(* again with an empty map.                                                 *)
Restart ==
    /\ "restart" \in Faults
    /\ \/ UNCHANGED file
       \/ \E v \in Verifiers :
            /\ ~Idle(v) /\ verifier[v] \notin Known /\ HasRoom
            /\ file.lines < MaxLines
            /\ file' \in Interrupted(verifier[v])
    /\ seen' = {} /\ loaded' = FALSE /\ appends' = 0
    /\ verifier' = [v \in Verifiers |-> NoEnvelope]
    /\ UNCHANGED <<now, accepted>>

Tick ==
    /\ now < MaxTime
    /\ now' = now + 1
    /\ UNCHANGED <<seen, loaded, appends, file, verifier, accepted>>

Next ==
    \/ \E v \in Verifiers :
          \/ \E e \in Envelopes : Admit(v, e)
          \/ RememberReplayed(v) \/ RememberFull(v)
          \/ AppendFails(v) \/ Remember(v)
    \/ Restart
    \/ Tick

Spec == Init /\ [][Next]_vars
-----------------------------------------------------------------------------
(* Properties of every interleaving.  LiveNonceIsKnown and MapIsInTheFile   *)
(* suppose that no append is torn, MapIsBounded that no sync fails either.  *)

(* "The map cannot claim to have remembered something the file did not": a  *)
(* restart at any moment brings back every live entry of the map.           *)
MapIsInTheFile == loaded => Prune(seen) \subseteq Parsed

(* An accepted nonce is remembered while its envelope lives, across         *)
(* restarts, failing appends and failing rewrites.                          *)
LiveNonceIsKnown ==
    \A e \in Envelopes : accepted[e] > 0 /\ e.expires > now => e \in Known

(* Whatever the store holds passed the signature, the target and the expiry *)
(* checks, so its size is bounded by what was admitted: nothing forged, and *)
(* nothing already dead, occupies it.                                       *)
StoreHoldsAdmitted ==
    \A e \in seen \cup Parsed :
        Authentic(e) /\ e.expires - e.issued <= MaxValidity

(* The store refuses at its bound rather than growing or forgetting, and a  *)
(* restart does not load more than it.                                      *)
MapIsBounded == loaded => Cardinality(seen) <= Limit

-----------------------------------------------------------------------------
(* What the whole mechanism is for, and what one of its comments promises   *)

(* No nonce is accepted twice.                                              *)
AcceptedOnce == \A e \in Envelopes : accepted[e] <= 1

(* "The store's size is a function of the instruction rate within one       *)
(* validity window rather than of uptime."                                  *)
FileIsBounded == file.lines < Limit + PruneEvery
=============================================================================
