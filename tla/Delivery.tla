------------------------------ MODULE Delivery ------------------------------
(***************************************************************************)
(* An instruction on its way: signInstruction of src/src/agent/envelope.ts *)
(* on the control plane, a transport that delivers late, never, twice, out  *)
(* of order or damaged, and Verify of                                      *)
(* src/agent/internal/protocol/envelope.go on the host, over the nonce     *)
(* store of NonceStore.tla with its restarts and failing writes.           *)
(*                                                                         *)
(* A message is the envelope as it travels.  What NonceStore calls an      *)
(* envelope is what the store can tell of one: EnvelopeOf.                 *)
(***************************************************************************)
EXTENDS NonceStore, Instructions

CONSTANTS
    Orders,         \* [operation, arguments, targetHostId, validityMs] to be signed
    SigningKeys,    \* keys something may be signed with
    AcceptedKeys,   \* those this agent was given
    Host,           \* this agent's id
    AgentCatalogue, \* the operations of this agent's release
    Samples,        \* [texts -> value]: the values arguments may name
    Encoding,       \* [texts -> sequence of bytes]
    Ahead,          \* how far the control plane's clock is before the host's
    MaxSigned,      \* bound on instructions signed
    MaxDamaged      \* bound on damaged copies

BytesOf(text) == Encoding[text]
Values(args) == [name \in DOMAIN args |-> Samples[args[name]]]

Stamps == 1..(MaxTime + Ahead + MaxValidity)

(* What a message may say. *)
Instruction ==
    [operation : {o.operation : o \in Orders}, arguments : {o.arguments : o \in Orders},
     targetHostId : {o.targetHostId : o \in Orders},
     nonce : 1..MaxSigned, issuedAt : Stamps, expiresAt : Stamps]

Over(instruction) == canonicalBytes(BytesOf, instruction)
Signatures == [key : SigningKeys, over : {Over(i) : i \in Instruction}]

(* What signInstruction agrees to sign. *)
Signable(order) ==
    /\ InCatalogue(order.operation, OPERATIONS)
    /\ assertArgumentsMatch(Lookup(order.operation, OPERATIONS), Values(order.arguments))
    /\ order.validityMs > 0 /\ order.validityMs <= MaxValidity

ASSUME DeliveryAssumption ==
    /\ AcceptedKeys \subseteq SigningKeys
    /\ AgentCatalogue \subseteq OPERATIONS
    /\ Ahead \in Nat \ {0} /\ MaxSigned \in Nat /\ MaxDamaged \in Nat
    /\ \A order \in Orders : order.validityMs \in Nat

(* Envelopes has what the store may be asked of. *)
ASSUME EnvelopesSuffice ==
    \A order \in Orders, n \in 1..MaxSigned, t \in Ahead..(MaxTime + Ahead) :
        Signable(order) =>
            [id |-> n, issued |-> t, expires |-> t + order.validityMs,
             signed |-> TRUE, here |-> TRUE] \in Envelopes

(* "Deliberately the same rules the agent applies": what one side passes,  *)
(* the other does, whatever the operation and however it is filled in.     *)
ASSUME BothSidesAgree ==
    \A o \in OPERATIONS, label \in DOMAIN Samples, left, extra \in 0..1 :
        LET names == {o.args[i][1] : i \in 1..(Len(o.args) - left)}
                     \cup (IF extra = 1 THEN {"unit"} ELSE {})
            args == [name \in names |-> Samples[label]]
        IN  assertArgumentsMatch(o, args) <=> Validate(o, args)

(* The encoding is injective: two instructions have the same bytes only if *)
(* they are the same.  Of those that may travel here, and of all that are  *)
(* made of a few short texts of two letters.                               *)
ASSUME EncodingIsInjective ==
    /\ IsFiniteSet(Instruction)
    /\ Cardinality({Over(i) : i \in Instruction}) = Cardinality(Instruction)

Short == {<<>>, <<0>>, <<1>>, <<2>>, <<0, 1>>, <<1, 0>>, <<1, 1>>}
Plain(text) == text
Tiny ==
    [operation : Short, targetHostId : {<<>>, <<1>>}, nonce : {1}, issuedAt : {1}, expiresAt : {2},
     arguments : UNION {[names -> {<<>>, <<1>>, <<1, 1>>}] : names \in SUBSET {<<0>>, <<1>>, <<1, 1>>}}]
ASSUME ShortEncodingIsInjective ==
    Cardinality({canonicalBytes(Plain, i) : i \in Tiny}) = Cardinality(Tiny)

VARIABLES
    wire,       \* messages that may be delivered: never, once or again
    holding,    \* the message of each verification, while it has one
    signed,     \* history: the messages the control plane signed
    performed,  \* history: the messages Verify passed to its caller
    late        \* history: a nonce was recorded after its envelope expired

all == <<vars, wire, holding, signed, performed, late>>
world == <<wire, signed, performed, late>>

-----------------------------------------------------------------------------
(* signInstruction.                                                        *)

Sign(order, key) ==
    LET instruction ==
            [operation |-> order.operation, arguments |-> order.arguments,
             targetHostId |-> order.targetHostId,
             nonce |-> Cardinality(signed) + 1,      \* 32 random bytes, never drawn twice
             issuedAt |-> now + Ahead, expiresAt |-> now + Ahead + order.validityMs]
        message ==
            [said |-> instruction, signature |-> [key |-> key, over |-> Over(instruction)],
             keyId |-> key]
    IN  /\ Cardinality(signed) < MaxSigned
        /\ Signable(order)
        /\ wire' = wire \cup {message} /\ signed' = signed \cup {message}
        /\ UNCHANGED <<vars, holding, performed, late>>

(* A copy arrives otherwise than it was sent.                              *)
Changes(i) ==
    {[i EXCEPT !.operation = o.operation, !.arguments = o.arguments] : o \in Orders}
    \cup {[i EXCEPT !.targetHostId = o.targetHostId] : o \in Orders}
    \cup {[i EXCEPT !.expiresAt = MaxTime + Ahead + MaxValidity]}
Damages(m) ==
    {[m EXCEPT !.said = i] : i \in Changes(m.said)}
    \cup {[m EXCEPT !.keyId = k] : k \in SigningKeys}

Damage(m) ==
    /\ Cardinality(wire \ signed) < MaxDamaged
    /\ \E d \in Damages(m) \ wire : wire' = wire \cup {d}
    /\ UNCHANGED <<vars, holding, signed, performed, late>>

-----------------------------------------------------------------------------
(* Verify.                                                                 *)

(* fault: the envelope's own key id selects the key *)
verifySignatureByHint(m) ==
    m.keyId \in AcceptedKeys /\ m.signature.over = Over(m.said)

(* Every accepted key is tried, whatever the envelope says of its key.     *)
verifySignature(m) ==
    \E k \in AcceptedKeys : m.signature = [key |-> k, over |-> Over(m.said)]

EnvelopeOf(m) ==
    [id |-> m.said.nonce, issued |-> m.said.issuedAt, expires |-> m.said.expiresAt,
     signed |-> verifySignature(m), here |-> m.said.targetHostId = Host]

Nothing == [keyId |-> "none"]

(* Shape, signature, target and freshness, against one reading of the clock. *)
Deliver(v, m) ==
    /\ Admit(v, EnvelopeOf(m))
    /\ holding' = [holding EXCEPT ![v] = m]
    /\ UNCHANGED world

Drops(v) == holding' = [holding EXCEPT ![v] = Nothing]

Refuse(v) ==
    /\ RememberReplayed(v) \/ RememberFull(v) \/ AppendFails(v)
    /\ Drops(v)
    /\ UNCHANGED world

(* Only now the catalogue and the arguments: an operation this agent does  *)
(* not have, or refuses, has cost its nonce.                               *)
Accept(v) ==
    LET m == holding[v]
        passes == /\ InCatalogue(m.said.operation, AgentCatalogue)
                  /\ Validate(Lookup(m.said.operation, AgentCatalogue), Values(m.said.arguments))
    IN  /\ Remember(v)
        /\ Drops(v)
        /\ late' = (late \/ verifier[v].expires <= now)
        /\ performed' = IF passes THEN performed \cup {m} ELSE performed
        /\ UNCHANGED <<wire, signed>>

HostRestarts ==
    /\ Restart
    /\ holding' = [v \in Verifiers |-> Nothing]
    /\ UNCHANGED world

TimePasses == Tick /\ UNCHANGED <<world, holding>>

DeliveryInit ==
    /\ Init
    /\ wire = {} /\ signed = {} /\ performed = {}
    /\ holding = [v \in Verifiers |-> Nothing]
    /\ late = FALSE

DeliveryNext ==
    \/ \E order \in Orders, key \in SigningKeys : Sign(order, key)
    \/ \E m \in wire : Damage(m) \/ \E v \in Verifiers : Deliver(v, m)
    \/ \E v \in Verifiers : Refuse(v) \/ Accept(v)
    \/ HostRestarts \/ TimePasses

DeliverySpec == DeliveryInit /\ [][DeliveryNext]_all
-----------------------------------------------------------------------------
(* Properties *)

(* What an agent performs is what the control plane signed, field for field, *)
(* with a key the agent accepts and for this very host, whatever happened  *)
(* on the way (envelope.go 112-118, 268-329): only the key id, which is a  *)
(* hint, may differ.                                                       *)
PerformedWasSigned ==
    \A m \in performed :
        /\ m.said.targetHostId = Host
        /\ \E s \in signed : m.said = s.said /\ s.signature.key \in AcceptedKeys

(* However often it is delivered, and however often the host restarts or    *)
(* fails to write meanwhile, an instruction is accepted once, unless it    *)
(* expired between the two clock readings of a verification (nonces.go     *)
(* 1-40; the exception is what AcceptedOnce of NonceStore is refuted by).  *)
AcceptedAtMostOnce == ~late => AcceptedOnce
=============================================================================
