---------------------------- MODULE Instructions ----------------------------
(***************************************************************************)
(* What an instruction to an agent may be: the operation catalogue         *)
(* (src/src/agent/catalogue.ts, generated for the agent as                 *)
(* catalogue_gen.go), the rules each side applies to the arguments         *)
(* (assertArgumentsMatch of src/src/agent/envelope.ts before it signs,     *)
(* Validate of src/agent/internal/protocol/validate.go after it has        *)
(* verified), and the bytes a signature covers (canonicalBytes of both).   *)
(*                                                                         *)
(* The two sides share no code: each is translated from its own, and       *)
(* BothSidesAgree compares them.  A value is known by what the rules can   *)
(* tell of it: how long it is, which patterns it matches, and which word   *)
(* or number it spells.                                                    *)
(***************************************************************************)
EXTENDS Integers, Sequences, FiniteSets, SequencesExt

Value(bytes, matches, word) ==
    [bytes |-> bytes, matches |-> matches, word |-> word, number |-> -1, utf8 |-> TRUE]
Decimal(bytes, n) == [Value(bytes, {}, "") EXCEPT !.number = n]
NoValue == Value(0, {}, "")

-----------------------------------------------------------------------------
(* ARGUMENT_KINDS.  maxBytes 0: there is no limit.                         *)

Kind(goType, maxBytes) ==
    [goType |-> goType, maxBytes |-> maxBytes, pattern |-> FALSE, oneOf |-> {},
     validator |-> FALSE, min |-> 0, max |-> 0]
Pattern(maxBytes) == [Kind("string", maxBytes) EXCEPT !.pattern = TRUE]
OneOf(words) == [Kind("string", 16) EXCEPT !.oneOf = words]
Content(maxBytes) == [Kind("string", maxBytes) EXCEPT !.validator = TRUE]

ARGUMENT_KINDS ==
    [site_slug |-> Pattern(32), service_id |-> Pattern(50), package_name |-> Pattern(64),
     path_in_site |-> Pattern(255),
     port |-> [Kind("int64", 0) EXCEPT !.min = 1, !.max = 65535],
     runtime |-> OneOf({"node", "python", "static", "php", "ruby"}),
     service_action |-> OneOf({"start", "stop", "restart", "reload"}),
     enabled |-> Kind("bool", 0),
     unit_file |-> Content(16384), webserver_config |-> Content(65536),
     sudoers_fragment |-> Content(4096), certificate_pem |-> Content(32768),
     private_key_pem |-> Content(16384)]

(* OPERATIONS: who performs each, and its arguments, in order.             *)
Operation(name, performer, args) == [name |-> name, performer |-> performer, args |-> args]
slug == <<"slug", "site_slug">>
service == <<"service", "service_id">>

OPERATIONS ==
    {Operation("host.inventory.collect", "agent", <<>>),
     Operation("host.health.report", "agent", <<>>),
     Operation("site.user.create", "privd", <<slug>>),
     Operation("site.user.remove", "privd", <<slug>>),
     Operation("site.file.write", "agent", <<slug, <<"path", "path_in_site">>>>),
     Operation("service.unit.install", "privd", <<service, <<"unit", "unit_file">>>>),
     Operation("service.control", "privd", <<service, <<"action", "service_action">>>>),
     Operation("service.enable", "privd", <<service, <<"enabled", "enabled">>>>),
     Operation("webserver.config.install", "privd", <<slug, <<"config", "webserver_config">>>>),
     Operation("webserver.certificate.install", "privd",
               <<slug, <<"certificate", "certificate_pem">>, <<"key", "private_key_pem">>>>),
     Operation("package.install", "privd", <<<<"package", "package_name">>>>),
     Operation("sudoers.fragment.install", "privd", <<slug, <<"fragment", "sudoers_fragment">>>>),
     Operation("runtime.provision", "privd", <<<<"runtime", "runtime">>, <<"port", "port">>>>)}

InCatalogue(name, catalogue) == \E o \in catalogue : o.name = name
Lookup(name, catalogue) == CHOOSE o \in catalogue : o.name = name
ArgumentsOf(o) == {o.args[i][1] : i \in 1..Len(o.args)}

-----------------------------------------------------------------------------
(* The control plane's rules, in the order they are asked.                 *)

TooLong(kind, value) == kind.maxBytes > 0 /\ value.bytes > kind.maxBytes

MatchesKind(name, value) ==
    LET kind == ARGUMENT_KINDS[name]
    IN  /\ ~TooLong(kind, value)
        /\ CASE kind.oneOf # {} -> value.word \in kind.oneOf
             [] kind.oneOf = {} /\ kind.pattern -> name \in value.matches
             [] kind.goType = "int64" -> value.number >= 0 /\ value.number \in kind.min..kind.max
             [] kind.goType = "bool" -> value.word \in {"true", "false"}
             [] kind.validator -> value.bytes > 0

assertArgumentsMatch(o, args) ==
    /\ DOMAIN args \subseteq ArgumentsOf(o)
    /\ \A i \in 1..Len(o.args) :
          LET name == o.args[i][1]
          IN  name \in DOMAIN args /\ MatchesKind(o.args[i][2], args[name])

(* The agent's rules.                                                      *)
MaxDecimal == 2^30    \* 1 << 32 in the code: like this, above every kind's max

validateString(name, kind, value) ==
    \/ kind.oneOf # {} /\ value.word \in kind.oneOf
    \/ kind.oneOf = {} /\ kind.pattern /\ name \in value.matches
    \/ kind.oneOf = {} /\ ~kind.pattern /\ kind.validator /\ value.bytes > 0

validateNumber(kind, value) ==
    /\ value.number >= 0 /\ value.number <= MaxDecimal
    /\ kind.max > 0 => kind.min <= value.number /\ value.number <= kind.max

validateValue(name, value) ==
    LET kind == ARGUMENT_KINDS[name]
    IN  /\ ~TooLong(kind, value)
        /\ value.utf8
        /\ \/ kind.goType = "string" /\ validateString(name, kind, value)
           \/ kind.goType = "int64" /\ validateNumber(kind, value)
           \/ kind.goType = "bool" /\ value.word \in {"true", "false"}

Validate(o, args) ==
    /\ \A name \in DOMAIN args : name \in ArgumentsOf(o)
    /\ \A i \in 1..Len(o.args) :
          o.args[i][1] \in DOMAIN args /\ validateValue(o.args[i][2], args[o.args[i][1]])

-----------------------------------------------------------------------------
(* The bytes a signature covers: every text behind its length, the stamps  *)
(* and the nonce at their fixed width (a symbol each), the arguments       *)
(* counted and sorted.  bytesOf is the encoding of a text.                 *)

field(bytes) == <<Len(bytes)>> \o bytes

(* sort.Strings, and the default comparator of an array, over these names. *)
Before(s, t) ==
    \E i \in 0..Len(s) :
        /\ i < Len(t) /\ SubSeq(s, 1, i) = SubSeq(t, 1, i)
        /\ i = Len(s) \/ s[i + 1] < t[i + 1]

canonicalBytes(bytesOf(_), instruction) ==
    LET args == instruction.arguments
        names == SetToSortSeq(DOMAIN args, LAMBDA a, b : Before(bytesOf(a), bytesOf(b)))
    IN  field(bytesOf(instruction.operation)) \o field(bytesOf(instruction.targetHostId))
        \o <<instruction.nonce, instruction.issuedAt, instruction.expiresAt, Len(names)>>
        \o FlattenSeq([i \in 1..Len(names) |->
               field(bytesOf(names[i])) \o field(bytesOf(args[names[i]]))])
=============================================================================
