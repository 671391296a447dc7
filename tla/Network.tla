------------------------------ MODULE Network ------------------------------
(***************************************************************************)
(* Where the control plane listens and which browsers it answers           *)
(* (src/src/config/network.ts, and the origins and the cookie of           *)
(* src/src/api/csrf.ts).  An address is the text an operator wrote, as far *)
(* as the code tells one from another.                                     *)
(***************************************************************************)
EXTENDS Naturals, FiniteSets

V4(a, b) == [family |-> "v4", a |-> a, b |-> b]
V6(block) == [family |-> "v6", block |-> block]  \* "::1", "fe80", "fc00" or another
Mapped(address) == [family |-> "mapped", inner |-> address]
Named(text) == [family |-> "name", text |-> text]
Everywhere == [family |-> "wildcard"]            \* "", 0.0.0.0, :: or [::]
Localhost == Named("localhost")
Loopback4 == V4(127, 0)
Loopback6 == V6("::1")

V4Class(address) ==
    LET a == address.a
        b == address.b
    IN  CASE a = 127 -> "loopback"
          [] a = 10 \/ (a = 172 /\ b \in 16..31) \/ (a = 192 /\ b = 168) -> "private"
          [] a = 100 /\ b \in 64..127 -> "carrier-grade-nat"
          [] a = 169 /\ b = 254 -> "link-local"
          [] OTHER -> "global"

classifyAddress(address) ==
    CASE address.family = "wildcard" -> "wildcard"
      [] address.family = "v4" -> V4Class(address)
      [] address.family = "mapped" -> V4Class(address.inner)
      [] address.family = "v6" ->
            (CASE address.block = "::1" -> "loopback"
               [] address.block = "fe80" -> "link-local"
               [] address.block = "fc00" -> "unique-local"
               [] OTHER -> "global")
      [] address.family = "name" -> "invalid"

(* interfaces: the addresses of the host that are not internal.            *)
globalInterfaces(interfaces) == {i \in interfaces : classifyAddress(i) = "global"}

assessExposure(bind, interfaces) ==
    LET class == classifyAddress(bind)
    IN  CASE class \in {"invalid", "global"} -> "exposed"
          [] class = "loopback" -> "contained"
          [] class = "wildcard" ->
                IF globalInterfaces(interfaces) = {} THEN "network" ELSE "exposed"
          [] OTHER -> "network"

(* An acknowledgement helps against everything but a text nobody can bind. *)
bindRefusal(bind, interfaces, acknowledged) ==
    LET class == classifyAddress(bind)
    IN  \/ class = "invalid"
        \/ /\ assessExposure(bind, interfaces) = "exposed" \/ class = "wildcard"
           /\ ~acknowledged

-----------------------------------------------------------------------------
(* Origins.  What a browser sends, or an operator wrote, before it is made  *)
(* one of the forms compared; port 0 is the default of the scheme.         *)
Origin(scheme, host, port) == [scheme |-> scheme, host |-> host, port |-> port]

NoOrigin == Origin("none", Everywhere, 0)

normaliseOrigin(raw) ==
    IF raw.scheme \notin {"http", "https"} \/ raw.host = Everywhere THEN NoOrigin
    ELSE IF raw.port = (IF raw.scheme = "https" THEN 443 ELSE 80) THEN [raw EXCEPT !.port = 0]
    ELSE raw

isLoopbackOrigin(origin) ==
    origin.host = Localhost \/ classifyAddress(origin.host) = "loopback"

defaultTrustedOrigins(bind, port) ==
    IF classifyAddress(bind) \in {"loopback", "wildcard"}
    THEN {Origin("http", h, port) : h \in {Localhost, Loopback4, Loopback6}}
    ELSE {Origin("http", bind, port)}

(* declared: the candidates in RATLINE_PUBLIC_ORIGIN; one that is none       *)
(* refuses the start.                                                      *)
OriginRefusal(declared) == \E raw \in declared : normaliseOrigin(raw) = NoOrigin

resolveTrustedOrigins(declared, bind, port) ==
    {normaliseOrigin(raw) :
        raw \in IF declared = {} THEN defaultTrustedOrigins(bind, port) ELSE declared}

(* The session cookie: its name, whether it is Secure, and whether boot warns. *)
Cookie(name, secure, warning) == [name |-> name, secure |-> secure, warning |-> warning]

cookiePolicy(trusted, acknowledged) ==
    IF acknowledged THEN Cookie("rl_session", FALSE, TRUE)
    ELSE IF trusted = {} THEN Cookie("rl_session", TRUE, TRUE)
    ELSE IF \E o \in trusted : o.scheme = "http" /\ ~isLoopbackOrigin(o)
         THEN Cookie("rl_session", TRUE, TRUE)
    ELSE IF \A o \in trusted : o.scheme = "https"
         THEN Cookie("__Host-rl_session", TRUE, FALSE)
    ELSE Cookie("rl_session", TRUE, FALSE)

(* What a browser does with the answer: a Secure cookie set over cleartext  *)
(* is dropped, except that it trusts its own machine.                      *)
Stores(policy, visited) ==
    ~policy.secure \/ visited.scheme = "https" \/ isLoopbackOrigin(visited)
=============================================================================
