------------------------------ MODULE MCStartup ------------------------------
(***************************************************************************)
(* Startup.tla for TLC: two processes, two builds of three migrations.     *)
(***************************************************************************)
EXTENDS Startup

(* The third migration stands on its own, so a gap before it can happen;    *)
(* the edited build rewrote the second.                                     *)
Independent == {<<2, 1>>}
Releases == {"edited", "new"}
Sums == [edited |-> <<1, 2, 0>>,
         new    |-> <<1, 1, 1>>]

(* A loopback bind that is allowed, and a global one that is not.           *)
Contained == [bind |-> Loopback4, interfaces |-> {}, acknowledged |-> FALSE]
Binds == {Contained, [Contained EXCEPT !.bind = V4(8, 8)]}
OneSecret == <<"kek">>
=============================================================================
