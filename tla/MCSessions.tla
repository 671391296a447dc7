---------------------------- MODULE MCSessions ----------------------------
(***************************************************************************)
(* Sessions.tla for TLC.  The cfgs give people, identifiers and requests   *)
(* model values; all three are interchangeable.  Of two regimes one is     *)
(* chosen at the start: time passes, and grants, memberships and passwords *)
(* stay; or time stands still and these change, under sign-ins, rotations  *)
(* and revocations of everything.                                          *)
(***************************************************************************)
EXTENDS Sessions, TLC

VARIABLE regime

InRegime ==
    /\ regime' = regime
    /\ regime = "time" =>
          /\ grants' = grants /\ standing' = standing
          /\ \A r \in Requests : req'[r].pc \notin
                {"ownReady", "ownEnd", "ownWrite", "resetWrite", "resetRevoke"}
    /\ regime = "changes" =>
          /\ now' = now
          /\ \A r \in Requests : req'[r].pc \in
                {"idle", "signInStart", "rotateEnd", "authenticated", "ownReady",
                 "ownEnd", "ownWrite", "allReady", "allEnd", "resetWrite",
                 "resetRevoke"}

InitRegimes == Init /\ regime \in {"time", "changes"}
BothRegimes == InitRegimes /\ [][Next /\ InRegime]_<<vars, regime>>

Symmetry == Permutations(Users) \cup Permutations(Sids) \cup Permutations(Requests)

(* Every built-in role that carries member.reset_password also carries     *)
(* member.revoke_sessions.                                                 *)
AllOrNothing == {{}, Actions}
=============================================================================
