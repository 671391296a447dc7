---------------------------- MODULE MCKeyRotation ----------------------------
(***************************************************************************)
(* KeyRotation.tla for TLC, in two regimes chosen at the start: commands   *)
(* that overlap, take their time and are forced, for a short while; and    *)
(* one command at a time, for long enough to see several rotations.        *)
(***************************************************************************)
EXTENDS KeyRotation, TLC

CONSTANT ShortTime      \* bound on the clock while commands overlap

VARIABLE regime

InRegime ==
    /\ regime' = regime
    /\ regime = "overlapping" => now' <= ShortTime
    /\ regime = "one" =>
          /\ \A c, d \in Commands : ~Runs(c, "none")' /\ ~Runs(d, "none")' => c = d
          /\ now' # now => Quiet
          /\ OverlapOpen => \A c \in Commands : Runs(c, "unlink")' => Runs(c, "unlink")

InitRegimes == Init /\ regime \in {"overlapping", "one"}
BothRegimes == InitRegimes /\ [][Next /\ InRegime]_<<vars, regime>>

(* OutgoingStaysAccepted, where one command runs at a time                 *)
(* (rotation.ts 236-262: there is no instant at which the outgoing key is  *)
(* not yet recoverable).                                                   *)
OneCommandKeepsOutgoing == regime = "one" => OutgoingStaysAccepted

Symmetry == Permutations(Keys) \cup Permutations(Commands)
=============================================================================
