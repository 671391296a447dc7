---------------------------- MODULE MCTwoFactor ----------------------------
(***************************************************************************)
(* TwoFactor.tla for TLC, in two regimes chosen at the start: requests     *)
(* that overlap and die, under a policy and a membership that stay; and    *)
(* one request at a time that does not die, under a policy and a           *)
(* membership that change.                                                 *)
(* The sessions a reset ends are checked in the second: an overlap leaves  *)
(* one (refuted_twofactor.cfg).                                            *)
(***************************************************************************)
EXTENDS TwoFactor, TLC

CONSTANTS
    ShortTime,      \* bound on the clock while requests overlap
    FewSids         \* bound on the sessions started while requests overlap

VARIABLE regime

Issued == {s \in Sids : session[s].state # "unissued"}

(* A request that gives up changes nothing but itself, as one that dies.   *)
GivesUp(r) ==
    IssueChallenge(r) \/ Mint(r) \/ Redeem(r) \/ SpendRefused(r) \/ ConfirmRefused(r)

InRegime ==
    /\ regime' = regime
    /\ regime = "overlapping" =>
          /\ policy' = policy /\ members' = members
          /\ now' <= ShortTime
          /\ Cardinality(Issued') <= FewSids
    /\ regime = "one" =>
          /\ \A q, r \in Requests : ~At(q, "idle")' /\ ~At(r, "idle")' => q = r
          /\ \A r \in Requests : Crash(r) => GivesUp(r)

InitRegimes == Init /\ regime \in {"overlapping", "one"}
BothRegimes == InitRegimes /\ [][Next /\ InRegime]_<<vars, regime>>

Symmetry == Permutations(Users) \cup Permutations(Challenges)
            \cup Permutations(Sids) \cup Permutations(Requests)

-----------------------------------------------------------------------------
(* ResetEndsItsSessions of one request at a time (auth/two_factor.ts        *)
(* 664-666).                                                                *)
OneRequestResetEndsSessions == regime = "one" => ResetEndsItsSessions
=============================================================================
