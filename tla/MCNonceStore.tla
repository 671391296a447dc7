---------------------------- MODULE MCNonceStore ----------------------------
(***************************************************************************)
(* NonceStore.tla for TLC: envelopes that overlap in time, and some that   *)
(* Verify must refuse.                                                     *)
(***************************************************************************)
EXTENDS NonceStore, TLC

Good(id, issued, expires) ==
    [id |-> id, issued |-> issued, expires |-> expires,
     signed |-> TRUE, here |-> TRUE]

(* Three that live in turn and one of each kind that is refused.            *)
Mixed == {Good(1, 1, 3), Good(2, 1, 4), Good(3, 2, 5),
          [Good(4, 1, 4) EXCEPT !.signed = FALSE],
          [Good(5, 1, 4) EXCEPT !.here = FALSE],
          Good(6, 1, 9), Good(7, 4, 4)}

(* One after the other.                                                     *)
Stream == {Good(1, 1, 2), Good(2, 2, 3), Good(3, 3, 4), Good(4, 4, 5), Good(5, 5, 6)}

Pair == {Good(1, 1, 3), Good(2, 1, 4)}

Symmetry == Permutations(Verifiers)
=============================================================================
