----------------------------- MODULE MCRateLimit -----------------------------
(***************************************************************************)
(* RateLimit.tla for TLC.                                                  *)
(***************************************************************************)
EXTENDS RateLimit, TLC

(* One attempt per account and window, two per address.                    *)
Tight == [b \in Buckets |-> IF b \in Accounts THEN 1 ELSE 2]

Symmetry == Permutations(Transactions) \cup Permutations(Accounts) \cup Permutations(Addresses)
=============================================================================
