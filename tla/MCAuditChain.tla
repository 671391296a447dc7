---------------------------- MODULE MCAuditChain ----------------------------
(***************************************************************************)
(* AuditChain.tla for TLC.                                                 *)
(***************************************************************************)
EXTENDS AuditChain

Symmetry == Permutations(Processes)
=============================================================================
