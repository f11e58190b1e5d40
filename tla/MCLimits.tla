------------------------------ MODULE MCLimits ------------------------------
(***************************************************************************)
(* Limits on a small instance for TLC.                                     *)
(***************************************************************************)
EXTENDS Limits, TLC

Symmetry == Permutations(Request)
=============================================================================
