--------------------------- MODULE MCPoolManager ---------------------------
(***************************************************************************)
(* PoolManager on small instances for TLC.                                 *)
(***************************************************************************)
EXTENDS PoolManager

CONSTANTS p1, p2, p3, s1
=============================================================================
