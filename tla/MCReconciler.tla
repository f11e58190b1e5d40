---------------------------- MODULE MCReconciler ----------------------------
(***************************************************************************)
(* Reconciler on small instances for TLC.                                  *)
(***************************************************************************)
EXTENDS Reconciler

CONSTANTS acc

MCAccountOf == [t \in Tx |-> acc]
=============================================================================
