---------------------------- MODULE MCCallChain ----------------------------
(***************************************************************************)
(* CallChain with the timeouts of the code, for TLC.                       *)
(***************************************************************************)
EXTENDS CallChain
=============================================================================
