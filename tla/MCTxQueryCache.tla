--------------------------- MODULE MCTxQueryCache ---------------------------
(***************************************************************************)
(* TxQueryCache on small instances for TLC.                                *)
(***************************************************************************)
EXTENDS TxQueryCache

CONSTANTS a1, a2, c1, c2, c3, r1, r2, r3

\* c3 is a purchase of another account: it may be the newest row.
MCAccountOf == [c \in Change |-> IF c = c3 THEN a2 ELSE a1]

\* r3 wants the transactions of all accounts, the others those of a1.
MCListOf == [r \in Reader |-> IF r = r3 THEN None ELSE a1]
=============================================================================
