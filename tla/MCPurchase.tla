----------------------------- MODULE MCPurchase -----------------------------
(***************************************************************************)
(* Purchase on small instances for TLC.                                    *)
(***************************************************************************)
EXTENDS Purchase

CONSTANTS r1, r2, r3, k1, acc

MCBody(type, amount, account) ==
    [currency |-> "MXN", amount |-> amount, type |-> type, account |-> account]

\* r1 and r2 are one client that retries under one key; r3 has no header.
MCHeader == [r \in Req |-> IF r = r3 THEN None ELSE k1]

\* r3 is not JSON.
MCBodies ==
    [r \in Req |-> IF r = r3 THEN Malformed ELSE MCBody("DEBIT", 10000000, acc)]

\* r2 breaks the rule on the amount of a DEBIT.
MCMixedBodies ==
    [r \in Req |-> CASE r = r1 -> MCBody("CREDIT", 10000001, acc)
                     [] r = r2 -> MCBody("DEBIT", 10000001, acc)
                     [] OTHER  -> Malformed]
=============================================================================
