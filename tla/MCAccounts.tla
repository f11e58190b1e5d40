----------------------------- MODULE MCAccounts -----------------------------
(***************************************************************************)
(* Accounts on a small instance for TLC: two sign-ups and a login of one   *)
(* email, with two passwords, and a sign-up of another email.              *)
(***************************************************************************)
EXTENDS Accounts

CONSTANTS s1, s2, s3, l1, p1, p2, mine, other

MCEmailOf == [r \in {s1, s2, s3, l1} |-> IF r = s3 THEN other ELSE mine]

MCPasswordOf == [r \in {s1, s2, s3, l1} |-> IF r \in {s2, s3} THEN p2 ELSE p1]
=============================================================================
