----------------------------- MODULE MCSessions -----------------------------
(***************************************************************************)
(* Sessions on a small instance for TLC.                                   *)
(***************************************************************************)
EXTENDS Sessions, TLC

CONSTANTS u1, u2, c1

\* A company of which only one of the users is active staff.
MCStaffOf == c1 :> {u1}
MCRoleOf == u1 :> "admin" @@ u2 :> "staff"
MCRequired == {<<"staff", "delete">>, <<"role">>}

Symmetry == Permutations(Caller) \cup Permutations(Jti)
=============================================================================
