---------------------------- MODULE ProviderCall ----------------------------
(***************************************************************************)
(* What one HTTP exchange with the external provider can look like from    *)
(* inside the bank, and how the bank classifies it.  The constant-level    *)
(* vocabulary shared by the purchase flow and by the reconciler; it has no *)
(* state of its own.                                                       *)
(***************************************************************************)
EXTENDS Naturals

(***************************************************************************)
(* The answers of one attempt.  200 with status APPROVED, 200 with another *)
(* status, 200 whose body cannot be read or parsed, 4xx with a REJECTED    *)
(* body, any other 4xx, 5xx or 429, a client timeout, a transport error.   *)
(***************************************************************************)
Reply == {"approved", "other200", "garbled200", "rejected4xx",
          "other4xx", "unavailable", "timeout", "neterr"}

\* requestor.executeWithRetry goes round its loop again on these.
Retryable(reply) == reply \in {"unavailable", "timeout", "neterr"}

\* ProviderRepository.Post returns a response and a nil error.
PostSucceeds(reply) == reply \in {"approved", "other200"}

\* Plausible slip: any 200 counts as an execution.
MapProviderStatusLoose(reply) == "EXECUTED"

MapProviderStatus(reply) == IF reply = "approved" THEN "EXECUTED" ELSE "REJECTED"

(***************************************************************************)
(* The status Purchase gives its row.  An error of Post is FAILED unless   *)
(* it is a timeout (PENDING) or an errs.ErrValue, which only a 4xx body    *)
(* with status REJECTED produces.                                          *)
(***************************************************************************)
RowStatus(reply) ==
    CASE PostSucceeds(reply)    -> MapProviderStatus(reply)
      [] reply = "timeout"      -> "PENDING"
      [] reply = "rejected4xx"  -> "REJECTED"
      [] OTHER                  -> "FAILED"

Status == {"EXECUTED", "REJECTED", "PENDING", "FAILED"}

(***************************************************************************)
(* The money the provider may have moved in an attempt that ends like      *)
(* this: always when it says so, never when it refuses, and unknown when   *)
(* its answer was lost or it failed half way.                              *)
(***************************************************************************)
Charged(reply) ==
    CASE reply = "approved"                                -> {1}
      [] reply \in {"other200", "rejected4xx", "other4xx"} -> {0}
      [] OTHER                                             -> {0, 1}
=============================================================================
