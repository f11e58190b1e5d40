------------------------------ MODULE CallChain ------------------------------
(***************************************************************************)
(* One POST /api/v1/transactions on its way through the system, on a clock: *)
(* the gateway signs and sends it and gives up after its client timeout,   *)
(* the transactions service checks the age of the signature, locks the key *)
(* for a while, asks the users service and then the provider, each through *)
(* requestor's retries with their timeouts and backoff, and saves the row. *)
(*                                                                         *)
(* Purchase leaves time out and assumes that no request outlives its lock. *)
(* This module derives that from the timeouts, and says what else they do. *)
(* A step says when it starts how long it is going to take (due); what     *)
(* comes of it is settled when that moment is reached.  The services run   *)
(* on one host and share its clock.                                        *)
(***************************************************************************)
EXTENDS ProviderCall

CONSTANTS
    None,            \* an absent value
    Second,          \* ticks of the clock in a second
    Patience,        \* timeout of the gateway's client (30 s)
    Leaves,          \* when callers may leave: at Patience, or earlier if they die
    CallTimeout,     \* timeout of the users and provider clients (10 s)
    Backoff,         \* the first pause of requestor (200 ms)
    MaxRetries,      \* retries after the first attempt (3)
    Tolerance,       \* age at which Sigil refuses a signature (30 s)
    LockTTL,         \* life of the lock (1 minute)
    Grace,           \* the longest a command to Redis or Postgres takes
    Durations,       \* how long a step may take
    Replies          \* the provider answers considered

ASSUME TimesAssumption ==
    /\ {Second, CallTimeout, Backoff} \subseteq Nat \ {0}
    /\ {Patience, MaxRetries, Tolerance, LockTTL, Grace} \subseteq Nat
ASSUME LeavesAssumption == Leaves \subseteq 0 .. Patience
ASSUME DurationsAssumption == Durations \subseteq Nat
ASSUME RepliesAssumption == Replies \subseteq Reply

VARIABLES
    now,        \* the clock, in ticks
    pc,         \* the step under way
    started,    \* when it started
    due,        \* when it will be through, unless the context ends it
    sent,       \* when the gateway signed and sent the request
    gone,       \* when the caller leaves: the context of the handler is done
    noticed,    \* the handler has found its context done
    stamp,      \* the timestamp header of the last signed request
    lockedAt,   \* when Redis set the lock, None if there is none
    callee,     \* whom requestor is calling
    attempt,    \* attempts made, by callee
    hung,       \* how many of them timed out, by callee
    pause,      \* requestor's next backoff
    expired,    \* history: who refused the signature for its age, and when
    reply,      \* the last answer of the provider
    row,        \* Postgres: the status of the row
    left,       \* what a saved purchase leaves: goroutines, the stored answer
    answer      \* what the handler answers: a status code

callVars == <<callee, attempt, hung, pause>>
vars == <<now, pc, started, due, sent, gone, noticed, stamp, lockedAt, callVars,
          expired, reply, row, left, answer>>

Callee == {"users", "provider"}
Stores == {"get", "lock", "save", "cache"}
Calling == {"loop", "exchange", "sleep"}
Critical == Calling \cup {"save", "cache", "unlock"}

\* The request as Purchase sees it: a deposit of two pesos.
Me == "request"
Deposit == [currency |-> "MXN", amount |-> 2000, type |-> "CREDIT", account |-> "account"]

ASSUME NoneAssumption ==
    None \notin Nat \cup Reply \cup Status \cup Callee \cup {Deposit, Deposit.account}

(***************************************************************************)
(* What requestor sees of the users service: 200, 404, a 401 of its        *)
(* Sigil middleware, a body that does not come, 5xx or 429, a timeout, a   *)
(* transport error.                                                        *)
(***************************************************************************)
UsersReply == {"known", "missing", "refused", "stalled",
               "unavailable", "timeout", "neterr"}

\* SignRequest: Unix seconds, the fraction cut off.
Timestamp(t) == t - (t % Second)

\* Plausible slip: the age is counted in whole seconds, rounded up.
FreshInSeconds(t) == (t - stamp) + Second <= Tolerance

\* VerifyRequest's test of the age.
Fresh(t) == t - stamp <= Tolerance

Expire(who) == expired' = [by |-> who, at |-> now]

\* The lock key exists: SETNX gave it LockTTL.
Locked == lockedAt # None /\ now < lockedAt + LockTTL

Init ==
    /\ now \in 0 .. Second - 1
    /\ pc = "sent"
    /\ started = now
    /\ due \in {now + d : d \in Durations}
    /\ sent = now
    /\ gone \in {now + p : p \in Leaves}
    /\ noticed = FALSE
    /\ stamp = Timestamp(now)
    /\ lockedAt = None
    /\ callee = "users"
    /\ attempt = [c \in Callee |-> 0]
    /\ hung = [c \in Callee |-> 0]
    /\ pause = Backoff
    /\ expired = None
    /\ reply = None
    /\ row = None
    /\ left = {}
    /\ answer = None

-----------------------------------------------------------------------------
\* Go on at l at once, or with something that takes at most limit.
At(l) == pc' = l /\ started' = now /\ due' = now
For(l, limit) ==
    /\ pc' = l
    /\ started' = now
    /\ \E d \in Durations : d <= limit /\ due' = now + d

Answer(code) == answer' = code

\* The handler returns.  A lock it leaves behind lives on.
End ==
    /\ pc' = "done"
    /\ started' = now
    /\ due' = IF lockedAt' # None THEN lockedAt' + LockTTL ELSE now

\* Plausible slip: from the provider's call on a context without cancellation.
ContextDoneDetached ==
    \/ pc \in {"get", "lock"} /\ gone <= started
    \/ pc \in Calling /\ callee = "users" /\ gone <= now

(***************************************************************************)
(* Where the context being done stops the handler: a command to Redis or   *)
(* Postgres looks at it before it starts, and then runs to its end; an     *)
(* HTTP exchange and the pauses between attempts end at once.              *)
(***************************************************************************)
ContextDone ==
    \/ pc \in Stores /\ gone <= started
    \/ pc \in Calling /\ gone <= now

Through == now = due /\ ~ContextDone

Upcoming ==
    {t \in {due, gone} \cup (IF Locked THEN {lockedAt + LockTTL} ELSE {}) : t > now}

\* Time passes, up to the next moment at which something can happen.
Pass ==
    /\ now < due
    /\ ~ContextDone
    /\ pc = "sent" => now < gone
    /\ now' \in Upcoming
    /\ \A t \in Upcoming : now' <= t
    /\ UNCHANGED <<pc, started, due, sent, gone, noticed, stamp, lockedAt, callVars,
                   expired, reply, row, left, answer>>

Notice ==
    /\ ContextDone
    /\ ~noticed
    /\ noticed' = TRUE
    /\ UNCHANGED <<now, pc, started, due, sent, gone, stamp, lockedAt, callVars,
                   expired, reply, row, left, answer>>

(***************************************************************************)
(* proxyRequest and NewSigilVerifier: the request waits for one of the     *)
(* gateway's connections, and reaches the service before the gateway gives *)
(* up, or never.  The age of its signature is that of the whole wait.      *)
(***************************************************************************)
Deliver ==
    /\ pc = "sent" /\ now = due /\ now < gone
    /\ \/ Fresh(now) /\ For("get", Grace) /\ UNCHANGED <<expired, answer>>
       \/ ~Fresh(now) /\ Expire("transactions") /\ Answer(401) /\ At("refused")
    /\ UNCHANGED <<now, sent, gone, noticed, stamp, lockedAt, callVars, reply, row, left>>

GiveUp ==
    /\ pc = "sent" /\ gone <= now
    /\ At("lost")
    /\ UNCHANGED <<now, sent, gone, noticed, stamp, lockedAt, callVars, expired,
                   reply, row, left, answer>>

\* The look-up of the idempotency key, which this request does not find.
Get ==
    /\ pc = "get"
    /\ \/ Through /\ For("lock", Grace) /\ UNCHANGED answer
       \/ (Through \/ noticed) /\ Answer(500) /\ At("done")
    /\ UNCHANGED <<now, sent, gone, noticed, stamp, lockedAt, callVars, expired,
                   reply, row, left>>

\* A call of requestor: no attempt made, the first pause still to come.
Call(c) ==
    /\ callee' = c
    /\ pause' = Backoff
    /\ At("loop")

(***************************************************************************)
(* SETNX, and then ValidateUser, which signs its request once for all      *)
(* attempts.  The lock's minute starts when Redis sets it, which may be as *)
(* early as the start of the command.                                      *)
(***************************************************************************)
Lock ==
    /\ pc = "lock"
    /\ \/ /\ Through
          /\ lockedAt' = started
          /\ \/ /\ Call("users")
                /\ stamp' = Timestamp(now)
                /\ UNCHANGED answer
             \/ \* the reply of SETNX is lost
                \E code \in {409, 500} :
                    Answer(code) /\ End /\ UNCHANGED <<callee, pause, stamp>>
       \/ /\ Through \/ noticed
          /\ Answer(500) /\ At("done")
          /\ UNCHANGED <<callee, pause, stamp, lockedAt>>
    /\ UNCHANGED <<now, sent, gone, noticed, attempt, hung, expired, reply, row, left>>

-----------------------------------------------------------------------------
(***************************************************************************)
(* requestor.executeWithRetry.  One attempt lasts at most CallTimeout and  *)
(* has timed out if it lasts that long.                                    *)
(***************************************************************************)
Attempt ==
    /\ pc = "loop"
    /\ ~ContextDone
    /\ pc' = "exchange"
    /\ started' = now
    /\ due' \in {now + d : d \in {x \in Durations : x < CallTimeout} \cup {CallTimeout}}
    /\ UNCHANGED <<now, sent, gone, noticed, stamp, lockedAt, callVars, expired,
                   reply, row, left, answer>>

Lasted == due - started

\* No answer in time.  A body that stops half way is not a timeout to requestor.
MayBe(p) ==
    /\ p = "timeout" => Lasted = CallTimeout
    /\ Lasted = CallTimeout => p \in {"timeout", "stalled", "garbled200"}

\* The attempt that ends with p is counted.
Count(p) ==
    /\ attempt' = [attempt EXCEPT ![callee] = @ + 1]
    /\ hung' = [hung EXCEPT ![callee] = IF p = "timeout" THEN @ + 1 ELSE @]

\* Plausible slip: the loop goes round once too often.
MayRetryOnceMore == attempt[callee] <= MaxRetries

MayRetry == attempt[callee] < MaxRetries

\* sleep: wait, and double the pause.
Again == pc' = "sleep" /\ started' = now /\ due' = now + pause /\ pause' = 2 * pause

WakeUp ==
    /\ pc = "sleep" /\ Through
    /\ At("loop")
    /\ UNCHANGED <<now, sent, gone, noticed, stamp, lockedAt, callVars, expired,
                   reply, row, left, answer>>

\* ValidateUser's verdict on a final answer other than 200, as RestCode has it.
UsersRefusal(p) ==
    CASE p = "missing"                   -> 400
      [] p \in {"unavailable", "neterr"} -> 503
      [] OTHER                           -> 500

(***************************************************************************)
(* The users service checks the signature at some moment of the exchange:  *)
(* it can be accepted if it is fresh at the start, and refused if it is    *)
(* too old at the end.                                                     *)
(***************************************************************************)
UsersAnswer ==
    /\ pc = "exchange" /\ callee = "users" /\ Through
    /\ \E p \in UsersReply :
        /\ MayBe(p)
        /\ p \in {"known", "missing"} => Fresh(started)
        /\ p = "refused" => ~Fresh(now)
        /\ Count(p)
        /\ IF p = "refused" THEN Expire("users") ELSE UNCHANGED expired
        /\ \/ /\ p = "known"
              /\ Call("provider")
              /\ UNCHANGED answer
           \/ /\ Retryable(p) /\ MayRetry
              /\ Again
              /\ UNCHANGED <<callee, answer>>
           \/ /\ p # "known" /\ ~(Retryable(p) /\ MayRetry)
              /\ Answer(UsersRefusal(p))
              /\ For("unlock", Grace)
              /\ UNCHANGED <<callee, pause>>
    /\ UNCHANGED <<now, sent, gone, noticed, stamp, lockedAt, reply, row, left>>

ProviderAnswer ==
    /\ pc = "exchange" /\ callee = "provider" /\ Through
    /\ \E p \in Replies :
        /\ MayBe(p)
        /\ Count(p)
        /\ reply' = p
        /\ IF Retryable(p) /\ MayRetry
           THEN Again
           ELSE For("save", Grace) /\ UNCHANGED pause
    /\ UNCHANGED <<now, sent, gone, noticed, stamp, lockedAt, callee, expired,
                   row, left, answer>>

(***************************************************************************)
(* The context is done: the exchange or the pause ends, and requestor      *)
(* gives back context.Canceled, which is not a timeout, or a 503 if it was *)
(* in its last attempt.                                                    *)
(***************************************************************************)
Interrupted ==
    /\ pc \in Calling
    /\ noticed
    /\ IF callee = "users"
       THEN /\ \E code \in {500, 503} : Answer(code)
            /\ For("unlock", Grace)
            /\ UNCHANGED reply
       ELSE /\ reply' = "neterr"
            /\ For("save", Grace)
            /\ UNCHANGED answer
    /\ UNCHANGED <<now, sent, gone, noticed, stamp, lockedAt, callVars, expired,
                   row, left>>

-----------------------------------------------------------------------------
(***************************************************************************)
(* The row, and then either its answer in the idempotency store or the     *)
(* answer to a provider that failed.  An INSERT may fail, or be committed  *)
(* without the handler hearing of it; not at all once the context is done. *)
(***************************************************************************)
Save ==
    /\ pc = "save"
    /\ \/ /\ Through
          /\ row' = RowStatus(reply)
          /\ IF PostSucceeds(reply)
             THEN For("cache", Grace) /\ left' = {"tasks"} /\ UNCHANGED answer
             ELSE /\ Answer(IF RowStatus(reply) = "REJECTED" THEN 201 ELSE 503)
                  /\ For("unlock", Grace)
                  /\ UNCHANGED left
       \/ /\ Through \/ noticed
          /\ UNCHANGED row \/ (Through /\ row' = RowStatus(reply))
          /\ Answer(500)
          /\ For("unlock", Grace)
          /\ UNCHANGED left
    /\ UNCHANGED <<now, sent, gone, noticed, stamp, lockedAt, callVars, expired, reply>>

CacheResponse ==
    /\ pc = "cache"
    /\ \/ Through /\ left' = left \cup {"answer"} /\ Answer(201)
       \/ /\ Through \/ noticed
          /\ left' = left \/ (Through /\ left' = left \cup {"answer"})
          /\ Answer(500)
    /\ For("unlock", Grace)
    /\ UNCHANGED <<now, sent, gone, noticed, stamp, lockedAt, callVars, expired,
                   reply, row>>

\* The DEL, with a context of its own.  It may fail.
Unlock ==
    /\ pc = "unlock" /\ now = due
    /\ lockedAt' \in {None, lockedAt}
    /\ End
    /\ UNCHANGED <<now, sent, gone, noticed, stamp, callVars, expired, reply, row, left,
                   answer>>

Next ==
    \/ Pass \/ Notice
    \/ Deliver \/ GiveUp \/ Get \/ Lock
    \/ Attempt \/ WakeUp \/ UsersAnswer \/ ProviderAnswer \/ Interrupted
    \/ Save \/ CacheResponse \/ Unlock

Spec == Init /\ [][Next]_vars

-----------------------------------------------------------------------------
TypeOK ==
    /\ {now, started, due, sent, gone, stamp, pause} \subseteq Nat
    /\ pc \in {"sent", "lost", "refused", "unlock", "done"} \cup Stores \cup Calling
    /\ noticed \in BOOLEAN
    /\ lockedAt \in Nat \cup {None}
    /\ callee \in Callee
    /\ attempt \in [Callee -> 0 .. MaxRetries + 1]
    /\ hung \in [Callee -> 0 .. MaxRetries + 1]
    /\ expired \in {None} \cup [by : {"users", "transactions"}, at : Nat]
    /\ reply \in Reply \cup {None}
    /\ row \in Status \cup {None}
    /\ left \subseteq {"tasks", "answer"}
    /\ answer \in {None, 201, 400, 401, 409, 500, 503}

(***************************************************************************)
(* No request outlives its lock: as long as callers leave two commands'    *)
(* time before the lock's minute is over, whatever the users service, the  *)
(* provider and the stores do, the key is still there when the handler     *)
(* unlocks it.  Without the caller's timeout two calls of four attempts    *)
(* would outlast the lock (cache.go:46, proxy.go:32, client.go:68).        *)
(***************************************************************************)
LockCoversRequest ==
    Patience + 2 * Grace < LockTTL /\ pc \in Critical => Locked

(***************************************************************************)
(* A signature is checked for its age when it arrives, however long it was *)
(* on its way: in the gateway's queue, or in ValidateUser, which signs     *)
(* once and retries for longer than Sigil accepts a signature.  With the   *)
(* tolerance not below the caller's patience, nothing is refused that the  *)
(* caller would have waited for another second, the one that the timestamp *)
(* cuts off; and the first two attempts are never refused, whatever they   *)
(* met (users.go:43, sigil.go:55, verify.go:71).                           *)
(***************************************************************************)
ExpiryComesLast ==
    expired # None =>
        /\ Patience <= Tolerance => gone < expired.at + Second
        /\ expired.by = "users" /\ 2 * CallTimeout + Backoff + Second <= Tolerance =>
                attempt["users"] > 2

(***************************************************************************)
(* A row is PENDING, for the reconciler, only if the attempts that hung    *)
(* fit into the caller's patience; otherwise the caller's leaving turns    *)
(* the timeout into a cancellation, and nothing is saved.  With 4 attempts *)
(* of 10 seconds and a gateway that waits 30, a provider that does not     *)
(* answer at all never leaves a PENDING row (purchase.go:130).             *)
(***************************************************************************)
PendingFitsPatience ==
    row = "PENDING" => hung["provider"] * CallTimeout < Patience

-----------------------------------------------------------------------------
Of(x) == [r \in {Me} |-> x]

\* Where Purchase sees this request: nowhere before it is delivered.
PurchasePc ==
    CASE pc \in {"sent", "lost", "refused"}         -> "idle"
      [] pc \in Calling /\ callee = "users"         -> "validate"
      [] pc \in Calling /\ callee = "provider"      -> "post"
      [] OTHER                                      -> pc

PurchaseAnswer ==
    CASE answer \in {None, 401} -> None
      [] answer = 201           -> [code |-> 201, tx |-> Me, status |-> RowStatus(reply)]
      [] OTHER                  -> [code |-> answer, tx |-> None, status |-> None]

\* The handler has returned without its lock being deleted.
Leaked == Locked /\ pc = "done"

Untimed == INSTANCE Purchase WITH
    Req <- {Me}, Key <- {}, Account <- {Deposit.account}, Header <- Of(None),
    Malformed <- None, Body <- Of(Deposit),
    AuthRequired <- TRUE, SlowRequests <- FALSE, MaxCrashes <- 0,
    pc <- Of(PurchasePc),
    cancelled <- IF noticed THEN {Me} ELSE {},
    attempt <- Of(attempt["provider"]), reply <- Of(reply),
    charges <- Of(IF reply = "approved" THEN 1 ELSE 0),
    rows <- Of(row),
    idem <- Of(IF "answer" \in left
               THEN [code |-> 201, tx |-> Me, status |-> RowStatus(reply)] ELSE None),
    lock <- IF Locked THEN {Me} ELSE {},
    leaked <- IF Leaked THEN {Me} ELSE {},
    versioned <- {}, events <- {}, late <- {}, crashes <- 0,
    tasks <- IF "tasks" \in left
             THEN {<<"bump", Me>>}
                    \cup (IF reply = "approved" THEN {<<"publish", Me>>} ELSE {})
             ELSE {},
    answer <- Of(PurchaseAnswer)

(***************************************************************************)
(* The clocked chain implements Purchase with SlowRequests = FALSE: what   *)
(* Purchase assumes of its lock, that its minute is never over while the   *)
(* handler that set it is still at work, follows from the timeouts of the  *)
(* gateway and of the clients, and so do Purchase's invariants.            *)
(***************************************************************************)
ImplementsPurchase == Untimed!Spec
============================================================================
