------------------------------ MODULE Purchase ------------------------------
(***************************************************************************)
(* POST /api/v1/transactions: TransactionHandler.Create and the use case   *)
(* PurchaseUseCase.Purchase it calls.  Every request is a goroutine of the *)
(* transactions service.  The requests share Redis (the idempotency        *)
(* answers, the locks, the cache versions), Postgres (the rows) and the    *)
(* external provider, and leave detached goroutines behind them.           *)
(*                                                                         *)
(* A transaction id is a fresh uuid, so a row is named by the request that *)
(* inserts it.  The idempotency answers live 24 hours, longer than any     *)
(* behaviour considered here, and do not expire.                           *)
(***************************************************************************)
EXTENDS ProviderCall, FiniteSets

CONSTANTS
    Req,            \* the requests (one handler goroutine each)
    Key,            \* the values of X-Idempotency-Key that clients send
    Account,        \* account ids
    None,           \* an absent value or an empty string
    Header,         \* Header[r]: the key r carries, or None
    Malformed,      \* a body that echo's Bind refuses
    Body,           \* Body[r]: the body of r
    AuthRequired,   \* jwtValidationActive
    SlowRequests,   \* a request may outlive the one minute of its lock
    MaxRetries,     \* retries after the first attempt (3 in the code)
    MaxCrashes,     \* bound on the crashes of the service
    Replies         \* the provider answers considered

ASSUME KeyAssumption == Req \cap Key = {}
ASSUME HeaderAssumption == Header \in [Req -> Key \cup {None}]
ASSUME BodyAssumption ==
    \A r \in Req : Body[r] # Malformed => Body[r].account \in Account \cup {None}
ASSUME BoundsAssumption == MaxRetries \in Nat /\ MaxCrashes \in Nat
ASSUME RepliesAssumption == Replies \subseteq Reply
ASSUME FlagsAssumption == AuthRequired \in BOOLEAN /\ SlowRequests \in BOOLEAN

VARIABLES
    pc,         \* where each request is
    cancelled,  \* requests whose context is done: client or gateway gave up
    attempt,    \* provider attempts each request has made
    reply,      \* the last provider answer of each request
    charges,    \* times the provider moved money for each request
    rows,       \* Postgres: the status of the row each request inserted
    idem,       \* Redis: the answer stored under each idempotency key
    lock,       \* Redis: the lock keys that exist
    leaked,     \* history: locks whose handler was kept from deleting them
    versioned,  \* Redis: accounts whose list version key was written
    tasks,      \* detached goroutines not yet finished: <<kind, request>>
    events,     \* TransactionCompletedEvents the broker holds
    answer,     \* what each handler answers
    late,       \* history: requests that arrived after a purchase under
                \* their key had been answered EXECUTED
    crashes     \* history: crashes so far

redisVars   == <<idem, lock, leaked, versioned>>
providerVars == <<attempt, reply, charges>>
vars == <<pc, cancelled, attempt, reply, charges, rows, idem, lock, leaked,
          versioned, tasks, events, answer, late, crashes>>

\* Create makes up a uuid for a request without the header.
IdemKey(r) == IF Header[r] = None THEN r ELSE Header[r]
AnyKey == Key \cup Req

Critical == {"validate", "post", "save", "cache", "unlock"}
InFlight == {"get", "lock"} \cup Critical
Finished == {"done", "crashed"}

Failure(code) == [code |-> code, tx |-> None, status |-> None]
Created(r, s) == [code |-> 201, tx |-> r, status |-> s]

Answer == [code : {201}, tx : Req, status : {"EXECUTED", "REJECTED"}]
            \cup {Failure(code) : code \in {400, 409, 500, 503}}

ASSUME NoneAssumption ==
    None \notin Req \cup Key \cup Account \cup Reply \cup Status \cup Answer

\* The handler of r has returned an EXECUTED purchase to its client.
AnsweredExecuted(r) == pc[r] = "done" /\ answer[r].status = "EXECUTED"

Init ==
    /\ pc = [r \in Req |-> "idle"]
    /\ cancelled = {}
    /\ attempt = [r \in Req |-> 0]
    /\ reply = [r \in Req |-> None]
    /\ charges = [r \in Req |-> 0]
    /\ rows = [r \in Req |-> None]
    /\ idem = [k \in AnyKey |-> None]
    /\ lock = {}
    /\ leaked = {}
    /\ versioned = {}
    /\ tasks = {}
    /\ events = {}
    /\ answer = [r \in Req |-> None]
    /\ late = {}
    /\ crashes = 0

GoTo(r, l) == pc' = [pc EXCEPT ![r] = l]
Respond(r, a) == answer' = [answer EXCEPT ![r] = a]

-----------------------------------------------------------------------------
(***************************************************************************)
(* Create: take or make the key, bind the body, call Purchase.             *)
(***************************************************************************)
Create(r) ==
    /\ pc[r] = "idle"
    /\ IF Body[r] = Malformed
       THEN GoTo(r, "done") /\ Respond(r, Failure(400))
       ELSE GoTo(r, "get") /\ UNCHANGED answer
    /\ late' = IF \E q \in Req : IdemKey(q) = IdemKey(r) /\ AnsweredExecuted(q)
               THEN late \cup {r} ELSE late
    /\ UNCHANGED <<cancelled, providerVars, rows, redisVars, tasks, events, crashes>>

\* Plausible slip: a GET that fails, as it always may, is taken for a missing answer.
MissOrError(r) == TRUE

Miss(r) == r \notin cancelled /\ idem[IdemKey(r)] = None

(***************************************************************************)
(* Step 1: a stored answer is returned as it is; a missing one goes on to  *)
(* the lock; a Redis failure (certain once the context is done) is a 500.  *)
(***************************************************************************)
GetIdempotency(r) ==
    /\ pc[r] = "get"
    /\ \/ /\ r \notin cancelled
          /\ idem[IdemKey(r)] # None
          /\ Respond(r, idem[IdemKey(r)])
          /\ GoTo(r, "done")
       \/ Miss(r) /\ GoTo(r, "lock") /\ UNCHANGED answer
       \/ Respond(r, Failure(500)) /\ GoTo(r, "done")
    /\ UNCHANGED <<cancelled, providerVars, rows, redisVars, tasks, events, late, crashes>>

\* Plausible slip: the result of SETNX is not looked at.
LockFreeUnchecked(k) == TRUE

LockFree(k) == k \notin lock

(***************************************************************************)
(* Step 2: SETNX of the lock key.  Idempotency is not read again behind    *)
(* the lock.  The second disjunct is a SETNX that Redis applied and whose  *)
(* reply was lost: the client reports the error, or repeats the command    *)
(* and finds the key it has just set.                                      *)
(***************************************************************************)
Lock(r) ==
    /\ pc[r] = "lock"
    /\ \/ /\ r \notin cancelled
          /\ LockFree(IdemKey(r))
          /\ lock' = lock \cup {IdemKey(r)}
          /\ \/ GoTo(r, "validate") /\ UNCHANGED <<answer, leaked>>
             \/ /\ \E code \in {409, 500} : Respond(r, Failure(code)) /\ GoTo(r, "done")
                /\ leaked' = leaked \cup {IdemKey(r)}
       \/ /\ r \notin cancelled
          /\ ~LockFree(IdemKey(r))
          /\ Respond(r, Failure(409))
          /\ GoTo(r, "done")
          /\ UNCHANGED <<lock, leaked>>
       \/ /\ Respond(r, Failure(500))
          /\ GoTo(r, "done")
          /\ UNCHANGED <<lock, leaked>>
    /\ UNCHANGED <<cancelled, providerVars, rows, idem, versioned, tasks, events, late, crashes>>

\* Plausible slip: unlock is called before the last return instead of deferred.
EarlyReturnLocked(r) == GoTo(r, "done")

\* A return from the middle of Purchase runs the deferred unlock.
EarlyReturn(r) == GoTo(r, "unlock")

\* Step 4, amounts in thousandths of a peso.
BusinessRules(b) ==
    /\ b.currency = "MXN"
    /\ b.amount > 1000
    /\ b.type \in {"CREDIT", "DEBIT"}
    /\ b.type = "DEBIT" => b.amount <= 10000000

(***************************************************************************)
(* Steps 3 and 4: the users service is asked only when JWT validation is   *)
(* on.  Its refusals are 400 (unknown account), 500 and 503.               *)
(***************************************************************************)
ValidateUser(r) ==
    /\ pc[r] = "validate"
    /\ \/ /\ AuthRequired => r \notin cancelled
          /\ BusinessRules(Body[r])
          /\ GoTo(r, "post")
          /\ UNCHANGED answer
       \/ /\ AuthRequired => r \notin cancelled
          /\ ~BusinessRules(Body[r])
          /\ Respond(r, Failure(400))
          /\ EarlyReturn(r)
       \/ /\ AuthRequired
          /\ \E code \in {500, 503} \cup (IF r \in cancelled THEN {} ELSE {400}) :
                Respond(r, Failure(code))
          /\ EarlyReturn(r)
    /\ UNCHANGED <<cancelled, providerVars, rows, redisVars, tasks, events, late, crashes>>

\* Plausible slips: the attempt is not counted; the loop goes round once too often.
UncountedAttempt(n) == n
MayRetryOnceMore(r) == attempt[r] <= MaxRetries

NextAttempt(n) == n + 1
MayRetry(r) == attempt[r] < MaxRetries

(***************************************************************************)
(* Step 5, one round of requestor's loop in ProviderRepository.Post: send  *)
(* the same POST again until an answer is final or the attempts run out.   *)
(***************************************************************************)
Attempt(r) ==
    /\ pc[r] = "post"
    /\ r \notin cancelled
    /\ attempt' = [attempt EXCEPT ![r] = NextAttempt(@)]
    /\ \E p \in Replies :
        /\ reply' = [reply EXCEPT ![r] = p]
        /\ \E c \in Charged(p) : charges' = [charges EXCEPT ![r] = @ + c]
        /\ GoTo(r, IF Retryable(p) /\ MayRetry(r) THEN "post" ELSE "save")
    /\ UNCHANGED <<cancelled, rows, redisVars, tasks, events, answer, late, crashes>>

\* The loop finds the context done before an attempt and gives ctx.Err() back.
\* It is context.Canceled, never a timeout: the row will be FAILED.
AttemptCancelled(r) ==
    /\ pc[r] = "post"
    /\ r \in cancelled
    /\ reply' = [reply EXCEPT ![r] = "neterr"]
    /\ GoTo(r, "save")
    /\ UNCHANGED <<attempt, charges, cancelled, rows, redisVars, tasks, events,
                   answer, late, crashes>>

\* Plausible slip: the event is sent whatever the status.
SpawnedAlways(r) ==
    (IF Body[r].account # None THEN {<<"bump", r>>} ELSE {}) \cup {<<"publish", r>>}

\* The goroutines Purchase starts once the row of an answered purchase is in.
Spawned(r) ==
    (IF Body[r].account # None THEN {<<"bump", r>>} ELSE {})
        \cup (IF RowStatus(reply[r]) = "EXECUTED" THEN {<<"publish", r>>} ELSE {})

InsertRow(r) == rows' = [rows EXCEPT ![r] = RowStatus(reply[r])]

\* The response is built from the entity, not from what the insert left.
Response(r) == Created(r, RowStatus(reply[r]))

(***************************************************************************)
(* Step 6 and the error branch of step 5: insert the row.  A rejection by  *)
(* error is answered 201 without going through steps 7 to 9; any other     *)
(* provider error is a 503.                                                *)
(***************************************************************************)
Save(r) ==
    /\ pc[r] = "save"
    /\ r \notin cancelled
    /\ InsertRow(r)
    /\ IF PostSucceeds(reply[r])
       THEN /\ tasks' = tasks \cup Spawned(r)
            /\ GoTo(r, "cache")
            /\ UNCHANGED answer
       ELSE /\ Respond(r, IF RowStatus(reply[r]) = "REJECTED" THEN Response(r)
                                                             ELSE Failure(503))
            /\ EarlyReturn(r)
            /\ UNCHANGED tasks
    /\ UNCHANGED <<cancelled, providerVars, redisVars, events, late, crashes>>

\* Plausible slip: the error of the insert is only logged.
SaveErrorAnswer(r) == Response(r)

SaveError(r) == Failure(500)

\* An insert that fails, or that is committed and whose acknowledgement is lost.
SaveFails(r) ==
    /\ pc[r] = "save"
    /\ UNCHANGED rows \/ (r \notin cancelled /\ InsertRow(r))
    /\ Respond(r, SaveError(r))
    /\ EarlyReturn(r)
    /\ UNCHANGED <<cancelled, providerVars, redisVars, tasks, events, late, crashes>>

StoreAnswer(r) == idem' = [idem EXCEPT ![IdemKey(r)] = Response(r)]

(***************************************************************************)
(* Step 9: the answer is stored under the idempotency key.  If that fails  *)
(* (again, perhaps only the acknowledgement is lost) the client gets a 500 *)
(* for a purchase that is settled.                                         *)
(***************************************************************************)
CacheResponse(r) ==
    /\ pc[r] = "cache"
    /\ \/ r \notin cancelled /\ StoreAnswer(r) /\ Respond(r, Response(r))
       \/ /\ UNCHANGED idem \/ (r \notin cancelled /\ StoreAnswer(r))
          /\ Respond(r, Failure(500))
    /\ GoTo(r, "unlock")
    /\ UNCHANGED <<cancelled, providerVars, rows, lock, leaked, versioned, tasks, events,
                   late, crashes>>

(***************************************************************************)
(* The deferred unlock, on every path out of the critical section: DEL of  *)
(* the key, whoever set it, the error ignored.                             *)
(***************************************************************************)
Unlock(r) ==
    /\ pc[r] = "unlock"
    /\ \/ lock' = lock \ {IdemKey(r)} /\ leaked' = leaked \ {IdemKey(r)}
       \/ leaked' = leaked \cup (lock \cap {IdemKey(r)}) /\ UNCHANGED lock
    /\ GoTo(r, "done")
    /\ UNCHANGED <<cancelled, providerVars, rows, idem, versioned, tasks, events,
                   answer, late, crashes>>

-----------------------------------------------------------------------------
(***************************************************************************)
(* Step 7's goroutine.  Save stores the JSON string "1", quotes included,  *)
(* which Sscanf("%d") never reads back, so whatever was there the key ends *)
(* up holding the same text; TxQueryCache looks at what that does to       *)
(* readers.  Redis errors are ignored.                                     *)
(***************************************************************************)
BumpVersion(r) ==
    /\ <<"bump", r>> \in tasks
    /\ tasks' = tasks \ {<<"bump", r>>}
    /\ versioned' = versioned \cup {Body[r].account} \/ UNCHANGED versioned
    /\ UNCHANGED <<pc, cancelled, providerVars, rows, idem, lock, leaked, events,
                   answer, late, crashes>>

\* Step 8's goroutine: an asynchronous Kafka writer whose errors are dropped.
PublishEvent(r) ==
    /\ <<"publish", r>> \in tasks
    /\ tasks' = tasks \ {<<"publish", r>>}
    /\ events' = events \cup {r} \/ UNCHANGED events
    /\ UNCHANGED <<pc, cancelled, providerVars, rows, redisVars, answer, late, crashes>>

\* The client disconnects or the gateway's 30 seconds pass.
Cancel(r) ==
    /\ pc[r] \in InFlight
    /\ r \notin cancelled
    /\ cancelled' = cancelled \cup {r}
    /\ UNCHANGED <<pc, providerVars, rows, redisVars, tasks, events, answer, late, crashes>>

(***************************************************************************)
(* The lock's minute is over.  Unless requests may be that slow, no live   *)
(* handler is then still inside the section the lock guards.               *)
(***************************************************************************)
LockExpires(k) ==
    /\ k \in lock
    /\ SlowRequests \/ \A r \in Req : IdemKey(r) = k => pc[r] \notin Critical
    /\ lock' = lock \ {k} /\ leaked' = leaked \ {k}
    /\ UNCHANGED <<pc, cancelled, providerVars, rows, idem, versioned, tasks, events,
                   answer, late, crashes>>

\* The service dies, with its handlers and its goroutines.  Redis and Postgres stay.
Crash ==
    /\ crashes < MaxCrashes
    /\ crashes' = crashes + 1
    /\ pc' = [r \in Req |-> IF pc[r] \in InFlight THEN "crashed" ELSE pc[r]]
    /\ tasks' = {}
    /\ leaked' = lock
    /\ UNCHANGED <<cancelled, providerVars, rows, idem, lock, versioned, events, answer, late>>

Handler(r) ==
    \/ GetIdempotency(r) \/ Lock(r) \/ ValidateUser(r) \/ Attempt(r)
    \/ AttemptCancelled(r) \/ Save(r) \/ SaveFails(r) \/ CacheResponse(r) \/ Unlock(r)

Background(r) == BumpVersion(r) \/ PublishEvent(r)

Next ==
    \/ \E r \in Req : Create(r) \/ Handler(r) \/ Background(r) \/ Cancel(r)
    \/ \E k \in AnyKey : LockExpires(k)
    \/ Crash

Spec == Init /\ [][Next]_vars

(***************************************************************************)
(* Go schedules every runnable goroutine, and every HTTP exchange ends by  *)
(* its client timeout.  Clients owe nothing: Create and Cancel are not     *)
(* fair, nor are Crash and LockExpires, for nobody waits for a lock.       *)
(***************************************************************************)
Fairness == \A r \in Req : WF_vars(Handler(r)) /\ WF_vars(Background(r))

FairSpec == Spec /\ Fairness

-----------------------------------------------------------------------------
TypeOK ==
    /\ pc \in [Req -> {"idle"} \cup InFlight \cup Finished]
    /\ cancelled \subseteq Req
    /\ attempt \in [Req -> 0 .. MaxRetries + 1]
    /\ reply \in [Req -> Reply \cup {None}]
    /\ charges \in [Req -> Nat]
    /\ rows \in [Req -> Status \cup {None}]
    /\ idem \in [AnyKey -> Answer \cup {None}]
    /\ lock \subseteq AnyKey
    /\ leaked \subseteq lock
    /\ versioned \subseteq Account
    /\ tasks \subseteq {"bump", "publish"} \X Req
    /\ events \subseteq Req
    /\ answer \in [Req -> Answer \cup {None}]
    /\ late \subseteq Req
    /\ crashes \in 0 .. MaxCrashes

(***************************************************************************)
(* A client that is told 201, first hand or from the idempotency store,    *)
(* is told of a row that Postgres holds, with the status it holds it in,   *)
(* inserted under the same key: whatever failed, was cancelled or raced,   *)
(* no answer is made up (Purchase steps 1, 5 and 9).                       *)
(***************************************************************************)
AnswerBackedByRow ==
    \A r \in Req :
        pc[r] = "done" /\ answer[r].code = 201 =>
            /\ rows[answer[r].tx] = answer[r].status
            /\ IdemKey(answer[r].tx) = IdemKey(r)

(***************************************************************************)
(* The bank never reports as EXECUTED what the provider did not execute:   *)
(* a row or an event says so only after the provider has charged for that  *)
(* transaction, and an event only for a row already in Postgres.           *)
(***************************************************************************)
ExecutedWasCharged == \A r \in Req : rows[r] = "EXECUTED" => charges[r] > 0
EventBackedByRow == \A r \in events : rows[r] = "EXECUTED"

(***************************************************************************)
(* Money that moved leaves a trace: when a handler ends and the provider   *)
(* charged for it, either its row is in Postgres or the client got a 500,  *)
(* the one answer that means the outcome is unknown.                       *)
(***************************************************************************)
ChargeHasRowOr500 ==
    \A r \in Req :
        pc[r] = "done" /\ charges[r] > 0 => rows[r] # None \/ answer[r].code = 500

(***************************************************************************)
(* The distributed lock: as long as no request outlives the minute of its  *)
(* lock, two requests with one key are never both between lock and unlock, *)
(* although DEL removes the key without asking who set it, lock replies    *)
(* get lost and the service crashes holding locks.                         *)
(***************************************************************************)
MutualExclusion ==
    ~SlowRequests =>
        \A q, r \in Req :
            pc[q] \in Critical /\ pc[r] \in Critical /\ IdemKey(q) = IdemKey(r) => q = r

(***************************************************************************)
(* A client is turned away with a 409 for a reason: a key is locked while  *)
(* a request of it is between lock and unlock, and longer only if the      *)
(* reply to its SETNX was lost, its DEL failed or the service died.  Every *)
(* way out of Purchase unlocks: refused purchases, failed inserts and      *)
(* answers that cannot be stored included.                                 *)
(***************************************************************************)
LockHasReason ==
    \A k \in lock : k \in leaked \/ \E r \in Req : pc[r] \in Critical /\ IdemKey(r) = k

(***************************************************************************)
(* What idempotency does guarantee: once a client has been told EXECUTED,  *)
(* a later request with the same key charges nothing, crashes and lost     *)
(* locks included.  Only requests that overlap the first one can.          *)
(***************************************************************************)
LateNeverCharges == \A r \in late : charges[r] = 0


(***************************************************************************)
(* Every request is answered unless the service dies under it, whatever    *)
(* the provider answers and however often it is retried.                   *)
(***************************************************************************)
Answered == \A r \in Req : pc[r] = "get" ~> pc[r] \in Finished

\* What a client has been told: nothing before its handler returns.
Told == [r \in Req |-> IF pc[r] = "done" THEN answer[r] ELSE None]

Ledger == INSTANCE PaymentLedger WITH
    KeyOf <- [r \in Req |-> IdemKey(r)],
    money <- charges, book <- rows, told <- Told, notified <- events,
    arrived <- {r \in Req : pc[r] # "idle"}, replays <- late

(***************************************************************************)
(* Purchase keeps the promises of PaymentLedger: every step, failures and  *)
(* crashes included, is one of its steps or changes nothing it sees.       *)
(***************************************************************************)
ImplementsLedger == Ledger!Spec
=============================================================================
