# bank-api in TLA+

A model of the parts of bank-api where its money and its access control are:
the purchase, its way through the services on a clock, the reconciliation of
what a purchase left open, the cached lists a customer reads afterwards, the
accounts of the users service, and the libraries for sessions, rate limiting and
connection pools. The modules are translated from the Go code, are checked on
small instances with TLC, and most of their safety is proved with TLAPS for every
number of requests, keys, rows, readers, tokens, goroutines, retries and faults, and
for all timeouts.

Paths below are relative to the repository (`src/`).

## 1. The system

Three HTTP services and one worker, all Go, share one Postgres and one Redis.

| part | state it keeps | operations | talks to |
|---|---|---|---|
| gateway (`srv/gateway`) | none | proxies `/users`, `/transactions`, 30 s client | both services, signed by Sigil |
| transactions (`srv/transactions`) | rows in Postgres; in Redis idempotency answers (24 h), locks (1 min), list versions (30 days), lists (5 min); detached goroutines | `Create`, `Get`, `GetInternal`, `UpdateStatusInternal` | users service, provider, Kafka, Redis, Postgres |
| crons (`srv/crons`) | nothing between cycles | `RetryPendingTransactions` every minute, 20 s context | transactions service, provider |
| users (`srv/users`) | user rows | sign-up, login, `GET /users/me` | Postgres |
| provider | accounts of its own | `POST /execute` | external; `mocks/providers` stands in for it |
| requestor (`pkg/requestor`) | none | HTTP with up to 4 attempts, 10 s each, 200/400/800 ms apart | every outgoing call |
| guardian (`opt/guardian`) | sessions in Postgres; a blacklist nothing uses | issue, validate, refresh, log out, clean up, roles | library |
| rate limiters (`opt/middlewares`) | counts per client in a `sync.Map`, times per IP and email under a mutex | allow, clean up, remaining | library |
| pool manager (`opt/db`) | a map of Postgres pools under an RWMutex | get or create, close | library |

The last three are complete code with an API of its own, but no `cmd` of this
repository wires them in. They are modelled as what a service that does would get.

How they interact in a purchase: the gateway forwards the POST, the handler
reads the idempotency store, locks the key in Redis, asks the users service
(when JWT validation is on), posts to the provider through requestor, inserts
the row, starts a goroutine that moves the list version of the account on and,
for an execution, one that publishes an event, stores the answer under the key
and unlocks in a `defer`. A provider timeout leaves a `PENDING` row. crons
lists such rows, posts them again and PATCHes the verdict into the transactions
service, which rewrites the row, deletes a list version and publishes an event.

What is hard here, and what each part owes:

- **Purchase.** Requests of one key race between a look-up, a lock with an
  expiry and an unconditional unlock; a context that is cancelled makes every
  later call fail; the provider's answer may be lost after money moved; the
  service may die anywhere. It owes: no answer without a row, no `EXECUTED`
  without a charge, no charge without a trace, one charge per key.
- **Reconciler.** A page of rows read once and worked off later; verdicts told
  apart by words; a PATCH that is lost, late or half done. It owes: a settled
  row stays settled and is not charged again; a pending row gets its turn.
- **List cache.** A read-through cache whose key contains a version that two
  kinds of writers move, with nothing atomic. It owes: bounded staleness, and
  an invalidation that invalidates.
- **Users.** Sign-up looks an email up and inserts later, and no index makes it
  unique. It owes: one account per email unless sign-ups overlap, a token only
  to its owner, and a customer who is let in.
- **Guardian.** Logout and clean-up run beside checks and refreshes, each one
  SQL statement with a clock read before it. It owes: a logout is final, nothing
  else logs out, a refresh gives no rights.
- **Limiters.** Counting against a clean-up goroutine, at the ends of windows.
  They owe: a bound on what is admitted, and no refusal below it.
- **Gateway, Sigil, requestor.** Timeouts inside timeouts: four attempts of ten
  seconds with pauses, for two callees, behind a gateway that waits 30 seconds,
  signatures that live as long, and a lock that lives a minute. They owe: no
  request outlives its lock, no signature dies of a retry.
- **Pool manager.** Pools are pinged without the lock that guards their map, and
  one line reads the map, and releases the lock, without holding it. It owes: one
  open pool per tenant, a lock that stays sound, calls that return.

`PROJECT.json` lists every component with its status and every such hazard at
its line, with the properties that cover it.

## 2. Modules

| module | models | from |
|---|---|---|
| `ProviderCall` | the answers of one exchange with the provider, which of them are retried, the row status each gives, the money each may have moved | `requestor/client.go`, `repositories/provider.go`, `mappers/status.go`, `usecases/purchase.go:127-137` |
| `PaymentLedger` | what a purchase promises: arrive, charge, book, tell, notify, each after what it rests on | (abstract) |
| `Purchase` | `TransactionHandler.Create` and `PurchaseUseCase.Purchase` for concurrent requests | `usecases/purchase.go`, `handlers/http.go`, `pkg/cache`, `opt/redis` |
| `Purchase_proofs` | theorems about `Purchase`, among them that it implements `PaymentLedger` | |
| `Reconciler` | the crons cycle and the `UpdateStatus` handler | `srv/crons`, `usecases/update.go`, `repositories/postgres.go` |
| `TxQueryCache` | `GetUseCase.GetAll`, the version goroutine, `invalidateCache` | `usecases/get.go`, `purchase.go:167-183`, `update.go:72-78` |
| `CallChain` | one purchase on a clock: the gateway, Sigil, the lock, the users service and the provider behind requestor, the INSERT | `gateway/handlers/proxy.go`, `pkg/sigil`, `middlewares/sigil.go`, `requestor/client.go`, `repositories/users.go` |
| `PoolManager` | `TenantPoolManager` and the `sync.RWMutex` in it | `opt/db/pool_manager.go` |
| `Accounts` | the users service: `Signup`, `Login`, `GetMe` | `srv/users` |
| `Roles` | permissions of roles with their wildcards, and the guards of routes | `guardian/rbac.go`, `middlewares/auth.go` |
| `Sessions` | `Guardian` over `PostgresSessionStore`, and the middleware in front of it | `guardian.go`, `session_store.go`, `pkg/jwt` |
| `Limits` | `Throttle` and `RateLimiter` with their clean-up goroutines | `throttle.go`, `ratelimit.go` |
| `CallChain_proofs`, `PoolManager_proofs`, `Reconciler_proofs`, `TxQueryCache_proofs`, `Accounts_proofs`, `Sessions_proofs`, `Limits_proofs` | theorems about those | |
| `MCPurchase`, `MCCallChain`, `MCPoolManager`, `MCReconciler`, `MCTxQueryCache`, `MCAccounts`, `MCSessions`, `MCLimits` | the instances TLC checks | |

`Purchase`, `CallChain` and `Reconciler` share `ProviderCall`; `CallChain`
implements `Purchase`, and `Purchase` implements `PaymentLedger`; `Sessions`
extends `Roles`. The other modules stand alone.

### Purchase

`pc[r]` is where the goroutine of request `r` is; there is one label for each
call that leaves the process, because that is where other goroutines, the
client and Redis can get in between.

| code | action |
|---|---|
| `Create`: key from the header or a uuid, Bind | `Create` |
| step 1, `GetIdempotency` | `GetIdempotency` |
| step 2, `Lock` (SETNX, one minute) | `Lock` |
| steps 3 and 4, users service, business rules | `ValidateUser` |
| step 5, one round of requestor's loop | `Attempt`, `AttemptCancelled` |
| step 6 and the error branch of step 5, INSERT | `Save`, `SaveFails` |
| steps 7 and 8, the goroutines | `BumpVersion`, `PublishEvent` |
| step 9, storing the answer | `CacheResponse` |
| `defer unlock()` | `Unlock` |
| client or gateway gives up | `Cancel` |
| the lock's minute is over | `LockExpires` |
| the service stops | `Crash` |

A call to Redis or Postgres may succeed, fail, or be applied with its reply
lost; with the context done it fails. A transaction id is a fresh uuid, so the
row of a request is named by the request. `SlowRequests` says whether a request
may outlive its lock: requestor alone can take 40 seconds for the provider and
as long for the users service, so nothing in the transactions service excludes
it. The properties that need it excluded say so, and `CallChain` shows that the
gateway's timeout excludes it for whoever comes through the gateway.

What the bank cannot see is modelled as the environment's choice: `Charged`
gives for each answer of the provider the charges it may stand for.

### CallChain

`Purchase` has no time. `CallChain` follows a single request, whose timing nothing
but its own calls and its caller decides, from the gateway to its unlock. A step
says when it starts (`started`) how long it will take (`due`), out of
`Durations`; `Pass` moves the clock to the next moment at which something
can happen, and what comes of the step is settled there. Every action is
immediate: the clock does not pass a moment at which something is due.

| code | action |
|---|---|
| `proxyRequest` signs, waits for one of the gateway's 50 connections (proxy.go:36), sends | `Init`, `Deliver`, `GiveUp` |
| Sigil's middleware in the transactions service | `Deliver` |
| `GetIdempotency`, `Lock` | `Get`, `Lock` |
| `executeWithRetry`: an attempt, its end, the pause | `Attempt`, `UsersAnswer`, `ProviderAnswer`, `WakeUp` |
| the context is done: found out by the next step that looks | `Notice`, `Interrupted` |
| INSERT, storing the answer, unlocking | `Save`, `CacheResponse`, `Unlock` |

The handler's context ends when its caller leaves (`gone`): the gateway after its
30 seconds, at which it closes the connection, or earlier if it dies.
`ContextDone` says where that stops the handler. `ValidateUser` signs once,
before the first attempt (`stamp`, set in `Lock`), and the users service looks at
the age of the signature at some moment of the exchange. The services share the
clock of one host; skew between hosts would take its amount off Sigil's tolerance.
A body that stops half way is not a timeout to requestor (client.go:107-110), so
it does not lead to `PENDING`. With `AUTH_REQUIRED=false` the chain has no users
service in it and is only shorter; that variant is not modelled.

### PoolManager

`pc[p]` is where a goroutine is; between two labels it holds, waits for or does not
need the lock. The RWMutex is Go's, counter by counter, because what a wrong
`RUnlock` does cannot be said otherwise: `readers` and `leaving` are
`readerCount` and `readerWait`, `readerSem` and `writerSem` its semaphores.
`Look` to `Create` are `GetOrCreate`; `Inspect` stands for `Health` and
`Count`. A pool is the number of the `OpenDB` that made it. An open pool may or may
not answer a ping (the database, the context); a closed one does not. `Again` is
lines 47 to 49: `bare` records who reads the map there without the lock, `twice`
who releases a lock that is not its own. Reading the map beside a
writer may stop the process (`Raced`), as the Go runtime does when it notices.

### Reconciler

`StartCycle`, `Retry`, `GiveUp`, `EndCycle` are the loop of
`RetryPendingTransactions`; `Expire` is its 20 second context; `Restart` is a
new crons process. A PATCH is a record in `patches` that moves from the network
through `Find`, `Update` and `Notify` of the handler, or ends in `Fail` at any
point, with the UPDATE applied or not. Three facts of the code are easily
overlooked and shape the module:

- `FindAll` (`postgres.go:35-56`) has no condition on the id, so `Find` finds
  the newest row of the table, and the event and the invalidation are about it.
- `Update` passes a model with an id and a status to the ORM: the other columns
  become zero. This is the behaviour of the ORM, external to the repository.
  A NOT NULL column that refuses it is `Fail`.
- crons tells errors apart by the words "provider" and "rejected". `Mentions`
  says which answers produce a message with one of them.

Assumed of the deployment: one crons process. Its cycles then cannot overlap
(20 s of context in a period of 60 s), and what is left of a cycle in the
network at the start of the next is older than the 30 seconds Sigil accepts:
`old` and `Fresh`.

### TxQueryCache

The version is text, kept with or without its JSON quotes, because the code
writes it with `json.Marshal` and reads it with `Sscanf("%d")`. A reader keeps
the version it started with, as `GetAll` does, while changes are committed,
versions move and lists expire. Time is a clock: `TTL` for the five minutes of a
list, `Patience` for the 30 seconds a request can take. Of the query parameters
one fixed combination is considered.

### Accounts

A row is named by the sign-up that inserts it, because its id is a fresh uuid.
`Lookup` is `Signup` up to the INSERT and `Create` the rest of it, because other
requests run in between; `LogIn` and `GetMe` make one call each. Every call may
fail, and a failed INSERT may have been applied. `entities.go:14` declares no
unique index and the table is made by `AutoMigrate`, so a second row of an email
is not refused, and a login then gets any of them. The internal look-up is `GetMe`
with an id from the path; it only reads. Deletion of users does not
exist in the code.

### Roles and Sessions

A token is named by its `jti` and its claims never change, so the table of
sessions is the set of ids in it. A goroutine is at one of: its INSERT
(`AddSession`), its SELECT (`IsActive`), its DELETE (`Delete`), or at the answer
of the middleware. The `time.Now()` of a statement is `at`, read before the
statement runs; the clock may move between. A statement that fails may have
been applied. `Outcome` is the rest of `NewGuardianAuth` and the guard of a
route: one of the permissions of `rbac.go`, or a list of roles. `late` and
`revoked` are history. Not modelled: temporary tokens, which have no state, and
a `Guardian` without a session store, which checks signatures only.

### Limits

One key, in front of which is either limiter. `RateLimiter` does all of a check
under one mutex: `IsLimited`. `Throttle` reads the clock (`Arrive`), takes the
entry from the map (`Load`), and only then locks it (`Allow`); its clean-up reads
the clock (`Sweep`) and drops the entry later (`CleanUp`). A dropped entry stays
in the hands of whoever loaded it, which is why an entry is named by the request
that stored it. `Delay` bounds the time from a request's `time.Now()` to its
verdict.

## 3. What the runs check

| run | instance | shows |
|---|---|---|
| `purchase` | 2 requests, one key, all 8 provider answers, 1 retry, 1 crash, 1.8 million states | answers, rows, events, charges and locks agree; no return of `Purchase` keeps its lock; `PaymentLedger` is implemented |
| `purchase_progress` | 3 requests (one refused by a rule, one malformed), slow requests, 1 retry, 1 crash | every request ends |
| `double_charge` | 2 requests, healthy provider, no crash | violated: see below |
| `call_chain` | 1 request, the code's timeouts in fifths of a second, its 3 retries, five provider answers and seven of the users service, steps of 0, 3, 9 or almost 30 seconds, 1.9 million states | no request outlives its lock, signatures outlive the retries, what hung attempts leave, `Purchase` is implemented |
| `pool_manager` | 3 goroutines, 1 tenant, 4 calls | one open pool per tenant; the lock is sound and calls return unless line 47 has released it twice |
| `reconciler` | 2 rows, page of 2, five kinds of answers, 2 faults | settled rows are neither rewritten nor charged again, and no row is charged while a verdict about it can still arrive; every pending row that fits into a page gets its turn |
| `event_of_another` | 2 rows | violated: see below |
| `query_cache` | a purchase and an update of one account, a reader and a no-cache reader, another account, faults, 4 million states | no answer is older than `TTL + Patience` |
| `query_cache_stuck` | 2 purchases, 2 readers, no faults | violated: see below |
| `sessions` | 2 callers, an admin and a member of staff, 4 tokens (two pairs), 2 guards, lifetimes 1 and 2 | logout is final, nothing else logs out, refresh gives no rights |
| `limits` | 4 requests of one key, limit 1, window 3, horizon 4, delay 2, each limiter, 1.1 million states | the windows hold at their boundaries and beside the clean-up |
| `accounts` | 3 sign-ups (2 of one email), a login, a `GET /users/me`, a crash | one account per email unless sign-ups overlap; tokens are their owners' |

The properties, and what it takes to break them:

- `AnswerBackedByRow`: a 201, first hand or replayed from Redis, names a row
  that is in Postgres with that status and was inserted under the same key.
- `ExecutedWasCharged`, `EventBackedByRow`: nothing is called executed, to a
  reader of the table or of the topic, that the provider did not execute.
- `ChargeHasRowOr500`: a charge is followed by a row or by a 500. It cannot be
  stronger: the INSERT may fail, and the service may die before it, after
  which nothing in the bank remembers the charge.
- `MutualExclusion`: while no request is slower than its lock, the
  unconditional DEL never removes somebody else's lock, and a lock whose SETNX
  reply was lost is held by nobody.
- `LateNeverCharges`: idempotency as the code does keep it, for a request that
  comes after the answer. `late` records those.
- `LockHasReason`: every key that is locked has a handler on its way to unlock it,
  or is one of `leaked`: the reply to its SETNX was lost, its DEL failed, or the
  service died. `leaked` is history, kept at those three places and nowhere else, so a
  return that misses the deferred unlock breaks the property. How long a leaked key
  stays is up to Redis, and no property of the code.
- `Answered`: progress. Nobody waits for a lock (a taken one is a 409), so it needs no
  fairness of its expiry.
- `LockCoversRequest`, `ImplementsPurchase`: what `Purchase` assumes of its lock
  follows from the timeouts, given that commands to Redis and Postgres take less than
  half of what is left (15 seconds each; their libraries' defaults are
  not part of the repository). It fails if the provider is called, and the row
  saved, under a context that does not end with the request's.
- `ExpiryComesLast`: a signature can be refused for its age (four hung attempts
  take longer than 30 seconds), but only in the last second of the caller's
  patience, the one `Unix()` cuts off, and never in the first two attempts.
- `PendingFitsPatience`: how many attempts may hang before `PENDING` is out of
  reach. It is why a provider that hangs is not reconciled; see below.
- `OnePoolPerTenant`: a pool that was handed out and not closed is the one in the
  map. `LockIsSound` narrows everything that can go wrong with the lock down to
  line 47; `Returns` is its progress, lost wake-ups included.
- `SettledStays`, `SettledNotCharged`: action properties over the gap between
  listing and posting, and between posting and the PATCH. `NoChargeOverVerdict`
  narrows the second charge of a transaction down. It can happen: `ExecutedWasCharged`
  bounds no number of charges, and a row whose PATCH was lost is PENDING and posted
  again. But it takes a first charge the provider never told of, or a verdict that has
  failed or grown too old; beside one that may still land nothing is charged.
- `Retried`: progress, with a page that holds all rows. With a smaller one
  (`Limit = 1`) it fails; see below.
- `Staleness`: the bound a customer can rely on, and it is reached: with one
  tick less it fails. `BypassIsFresh`: `no-cache` means it.
- `LateAreRefused`: the guarantee check-then-insert leaves; the sign-up whose
  INSERT was applied and answered 500 counts. `TokenIsOwn`: with two rows of an
  email, each password still opens its own row only. `OwnerGetsIn` lists every
  reason for a 401 of a right password; overlapping sign-ups that lock each
  other out are among them.
- `LogoutIsFinal` needs that the session of a token is inserted once and before
  anybody holds the token. `OnlyLogoutRefuses` is its converse, against the
  clean-up and lost replies. A request that passed its SELECT before the logout
  is still served: `late` is set when a request comes in.
- `GrantedByLogin`: no chain of refreshes lets anybody in whom the role of the login
  would not.
- `SlidingLimit` is exact for `RateLimiter`. `TwoWindows` is what `Throttle`,
  whose windows are fixed, keeps instead, in a stretch shorter than a window by
  `Delay`: a window ends a minute after the `time.Now()` of the goroutine that
  opens it, and others may have been admitted while that one was on its way to
  the entry. In a whole window more can get in: a late one of the window before, then
  a window opened late, then the next one (TLC finds five with `Limit = 2` and
  `Delay = Window = 2`). Requests admitted through an entry the clean-up has
  dropped (`astray`) are not counted, and in the code by nothing. `RefusedOnlyWhenFull` is the other direction for both.

### Disagreements found

Each is a run that TLC refutes, with the line of the code and the sentence it
contradicts in `PROJECT.json`.

1. `double_charge`. Step 1 comes before step 2 and is not repeated. A request
   that missed the key, and locks after the other one unlocked, charges again.
2. `event_of_another`. The event names the newest row of the table.
3. `query_cache_stuck`. The version is `"1"` for ever.

More follow from the properties that hold, or are read off the code, and need no
run of their own:

- README.md:19 promises a `PENDING` row after a 5xx or a timeout of the provider.
  Four 5xx answers give `FAILED` (client.go:86-90, purchase.go:128), which
  nothing reconciles. A provider that does not answer at all takes four attempts of
  10 seconds; the gateway leaves after 30, and the cancelled context saves
  nothing (`PendingFitsPatience`: with the code's values at most two attempts
  can hang in a purchase that ends `PENDING`).
- The same line promises that a worker retries `PENDING` rows. A cycle takes the
  100 newest (retry.go:37), and a refusal in words retry.go does not look for
  leaves its row `PENDING`; a page full of those keeps every older row from its
  turn.
- pool_manager.go:47: when a ping fails and the pool is closed or dropped by
  somebody else meanwhile, the read lock is released a second time. With nobody
  else in it the runtime stops the process ("RUnlock of unlocked RWMutex"); with a
  reader in it a writer gets in beside that reader, or a waiting reader is never
  woken. All of these are reachable in `PoolManager` (`dead`, `twice`), with
  `GetOrCreate` alone.
- pool_manager.go:77: a pool whose first ping fails is returned to nobody, and not
  closed either.

And three smaller ones. `retry.go:71` means to leave a
network error `PENDING`, but its message ("provider call failed", `provider.go`)
contains the word "provider" that line 66 looks for, so the row becomes
`REJECTED`, possibly after a charge. A refreshed access token has the role
"refresh", which no guard of `Roles` lets in: a lemma of `Sessions_proofs`
(`RefreshGrantsNothing`). And `throttle.go:48` calls `Throttle` a sliding window,
which it is not: `TwoWindows` says what it is.

### Bounds, and why they are enough

- Two requests under one key: every property of `Purchase` speaks of at most
  two requests (the one and the one whose row, lock or answer it meets). The
  theorems hold for any number.
- `MaxRetries = 1` where the code has 3: the loop body is the same in every
  round, and one retry already has an answer that is overwritten by another.
  `call_chain` uses 3. The theorems are for any number.
- `MaxCrashes = 1`: a crash clears what is in memory; a second one finds the
  state a first one can leave.
- The idempotency store (24 h) and the version key (30 days) do not expire:
  the behaviours considered are shorter than that. `AnyKey` includes the uuid
  of a request without the header, which nobody else can use.
- `Limit` 1 or 2 for the page of 100, against two rows: full in
  `event_of_another`, not full in `reconciler`. `reconciler` takes one answer
  for each thing crons can do with one; the theorems cover all eight.
- `sessions`: two callers because a check, a refresh or an INSERT meets one
  other statement; two pairs of tokens because a refresh makes the second.
  `MaxTime` is the lifetime of a refresh token, so that both kinds expire.
- `limits`: `Limit = 1` with four requests can exceed `2 * Limit` and see the
  entry reset and dropped; `MaxTime = 6` is two windows. `Delay = 2` lets a
  goroutine be overtaken by the reset of a window, and `Window` is longer than
  it. `Horizon` is larger than `Window`, as an hour is than a minute. The
  theorems are for any number of requests and all four times.
- `accounts`: more than two sign-ups of one email add nothing to the overlap of
  two; a second email is there to be confused with.
- `call_chain`: a fifth of a second is requestor's first pause; seconds are cut at
  five ticks, so every phase of a timestamp occurs. Steps are instant, or take as
  long as the grace of a store command (3 seconds), or just under the attempt
  timeout or the gateway's: these decide who is first. Callers leave after 4
  seconds or after 30. Of the provider's answers there is one for each way the
  loop and the row can go. The theorems are for all timeouts and durations.
- `pool_manager`: two goroutines to get a lock released twice, a third to be
  harmed by it; each can call again while the others are under way. With two tenants
  the same holds (936 thousand states); tenants meet in the lock only.
- `MaxFaults`: expired contexts, failed listings and restarts; lost PATCHes are
  not counted. `MaxCharges = 2` is only there to keep the counter finite.
- `TTL = 2`, `Patience = 1`, `MaxTime = 3`: the boundary `TTL + Patience` is
  reached by changes committed at time 0.

### Fairness

`FairSpec` of `Purchase` is weakly fair for each handler and each detached
goroutine. A goroutine that can run is run by Go; a call ends
because every client in the code has a timeout. Clients owe
nothing (`Create`, `Cancel`), and neither crashes nor the expiry of a lock are ever required. `Retryable`
answers may go on for ever: `Answered` holds because attempts are counted, not
because the provider recovers. `FairSpec` of `Reconciler` is weakly fair for the
cron loop (gocron fires every minute) and for the PATCHes under way (every
exchange ends in an answer or an error). `Insert`, `Expire` and `Restart` are
not fair, and the two faults are bounded. `FairSpec` of `PoolManager` is weakly
fair for each goroutine once it has called: Go runs whoever can run, a ping ends
with its caller's context, and a mutex goes to a waiter in turn. Nobody has to
call. `CallChain` needs no fairness: its properties bound times. The other modules
have no liveness property.

Deadlock is checked for `Reconciler`, which runs for ever. Behaviours of
`Purchase`, `CallChain`, `PoolManager`, `TxQueryCache`, `Accounts`, `Sessions` and
`Limits` end when all requests have ended, the process has died, or the bounded clock or supply of tokens is used up.

## 4. What is proved

For all values of the constants that satisfy the assumptions of the modules:

| theorem | says |
|---|---|
| `TypeCorrect` | `Spec => []TypeOK` |
| `ExecutedIsReal` | `Spec => []ExecutedWasCharged` |
| `EventsFollowRows` | `Spec => []EventBackedByRow` |
| `LockIsExclusive` | `Spec => []MutualExclusion` |
| `EveryPathUnlocks` | `Spec => []LockHasReason` |
| `AnswersAreBacked` | `Spec => []AnswerBackedByRow` |
| `ChargesAreAccounted` | `Spec => []ChargeHasRowOr500` |
| `ReplayIsFree` | `Spec => []LateNeverCharges` |
| `LedgerKept` | `Spec => ImplementsLedger` |
| `ChainTypeCorrect` | `Spec => []TypeOK` of `CallChain` |
| `ChainImplementsPurchase` | `Spec => ImplementsPurchase`, if `Patience + 2 * Grace < LockTTL` |
| `LockOutlivesRequest` | `Spec => []LockCoversRequest` |
| `SignaturesLast` | `Spec => []ExpiryComesLast` |
| `HangsAreSeldomPending` | `Spec => []PendingFitsPatience` |
| `CronTypeCorrect` | `Spec => []TypeOK` of `Reconciler` |
| `SettledRowsStay` | `Spec => SettledStays` |
| `SettledRowsAreFree` | `Spec => SettledNotCharged` |
| `NoVerdictIsOvertaken` | `Spec => NoChargeOverVerdict` |
| `RetriedIsReal` | `Spec => []ExecutedWasCharged` of `Reconciler` |
| `CacheTypeCorrect` | `Spec => []TypeOK` of `TxQueryCache` |
| `StalenessIsBounded` | `Spec => []Staleness` |
| `NoCacheIsFresh` | `Spec => []BypassIsFresh` |
| `SessionTypeCorrect` | `Spec => []TypeOK` of `Sessions` |
| `LogoutHolds` | `Spec => []LogoutIsFinal` |
| `LogoutIsExact` | `Spec => []OnlyLogoutRefuses` |
| `RefreshAddsNothing` | `Spec => []GrantedByLogin` |
| `LimitsTypeCorrect` | `Spec => []TypeOK` of `Limits` |
| `LogKeepsTheLimit` | `Spec => []SlidingLimit` |
| `RefusalsAreDue` | `Spec => []RefusedOnlyWhenFull` |
| `TwoWindowsAtMost` | `Spec => []TwoWindows` |
| `PoolTypeCorrect` | `Spec => []TypeOK` of `PoolManager` |
| `OnePoolForEachTenant` | `Spec => []OnePoolPerTenant` |
| `LockSound` | `Spec => []LockIsSound` |
| `AccountsTypeCorrect` | `Spec => []TypeOK` of `Accounts` |
| `SignupChecksOnce` | `Spec => []LateAreRefused` |
| `LoginIsExact` | `Spec => []TokenIsOwn` |
| `OwnersGetIn` | `Spec => []OwnerGetsIn` |

The assumptions are those TLC evaluates on every run: keys are not requests,
headers and bodies are well-formed, the bounds are natural numbers, and an
absent value is none of the others; a second, an attempt's timeout and the first
pause are positive; the window of a limiter is no longer than
what its clean-up keeps; no user logs in with the role "refresh". The one
hypothesis a theorem adds is that of `ChainImplementsPurchase`, which the code's
timeouts satisfy as long as a command to Redis or Postgres takes less than 15
seconds. Sets are assumed finite where something is counted
or a last one is taken: the requests of `Limits`, the rows of `Reconciler`, the changes
of `TxQueryCache`; not the requests of `Purchase` or the goroutines of `PoolManager`.

The argument. None of the invariants is inductive alone; each is proved with a
strengthening that says what the goroutine knows at each label, request by
request:

- *Rows* (`RowInv`): a request inserts its row only at `save`, with the status
  its last reply calls for; a reply `approved` comes with a charge; a publish
  goroutine exists only for an executed row. From it `ExecutedIsReal`.
- *Lock* (`LockInv`): if requests are not slow, a request in the critical
  section has its key in `lock` and is the only one of its key there. LockExpires
  needs the assumption, Unlock needs the uniqueness. `EveryPathUnlocks` needs neither:
  `LockHasReason` is inductive with `TypeOK`, because whoever leaves the critical section
  leaves it through `Unlock` or a crash.
- *Answers* (`AnswerInv`): an answer in Redis, and one about to be returned, is
  backed; rows are never changed, so it stays backed. `CacheResponse` needs
  that it follows `Save`, whose row it describes.
- *Replays* (`LateInv`): once a client was told `EXECUTED` under a key the
  store has an answer under it for good, and a late request is never past the
  look-up. Note that this does not need the lock at all, which is why it holds
  for slow requests too.

Steps that leave a request's own variables alone are dealt with once, by the
lemmas `Untouched` and `Frame`.

`LedgerKept` adds the step simulation: `Attempt` that charges is
`Charge`, `Save` and the committed half of `SaveFails` are `Book`, the steps to
`done` are `Tell`, a malformed `Create` is an `Arrive` that is turned away,
`PublishEvent` is `Notify`, and everything else, a crash included, stutters.

For `CallChain` the invariant (`Clock`) relates every step to the moment the caller
leaves: an exchange or a pause does not outlast it, of the commands to the stores
at most the one under way does, and only the unlock comes after that. So nothing
but `2 * Grace` comes on top of `Patience`, and the lock was set after the request
was sent. `Early` follows the first two attempts of `ValidateUser`, whose signature is
as old as the attempts and the pause between them, plus the fraction that was cut off.
`HungFits` says that each hung attempt has cost its whole timeout since the
request was sent.

`ChainImplementsPurchase` is the simulation of `Purchase` by the clocked chain, one
lemma for each action. `Related` says what they must agree on: before the row is
saved nothing was answered or left behind, a call that still goes on was not
approved, and once a handler has noticed that its context is done every step that
looks finds it done (`Purchase` never forgets a cancellation). `Notice` is
`Cancel`; the end of an attempt is `Attempt`; being refused by Sigil, waiting,
starting an attempt and a retry of the users service are stutters. A tick of the
clock is a stutter or the lock's expiry, and that step is where the timeouts come
in: `Purchase` lets the lock expire only when no handler is in its critical section,
which for the chain is `LockCoversRequest`.

For `Reconciler` the invariant (`VerdictInv`) says where a verdict can be. A
PATCH that is not old and has not reached its row (`Active`) finds it PENDING;
no row has two PATCHes that are not old; and each row crons has still to post
is PENDING without such a PATCH, except for the one crons waits for. `StartCycle` makes
every PATCH old, which is where Sigil's age limit enters: without it a late
verdict would meet a settled row. `PaidInv` adds that an `EXECUTED` verdict was
paid for. `SettledRowsStay`, `SettledRowsAreFree` and `NoVerdictIsOvertaken` then are
one look at each action that writes `rows` or `charges`.

For `TxQueryCache` the invariant (`StaleInv`) says that a list has every change
committed before it was read (`Complete`), and was stored at most `Patience`
after it was read, because the request that stores it is no older. Versions do
not occur in it at all: the bound rests on `TTL` alone, and that is why it
survives a version that is deleted, lost or stuck. `FreshInv` carries what a
reader that asked for no cache has to see from its start to its answer.

For `Sessions` the invariant (`SessionInv`) has one part for each way the table
and the tokens could part: a session about to be inserted is of a token nobody
has seen (`Opening`); a handed-out access token has its session, was logged out
or is over (`Accounted`); no session is both there and revoked (`Gone`); and a
request in flight carries a token it was given and a clock that is not ahead
(`Checking`). `Opening` is what makes logout final: nothing but its own first
INSERT ever puts a session into the table. `GrantedByLogin` follows from
`RefreshGrantsNothing`.

For `Limits` it is enough that the log has every request that still counts
(`LogInv`): pruning drops what is out of the window, the clean-up what is out of
the horizon, which is no shorter. Then a new entry makes at most `Limit`.
`Throttle` takes more. A refusal is due (`RefusedInv`) because an entry never
counts more than were admitted through it since its window began (`EntryInv`);
a goroutine that resets a window it came late to must not make the count of
others older than their window, which is where `Clock` bounds how late it is; and
the name of an entry is nobody else's before it is stored (`Fresh`). For
`TwoWindows` (`WindowsInv`) the requests admitted through the entry in the map are
split in two sets that the program does not keep: those the entry counts, and those
it counted in the window before, who had their verdicts by the time the present one
was opened, give or take `Delay`. Each has at most `Limit` members, a reset makes
the first the second, and who is in neither is too old for the stretch.

For `PoolManager` there are two invariants. `PoolInv` is about the map: behind the
write lock there is at most one goroutine (`Steady`), because a writer takes the
mutex of writers first, whatever the readers' counters say; so a pool is
created only into an entry found empty and still empty, and a pool that leaves the
map is closed in the same step. That is why one pool per tenant survives a
lock that has gone wrong. `LockInv` is about the counters, as long as no release was
unmatched: `readerCount` is the number of those who hold the lock or wait for it,
`readerWait` of those a pending writer waits for, woken readers that have not run
yet included, and the writer's semaphore is raised when there are none (`Counted`).
An unmatched release needs an entry that was there when line 39 looked and
is gone when line 47 does; whoever found none under the lock finds none again
(`StillMissing`).

For `Accounts` the invariant (`UnderWay`) says that the rows a request found on
arrival are still there, and that a sign-up past its look-up found none of its
email.

Only model-checked: the liveness properties (`Answered`,
`Retried`, `Returns`), because fairness and ENABLED are outside the prover's reach.
Every invariant and action property of a passing run, and both refinements, are
proved. The three properties of the runs that expect a violation are refuted, not
proved.

## 5. What is not modelled, and the plan

Not modelled for good: AES-GCM, HMAC, JWT signing and parsing, header copying,
logging, wiring, configuration, the generated API documentation. Each is stateless, or
runs once before a service starts.

Left out of what is modelled: temporary tokens, the blacklist nothing uses,
`Throttle.Remaining`, pagination, delivery by Kafka, the rounding of stored amounts to
two decimals (`crypto.go:177`, a pure function), `Connect` and `AutoMigrate`, clock
skew between hosts, several replicas of crons.

Order of the work, the most important first:

1. `Purchase` with its ledger and proofs. Done.
2. `Reconciler`, `TxQueryCache`, with their proofs. Done.
3. `Sessions` and `Roles`, `Limits`, `Accounts`, with their proofs. Done.
4. `CallChain`: timeouts, attempts, pauses and signatures on a clock, shown to
   implement `Purchase`, with its proofs. Done.
5. `PoolManager` over Go's RWMutex, with its proofs. Done.
6. Proofs of `TwoWindows` and `RefusedOnlyWhenFull`, and of the refinement of
   `Purchase` by `CallChain`. Done.
7. `Purchase`, `Reconciler` and `TxQueryCache` over one table and one Redis, and
   an abstract specification of sessions that `Sessions` implements.
