----------------------------- MODULE PoolManager -----------------------------
(***************************************************************************)
(* TenantPoolManager: one pool of database connections per tenant, in a    *)
(* map under a sync.RWMutex.  The goroutines that call it interleave at    *)
(* every lock, look-up and ping.                                           *)
(*                                                                         *)
(* GetOrCreate looks the map up a second time after it may have released   *)
(* its read lock (pool_manager.go:47), and releases it again when the      *)
(* entry has gone.  What that does depends on how Go's RWMutex counts, so  *)
(* its counters are part of the model.                                     *)
(***************************************************************************)
EXTENDS Integers, FiniteSets

CONSTANTS
    Proc,       \* the goroutines
    Slug,       \* the tenants
    None,       \* no pool, no tenant, no holder
    MaxCalls    \* bound on the calls

ASSUME MaxCallsAssumption == MaxCalls \in Nat
ASSUME NoneAssumption == None \notin Nat \cup Slug \cup Proc

VARIABLES
    pc,         \* where each goroutine is
    op,         \* the method it is in
    slug,       \* the tenant it is called for
    found,      \* the pool its first look-up found
    pools,      \* the map
    made,       \* pools opened so far; a pool is its number
    tenant,     \* the tenant a pool was opened for
    closed,     \* pools that were closed
    handed,     \* pools that GetOrCreate has returned
    readers,    \* RWMutex: readers that hold it or wait for it
    leaving,    \* RWMutex: readers the pending writer still waits for
    writer,     \* RWMutex: who holds or waits for the write lock
    readerSem,  \* RWMutex: wake-ups for waiting readers
    writerSem,  \* RWMutex: wake-ups for the waiting writer
    dead,       \* the runtime has stopped the process
    bare,       \* history: goroutines that read the map without the lock
    twice,      \* history: goroutines that released a lock they did not hold
    calls       \* calls made so far

mutexVars == <<readers, leaving, writer, readerSem, writerSem>>
poolVars == <<pools, made, tenant, closed, handed>>
callVars == <<op, slug, found>>
historyVars == <<bare, twice, calls>>
vars == <<pc, callVars, poolVars, mutexVars, dead, historyVars>>

Pool == 1 .. MaxCalls
Method == {"GetOrCreate", "Close", "CloseAll", "Inspect"}

Init ==
    /\ pc = [p \in Proc |-> "idle"]
    /\ op = [p \in Proc |-> None]
    /\ slug = [p \in Proc |-> None]
    /\ found = [p \in Proc |-> None]
    /\ pools = [s \in Slug |-> None]
    /\ made = 0
    /\ tenant = [i \in Pool |-> None]
    /\ closed = {}
    /\ handed = {}
    /\ readers = 0
    /\ leaving = 0
    /\ writer = None
    /\ readerSem = 0
    /\ writerSem = 0
    /\ dead = FALSE
    /\ bare = {}
    /\ twice = {}
    /\ calls = 0

GoTo(p, l) == pc' = [pc EXCEPT ![p] = l]

\* A pool that was closed does not answer; one that is open may or may not,
\* as its database and the caller's context are.
MayAnswer(i) == i \notin closed

-----------------------------------------------------------------------------
(***************************************************************************)
(* sync.RWMutex.  A writer announces itself and then waits for the readers *)
(* inside; readers that come after it wait for its Unlock, which wakes as  *)
(* many as are counted.  Releasing a read lock nobody holds or waits for   *)
(* is a fatal error; releasing somebody else's is not noticed.             *)
(***************************************************************************)
RLock(p) ==
    /\ pc[p] = "rlock"
    /\ readers' = readers + 1
    /\ GoTo(p, IF writer = None THEN "look" ELSE "parked")
    /\ UNCHANGED <<callVars, poolVars, leaving, writer, readerSem, writerSem, dead,
                   historyVars>>

ReaderWakes(p) ==
    /\ pc[p] = "parked"
    /\ readerSem > 0
    /\ readerSem' = readerSem - 1
    /\ GoTo(p, "look")
    /\ UNCHANGED <<callVars, poolVars, readers, leaving, writer, writerSem, dead,
                   historyVars>>

RUnlock ==
    /\ IF readers = 0
       THEN dead' = TRUE /\ UNCHANGED <<readers, leaving, writerSem>>
       ELSE /\ readers' = readers - 1
            /\ leaving' = IF writer = None THEN leaving ELSE leaving - 1
            /\ writerSem' = IF writer # None /\ leaving = 1 THEN writerSem + 1 ELSE writerSem
            /\ UNCHANGED dead
    /\ UNCHANGED <<writer, readerSem>>

Lock(p) ==
    /\ pc[p] = "wlock"
    /\ writer = None
    /\ writer' = p
    /\ leaving' = leaving + readers
    /\ GoTo(p, IF readers # 0 /\ leaving + readers # 0 THEN "drain" ELSE "inside")
    /\ UNCHANGED <<callVars, poolVars, readers, readerSem, writerSem, dead, historyVars>>

WriterWakes(p) ==
    /\ pc[p] = "drain"
    /\ writerSem > 0
    /\ writerSem' = writerSem - 1
    /\ GoTo(p, "inside")
    /\ UNCHANGED <<callVars, poolVars, readers, leaving, writer, readerSem, dead,
                   historyVars>>

Unlock ==
    /\ writer' = None
    /\ readerSem' = readerSem + readers
    /\ UNCHANGED <<readers, leaving, writerSem>>

-----------------------------------------------------------------------------
\* A call of one of the methods.  Health and Count are Inspect: both read the
\* map under the read lock.
Call(p) ==
    /\ pc[p] = "idle"
    /\ calls < MaxCalls
    /\ calls' = calls + 1
    /\ \E m \in Method, s \in Slug :
        /\ op' = [op EXCEPT ![p] = m]
        /\ slug' = [slug EXCEPT ![p] = s]
        /\ GoTo(p, IF m \in {"GetOrCreate", "Inspect"} THEN "rlock" ELSE "wlock")
    /\ found' = [found EXCEPT ![p] = None]
    /\ UNCHANGED <<poolVars, mutexVars, dead, bare, twice>>

WritersInside == {q \in Proc : pc[q] \in {"inside", "create"}}

\* The map is read next to whoever writes it, and the runtime notices.
Raced(p) ==
    /\ WritersInside # {}
    /\ dead' = TRUE
    /\ UNCHANGED <<pc, mutexVars>>

\* Plausible slip: the pool is taken from the map without asking whether it is there.
KnownAlways(p) == TRUE

Known(p) == pools[slug[p]] # None

\* The first look-up of GetOrCreate.  A pool that is found is pinged without the
\* lock; without one, the lock is kept.
Look(p) ==
    /\ pc[p] = "look" /\ op[p] = "GetOrCreate"
    /\ found' = [found EXCEPT ![p] = pools[slug[p]]]
    /\ \/ Known(p) /\ RUnlock /\ GoTo(p, "ping")
       \/ ~Known(p) /\ GoTo(p, "again") /\ UNCHANGED <<mutexVars, dead>>
       \/ Raced(p)
    /\ UNCHANGED <<op, slug, poolVars, historyVars>>

Inspect(p) ==
    /\ pc[p] = "look" /\ op[p] = "Inspect"
    /\ (RUnlock /\ GoTo(p, "idle")) \/ Raced(p)
    /\ UNCHANGED <<callVars, poolVars, historyVars>>

Ping(p) ==
    /\ pc[p] = "ping"
    /\ \/ /\ MayAnswer(found[p])
          /\ handed' = handed \cup {found[p]}
          /\ GoTo(p, "idle")
       \/ /\ GoTo(p, "again")
          /\ UNCHANGED handed
    /\ UNCHANGED <<callVars, pools, made, tenant, closed, mutexVars, dead, historyVars>>

\* Plausible slips: the test of line 47 the wrong way round, or left out with
\* what it guards.
ReleasesIfThere(p) == pools[slug[p]] # None
ReleasesNever(p) == FALSE

\* Line 47: whether the read lock is released here.
Releases(p) == pools[slug[p]] = None

(***************************************************************************)
(* Lines 47 to 49.  With the lock still held this releases it; after a     *)
(* failed ping the map is read without the lock, and a lock may be         *)
(* released that this goroutine no longer holds.                           *)
(***************************************************************************)
Again(p) ==
    /\ pc[p] = "again"
    /\ bare' = IF found[p] # None THEN bare \cup {p} ELSE bare
    /\ twice' = IF found[p] # None /\ Releases(p) THEN twice \cup {p} ELSE twice
    /\ \/ /\ GoTo(p, "wlock")
          /\ IF Releases(p) THEN RUnlock ELSE UNCHANGED <<mutexVars, dead>>
       \/ Raced(p)
    /\ UNCHANGED <<callVars, poolVars, calls>>

\* Plausible slip: the dead pool is dropped without being closed.
DiscardOpen(s) == closed

\* Close of a pool, errors ignored.
Discard(s) == IF pools[s] = None THEN closed ELSE closed \cup {pools[s]}

(***************************************************************************)
(* The double check behind the write lock: the pool another goroutine made *)
(* meanwhile is returned if it answers and thrown away if it does not.     *)
(***************************************************************************)
Check(p) ==
    /\ pc[p] = "inside" /\ op[p] = "GetOrCreate"
    /\ \/ /\ pools[slug[p]] # None
          /\ MayAnswer(pools[slug[p]])
          /\ handed' = handed \cup {pools[slug[p]]}
          /\ GoTo(p, "idle")
          /\ Unlock
          /\ UNCHANGED <<pools, closed>>
       \/ /\ closed' = Discard(slug[p])
          /\ pools' = [pools EXCEPT ![slug[p]] = None]
          /\ GoTo(p, "create")
          /\ UNCHANGED <<handed, mutexVars>>
    /\ UNCHANGED <<callVars, made, tenant, dead, historyVars>>

\* OpenDB and its first ping.  A pool that does not answer is neither kept nor closed.
Create(p) ==
    /\ pc[p] = "create"
    /\ made' = made + 1
    /\ tenant' = [tenant EXCEPT ![made + 1] = slug[p]]
    /\ \/ /\ pools' = [pools EXCEPT ![slug[p]] = made + 1]
          /\ handed' = handed \cup {made + 1}
       \/ UNCHANGED <<pools, handed>>
    /\ GoTo(p, "idle")
    /\ Unlock
    /\ UNCHANGED <<callVars, closed, dead, historyVars>>

\* Close and CloseAll, behind the write lock.
Close(p) ==
    /\ pc[p] = "inside" /\ op[p] = "Close"
    /\ closed' = Discard(slug[p])
    /\ pools' = [pools EXCEPT ![slug[p]] = None]
    /\ GoTo(p, "idle")
    /\ Unlock
    /\ UNCHANGED <<callVars, made, tenant, handed, dead, historyVars>>

CloseAll(p) ==
    /\ pc[p] = "inside" /\ op[p] = "CloseAll"
    /\ closed' = closed \cup UNION {Discard(s) : s \in Slug}
    /\ pools' = [s \in Slug |-> None]
    /\ GoTo(p, "idle")
    /\ Unlock
    /\ UNCHANGED <<callVars, made, tenant, handed, dead, historyVars>>

GetOrCreate(p) == Look(p) \/ Ping(p) \/ Again(p) \/ Check(p) \/ Create(p)
Mutex(p) == RLock(p) \/ ReaderWakes(p) \/ Lock(p) \/ WriterWakes(p)
Step(p) == ~dead /\ (GetOrCreate(p) \/ Inspect(p) \/ Close(p) \/ CloseAll(p) \/ Mutex(p))

Next == \E p \in Proc : (~dead /\ Call(p)) \/ Step(p)

Spec == Init /\ [][Next]_vars

(***************************************************************************)
(* Go runs every goroutine that can run, a ping ends with its context, and *)
(* w.Lock of the RWMutex is handed on in turn; with that many calls, each  *)
(* gets it.  Nobody has to call.                                           *)
(***************************************************************************)
FairSpec == Spec /\ \A p \in Proc : WF_vars(Step(p))

-----------------------------------------------------------------------------
TypeOK ==
    /\ pc \in [Proc -> {"idle", "rlock", "parked", "look", "ping", "again", "wlock",
                        "drain", "inside", "create"}]
    /\ op \in [Proc -> Method \cup {None}]
    /\ slug \in [Proc -> Slug \cup {None}]
    /\ found \in [Proc -> Pool \cup {None}]
    /\ pools \in [Slug -> Pool \cup {None}]
    /\ made \in 0 .. MaxCalls
    /\ tenant \in [Pool -> Slug \cup {None}]
    /\ closed \subseteq 1 .. made
    /\ handed \subseteq 1 .. made
    /\ readers \in Nat /\ leaving \in Int
    /\ writer \in Proc \cup {None}
    /\ readerSem \in Nat /\ writerSem \in Nat
    /\ dead \in BOOLEAN
    /\ bare \subseteq Proc /\ twice \subseteq Proc
    /\ calls \in 0 .. MaxCalls

(***************************************************************************)
(* One pool per tenant: a pool that GetOrCreate has returned and nobody    *)
(* has closed is the one in the map, so that its connections are limited   *)
(* and CloseAll reaches it, although pools are pinged without the lock,    *)
(* replaced when they do not answer and closed by others, and even when    *)
(* the read lock has been released twice (pool_manager.go:36-84).          *)
(***************************************************************************)
OnePoolPerTenant ==
    \A i \in handed \ closed : pools[tenant[i]] = i

\* Who holds the read lock, by where it is.
Holders == {p \in Proc : pc[p] = "look" \/ (pc[p] = "again" /\ found[p] = None)}

(***************************************************************************)
(* The RWMutex is sound as long as line 47 has not released it twice: it   *)
(* counts the readers there are, and no writer is inside with one.  And    *)
(* the runtime stops the process only after line 47 has read the map       *)
(* without the lock.                                                       *)
(***************************************************************************)
LockIsSound ==
    /\ twice = {} =>
        /\ readers = Cardinality(Holders \cup {p \in Proc : pc[p] = "parked"})
        /\ WritersInside # {} => Holders = {}
    /\ dead => bare # {}

(***************************************************************************)
(* Every call returns, readers and writers waiting for each other, unless  *)
(* the process died or a read lock was released twice: that may cost a     *)
(* waiting reader its wake-up.                                             *)
(***************************************************************************)
Returns == \A p \in Proc : pc[p] # "idle" ~> pc[p] = "idle" \/ dead \/ twice # {}
=============================================================================
