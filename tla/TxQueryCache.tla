---------------------------- MODULE TxQueryCache ----------------------------
(***************************************************************************)
(* The cached lists of GET /api/v1/transactions.  GetAll looks an answer   *)
(* up under the account's list version and keeps what it read from         *)
(* Postgres for five minutes.  Purchase's goroutine moves the version on   *)
(* with a GET and a SET; UpdateStatus deletes it.                          *)
(*                                                                         *)
(* One combination of status, type, page and limit is considered: the      *)
(* others have keys of their own.  The version key lives 30 days and does  *)
(* not expire here.                                                        *)
(***************************************************************************)
EXTENDS Naturals, FiniteSets

CONSTANTS
    Account,     \* account ids
    Change,      \* writes to Postgres: rows inserted or updated
    Purchase,    \* those that Purchase inserts; UpdateStatus makes the others
    AccountOf,   \* AccountOf[c]: the account of the row c writes
    Reader,      \* GET requests
    ListOf,      \* ListOf[r]: the account r asks for, or None for all of them
    Bypass,      \* the readers that send Cache-Control: no-cache
    None,        \* an absent value
    Faults,      \* Redis calls may fail, goroutines may die with the service
    TTL,         \* life of a list (5 minutes)
    Patience,    \* life of a request (30 seconds, the gateway's timeout)
    MaxTime      \* bound on the clock

ASSUME FiniteAssumption == IsFiniteSet(Change)
ASSUME SubsetAssumption == Purchase \subseteq Change /\ Bypass \subseteq Reader
ASSUME AccountAssumption ==
    AccountOf \in [Change -> Account] /\ ListOf \in [Reader -> Account \cup {None}]
ASSUME TimeAssumption == TTL \in Nat \ {0} /\ Patience \in Nat /\ MaxTime \in Nat
ASSUME FaultsAssumption == Faults \in BOOLEAN

VARIABLES
    now,        \* the clock
    committed,  \* Postgres: when each change was committed, or None
    task,       \* what is left to do of each change's invalidation
    vInt,       \* the version Purchase's goroutine is going to store
    version,    \* Redis: the list version of each account, or None
    list,       \* Redis: the list stored under each account and version
    pc,         \* where each reader is
    start,      \* when each reader started
    seen,       \* the version each reader goes by
    got,        \* the changes in what each reader read, or None
    ended,      \* when each reader answered, or None
    told,       \* history: purchases whose new version has been stored
    before      \* history: what was true when each reader started

writerVars  == <<committed, task, vInt, told>>
redisVars   == <<version, list>>
readerVars  == <<pc, start, seen, got, ended, before>>
vars == <<now, writerVars, redisVars, readerVars>>

\* A version as text.  Save marshals it to JSON, which puts it in quotes.
Plain(n)  == [n |-> n, quoted |-> FALSE]
Quoted(n) == [n |-> n, quoted |-> TRUE]
Version   == {Plain(0)} \cup {Quoted(n) : n \in 1 .. Cardinality(Purchase) + 1}

List == [changes : SUBSET Change, read : Nat, stored : Nat]

ASSUME AbsentAssumption == None \notin Account \cup Nat \cup List

\* fmt.Sscanf(version, "%d", &vInt): it reads nothing where a quote comes first.
Scan(text) == IF text = None \/ text.quoted THEN 0 ELSE text.n

\* The committed changes a reader's query selects.
Selected(r) ==
    {c \in Change : committed[c] # None /\ ListOf[r] \in {None, AccountOf[c]}}

Init ==
    /\ now = 0
    /\ committed = [c \in Change |-> None]
    /\ task = [c \in Change |-> "none"]
    /\ vInt = [c \in Change |-> 0]
    /\ version = [a \in Account |-> None]
    /\ list = [a \in Account |-> [v \in Version |-> None]]
    /\ pc = [r \in Reader |-> "idle"]
    /\ start = [r \in Reader |-> 0]
    /\ seen = [r \in Reader |-> Plain(0)]
    /\ got = [r \in Reader |-> None]
    /\ ended = [r \in Reader |-> None]
    /\ told = {}
    /\ before = [r \in Reader |-> [selected |-> {}, told |-> {}]]

Tick ==
    /\ now < MaxTime
    /\ now' = now + 1
    /\ UNCHANGED <<writerVars, redisVars, readerVars>>

-----------------------------------------------------------------------------
\* Plausible slip: UpdateStatus moves the version on as Purchase does.
TaskOfBump(c) == "get"

\* What comes after the commit: Purchase's goroutine, or UpdateStatus's DEL.
TaskOf(c) == IF c \in Purchase THEN "get" ELSE "del"

Commit(c) ==
    /\ committed[c] = None
    /\ committed' = [committed EXCEPT ![c] = now]
    /\ task' = [task EXCEPT ![c] = TaskOf(c)]
    /\ UNCHANGED <<now, vInt, told, redisVars, readerVars>>

\* GetRaw, whose errors (a missing key is one of them) count as version 0.
GetVersion(c) ==
    /\ task[c] = "get"
    /\ \E text \in {version[AccountOf[c]]} \cup (IF Faults THEN {None} ELSE {}) :
          vInt' = [vInt EXCEPT ![c] = Scan(text) + 1]
    /\ task' = [task EXCEPT ![c] = "save"]
    /\ UNCHANGED <<now, committed, told, redisVars, readerVars>>

\* Save, the new version as a JSON string.
SaveVersion(c) ==
    /\ task[c] = "save"
    /\ version' = [version EXCEPT ![AccountOf[c]] = Quoted(vInt[c])]
    /\ told' = told \cup {c}
    /\ task' = [task EXCEPT ![c] = "none"]
    /\ UNCHANGED <<now, committed, vInt, list, readerVars>>

\* invalidateCache, for the account of the row UpdateStatus looked up: the
\* newest of the table (see Reconciler), so perhaps another account's.
DelVersion(c) ==
    /\ task[c] = "del"
    /\ \E a \in Account : version' = [version EXCEPT ![a] = None]
    /\ task' = [task EXCEPT ![c] = "none"]
    /\ UNCHANGED <<now, committed, vInt, told, list, readerVars>>

\* A failing SET or DEL is ignored, and a crash loses what was under way.
Lose(c) ==
    /\ Faults
    /\ task[c] # "none"
    /\ task' = [task EXCEPT ![c] = "none"]
    /\ UNCHANGED <<now, committed, vInt, told, redisVars, readerVars>>

-----------------------------------------------------------------------------
\* A request is over after Patience: its context is cancelled, its calls fail.
InTime(r) == now - start[r] <= Patience

Finish(r) == pc' = [pc EXCEPT ![r] = "done"] /\ ended' = [ended EXCEPT ![r] = now]

\* The version is read, 0 standing for a missing one and for an error.
Start(r) ==
    /\ pc[r] = "idle"
    /\ start' = [start EXCEPT ![r] = now]
    /\ before' = [before EXCEPT ![r] =
                    [selected |-> Selected(r), told |-> told]]
    /\ IF ListOf[r] = None
       THEN pc' = [pc EXCEPT ![r] = "query"] /\ UNCHANGED seen
       ELSE /\ \E text \in {version[ListOf[r]]} \cup (IF Faults THEN {None} ELSE {}) :
                  seen' = [seen EXCEPT ![r] = IF text = None THEN Plain(0) ELSE text]
            /\ pc' = [pc EXCEPT ![r] = "lookup"]
    /\ UNCHANGED <<now, writerVars, redisVars, got, ended>>

\* Plausible slip: lists are stored without a time to live.
AliveForever(entry) == TRUE

Alive(entry) == now - entry.stored < TTL

\* Plausible slip: no-cache only keeps the answer from being stored.
LooksUpAlways(r) == TRUE

LooksUp(r) == r \notin Bypass

Stored(r) == list[ListOf[r]][seen[r]]

\* A list that is alive is the answer; otherwise Postgres is asked.
Lookup(r) ==
    /\ pc[r] = "lookup" /\ InTime(r)
    /\ \/ /\ LooksUp(r)
          /\ Stored(r) # None /\ Alive(Stored(r))
          /\ got' = [got EXCEPT ![r] = Stored(r)]
          /\ Finish(r)
       \/ /\ \/ ~LooksUp(r) \/ Faults
             \/ Stored(r) = None
             \/ Stored(r) # None /\ ~Alive(Stored(r))
          /\ pc' = [pc EXCEPT ![r] = "query"]
          /\ UNCHANGED <<got, ended>>
    /\ UNCHANGED <<now, writerVars, redisVars, start, seen, before>>

Query(r) ==
    /\ pc[r] = "query" /\ InTime(r)
    /\ got' = [got EXCEPT ![r] = [changes |-> Selected(r), read |-> now, stored |-> now]]
    /\ IF ListOf[r] = None
       THEN Finish(r)
       ELSE pc' = [pc EXCEPT ![r] = "fill"] /\ UNCHANGED ended
    /\ UNCHANGED <<now, writerVars, redisVars, start, seen, before>>

\* The list is stored under the version read at the start, however old it is.
FillKey(r) == seen[r]

Fill(r) ==
    /\ pc[r] = "fill" /\ InTime(r)
    /\ \/ list' = [list EXCEPT ![ListOf[r]][FillKey(r)] = [got[r] EXCEPT !.stored = now]]
       \/ Faults /\ UNCHANGED list
    /\ Finish(r)
    /\ UNCHANGED <<now, writerVars, version, start, seen, got, before>>

\* An error of Postgres, or a request that took too long: no answer.
GiveUp(r) ==
    /\ pc[r] \in {"lookup", "query", "fill"}
    /\ pc' = [pc EXCEPT ![r] = "done"]
    /\ UNCHANGED <<now, writerVars, redisVars, start, seen, got, ended, before>>

Next ==
    \/ Tick
    \/ \E c \in Change : Commit(c) \/ GetVersion(c) \/ SaveVersion(c) \/ DelVersion(c) \/ Lose(c)
    \/ \E r \in Reader : Start(r) \/ Lookup(r) \/ Query(r) \/ Fill(r) \/ GiveUp(r)

Spec == Init /\ [][Next]_vars

-----------------------------------------------------------------------------
TypeOK ==
    /\ now \in 0 .. MaxTime
    /\ committed \in [Change -> 0 .. MaxTime \cup {None}]
    /\ task \in [Change -> {"none", "get", "save", "del"}]
    /\ vInt \in [Change -> 0 .. Cardinality(Purchase) + 1]
    /\ version \in [Account -> Version \cup {None}]
    /\ list \in [Account -> [Version -> List \cup {None}]]
    /\ pc \in [Reader -> {"idle", "lookup", "query", "fill", "done"}]
    /\ start \in [Reader -> 0 .. MaxTime]
    /\ seen \in [Reader -> Version]
    /\ got \in [Reader -> List \cup {None}]
    /\ ended \in [Reader -> 0 .. MaxTime \cup {None}]
    /\ told \subseteq Purchase
    /\ before \in [Reader -> [selected : SUBSET Change, told : SUBSET Purchase]]

(***************************************************************************)
(* How old an answer can get: whatever becomes of the versions, it lacks   *)
(* no change that was committed TTL + Patience before it.  (A list lives   *)
(* for TTL from when it was stored, up to Patience after it was read.)     *)
(***************************************************************************)
Staleness ==
    \A r \in Reader, c \in Change :
        /\ ended[r] # None /\ committed[c] # None
        /\ ListOf[r] \in {None, AccountOf[c]}
        /\ committed[c] + TTL + Patience <= ended[r]
        => c \in got[r].changes

(***************************************************************************)
(* Cache-Control: no-cache, and a list of all accounts: the answer has     *)
(* every change committed before the request.                              *)
(***************************************************************************)
BypassIsFresh ==
    \A r \in Reader :
        ended[r] # None /\ (r \in Bypass \/ ListOf[r] = None) =>
            before[r].selected \subseteq got[r].changes

Own(r) == {c \in Change : ListOf[r] = AccountOf[c]}

(***************************************************************************)
(* purchase.go:167, "7. Invalidación asíncrona de la versión de la caché": *)
(* once the invalidation for a purchase is done, readers see the purchase. *)
(***************************************************************************)
PurchaseIsSeen ==
    \A r \in Reader :
        ended[r] # None => before[r].told \cap Own(r) \subseteq got[r].changes
=============================================================================
