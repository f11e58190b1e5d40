-------------------------- MODULE PoolManager_proofs --------------------------
(***************************************************************************)
(* The safety of the tenant pool manager, for any goroutines (not even     *)
(* finitely many), tenants and number of calls.                            *)
(***************************************************************************)
EXTENDS PoolManager, FiniteSetTheorems, TLAPS

Active == {p \in Proc : pc[p] # "idle"}
Parked == {p \in Proc : pc[p] = "parked"}

\* Where a goroutine is once it has asked for the write lock and been counted.
Behind == {"drain", "inside", "create"}

(***************************************************************************)
(* What the program counter says of a goroutine's call.  Behind the write  *)
(* lock there is one goroutine, so nobody fills the entry it has emptied.  *)
(***************************************************************************)
Steady ==
    \A p \in Proc :
        /\ pc[p] # "idle" => slug[p] \in Slug /\ op[p] \in Method
        /\ pc[p] = "ping" => found[p] # None
        /\ pc[p] \in {"ping", "again", "create"} => op[p] = "GetOrCreate"
        /\ pc[p] \in Behind <=> writer = p
        /\ pc[p] = "create" => pools[slug[p]] = None

\* A call opens at most one pool, at its end.
Opened ==
    /\ IsFiniteSet(Active)
    /\ made + Cardinality(Active) <= calls
    /\ \A i \in 1 .. made : tenant[i] \in Slug

\* The map holds open pools of the right tenant, all of them handed out.
MapInv ==
    /\ \A s \in Slug : pools[s] # None =>
          pools[s] \in handed \ closed /\ tenant[pools[s]] = s
    /\ \A p \in Proc : found[p] # None => found[p] \in handed

PoolInv == TypeOK /\ Steady /\ Opened /\ MapInv /\ OnePoolPerTenant

-----------------------------------------------------------------------------
LEMMA PoolInit == MaxCallsAssumption /\ NoneAssumption /\ Init => PoolInv
<1> SUFFICES ASSUME MaxCallsAssumption, NoneAssumption, Init PROVE PoolInv
  OBVIOUS
<1>1. Active = {} /\ IsFiniteSet(Active) /\ Cardinality(Active) = 0
  BY FS_EmptySet DEF Init, Active
<1>2. TypeOK
  <2>1. /\ pc \in [Proc -> {"idle", "rlock", "parked", "look", "ping", "again", "wlock",
                              "drain", "inside", "create"}]
        /\ op \in [Proc -> Method \cup {None}] /\ slug \in [Proc -> Slug \cup {None}]
        /\ found \in [Proc -> Pool \cup {None}] /\ pools \in [Slug -> Pool \cup {None}]
        /\ tenant \in [Pool -> Slug \cup {None}]
    BY DEF Init
  <2>2. /\ made \in 0 .. MaxCalls /\ calls \in 0 .. MaxCalls
        /\ readers \in Nat /\ leaving \in Int /\ readerSem \in Nat /\ writerSem \in Nat
    BY DEF Init, MaxCallsAssumption
  <2>3. /\ closed \subseteq 1 .. made /\ handed \subseteq 1 .. made
        /\ bare \subseteq Proc /\ twice \subseteq Proc
        /\ writer \in Proc \cup {None} /\ dead \in BOOLEAN
    BY DEF Init
  <2> QED
    BY <2>1, <2>2, <2>3 DEF TypeOK
<1>3. Steady
  BY DEF Init, Steady, Behind, NoneAssumption
<1>4. Opened
  BY <1>1 DEF Init, Opened
<1>5. MapInv /\ OnePoolPerTenant
  BY DEF Init, MapInv, OnePoolPerTenant
<1> QED
  BY <1>2, <1>3, <1>4, <1>5 DEF PoolInv

\* One goroutine more among finitely many, or one less.
LEMMA PlusOne ==
    ASSUME NEW S, IsFiniteSet(S), NEW x, x \notin S
    PROVE  /\ IsFiniteSet(S \cup {x}) /\ Cardinality(S) \in Nat
           /\ Cardinality(S \cup {x}) = Cardinality(S) + 1
BY FS_AddElement, FS_CardinalityType

LEMMA MinusOne ==
    ASSUME NEW S, IsFiniteSet(S), NEW x \in S
    PROVE  /\ IsFiniteSet(S \ {x}) /\ Cardinality(S) \in Nat /\ Cardinality(S \ {x}) \in Nat
           /\ Cardinality(S \ {x}) = Cardinality(S) - 1
           /\ Cardinality(S) > 0
<1>1. IsFiniteSet(S \ {x}) /\ Cardinality(S \ {x}) = Cardinality(S) - 1
  BY FS_RemoveElement
<1>2. Cardinality(S) \in Nat /\ Cardinality(S \ {x}) \in Nat
  BY <1>1, FS_CardinalityType
<1> QED
  BY <1>1, <1>2

\* A call under way leaves room for the pool it may open.
LEMMA Room ==
    ASSUME MaxCallsAssumption, TypeOK, Opened, NEW p \in Proc, pc[p] # "idle"
    PROVE  made + 1 \in Pool /\ made + 1 \in 1 .. MaxCalls
<1>1. p \in Active
  BY DEF Active
<1>2. Cardinality(Active) \in Nat /\ Cardinality(Active) > 0
  BY <1>1, MinusOne DEF Opened
<1> QED
  BY <1>2 DEF TypeOK, Opened, Pool, MaxCallsAssumption

\* The read lock's release leaves the types as they are.
LEMMA RUnlockType ==
    ASSUME TypeOK, RUnlock
    PROVE  /\ readers' \in Nat /\ leaving' \in Int /\ writer' \in Proc \cup {None}
           /\ readerSem' \in Nat /\ writerSem' \in Nat /\ dead' \in BOOLEAN
           /\ writer' = writer
<1>1. CASE readers = 0
  BY <1>1 DEF TypeOK, RUnlock
<1>2. CASE readers # 0
  <2>1. readers' = readers - 1 /\ leaving' \in {leaving, leaving - 1}
        /\ writerSem' \in {writerSem, writerSem + 1} /\ UNCHANGED <<writer, readerSem, dead>>
    BY <1>2 DEF RUnlock
  <2> QED
    BY <1>2, <2>1 DEF TypeOK
<1> QED
  BY <1>1, <1>2

LEMMA DiscardType ==
    ASSUME TypeOK, MapInv, NEW s \in Slug
    PROVE  Discard(s) \subseteq 1 .. made
BY DEF TypeOK, MapInv, Discard

LEMMA TypeStep ==
    MaxCallsAssumption /\ NoneAssumption /\ PoolInv /\ Next => TypeOK'
<1> SUFFICES ASSUME MaxCallsAssumption, NoneAssumption, PoolInv,
                    NEW p \in Proc, (~dead /\ Call(p)) \/ Step(p)
             PROVE  TypeOK'
  BY DEF Next
<1> USE DEF PoolInv, GoTo
<1>1. CASE Call(p)
  BY <1>1 DEF Call, TypeOK, poolVars, mutexVars, MaxCallsAssumption
<1>2. CASE Look(p)
  <2>1. found' \in [Proc -> Pool \cup {None}]
    BY <1>2 DEF Look, TypeOK, Steady
  <2>2. UNCHANGED <<op, slug, poolVars, historyVars>>
    BY <1>2 DEF Look
  <2>3. CASE RUnlock /\ GoTo(p, "ping")
    BY <2>1, <2>2, <2>3, RUnlockType DEF TypeOK, poolVars, historyVars
  <2>4. CASE GoTo(p, "again") /\ UNCHANGED <<mutexVars, dead>>
    BY <2>1, <2>2, <2>4 DEF TypeOK, poolVars, historyVars, mutexVars
  <2>5. CASE Raced(p)
    BY <2>1, <2>2, <2>5 DEF Raced, TypeOK, poolVars, historyVars, mutexVars
  <2> QED
    BY <1>2, <2>3, <2>4, <2>5 DEF Look
<1>3. CASE Ping(p)
  <2>1. found[p] \in 1 .. made
    BY <1>3 DEF Ping, Steady, MapInv, TypeOK
  <2>2. handed' \subseteq 1 .. made
    BY <1>3, <2>1 DEF Ping, TypeOK
  <2> QED
    BY <1>3, <2>2 DEF Ping, TypeOK, callVars, mutexVars, historyVars
<1>4. CASE Again(p)
  <2>1. /\ UNCHANGED <<callVars, poolVars, calls>>
        /\ bare' \subseteq Proc /\ twice' \subseteq Proc
    BY <1>4 DEF Again, TypeOK
  <2>2. CASE GoTo(p, "wlock") /\ RUnlock
    BY <2>1, <2>2, RUnlockType DEF TypeOK, callVars, poolVars
  <2>3. CASE GoTo(p, "wlock") /\ UNCHANGED <<mutexVars, dead>>
    BY <2>1, <2>3 DEF TypeOK, callVars, poolVars, mutexVars
  <2>4. CASE Raced(p)
    BY <2>1, <2>4 DEF Raced, TypeOK, callVars, poolVars, mutexVars
  <2> QED
    BY <1>4, <2>2, <2>3, <2>4 DEF Again
<1>5. CASE Check(p)
  <2>1. slug[p] \in Slug /\ Discard(slug[p]) \subseteq 1 .. made
    BY <1>5, DiscardType DEF Check, Steady
  <2>2. UNCHANGED <<callVars, made, tenant, dead, historyVars>>
    BY <1>5 DEF Check
  <2>3. CASE /\ pools[slug[p]] # None /\ handed' = handed \cup {pools[slug[p]]}
             /\ GoTo(p, "idle") /\ Unlock /\ UNCHANGED <<pools, closed>>
    <3>1. handed' \subseteq 1 .. made
      BY <2>1, <2>3 DEF MapInv, TypeOK
    <3> QED
      BY <2>2, <2>3, <3>1 DEF Unlock, TypeOK, callVars, historyVars
  <2>4. CASE /\ closed' = Discard(slug[p]) /\ pools' = [pools EXCEPT ![slug[p]] = None]
             /\ GoTo(p, "create") /\ UNCHANGED <<handed, mutexVars>>
    BY <2>1, <2>2, <2>4 DEF TypeOK, callVars, historyVars, mutexVars
  <2> QED
    BY <1>5, <2>3, <2>4 DEF Check
<1>6. CASE Create(p)
  <2>1. made + 1 \in Pool /\ made + 1 \in 1 .. MaxCalls /\ slug[p] \in Slug
    BY <1>6, Room DEF Create, Steady
  <2>2. made' \in 0 .. MaxCalls /\ 1 .. made \subseteq 1 .. made' /\ made + 1 \in 1 .. made'
    BY <1>6, <2>1 DEF Create, TypeOK, MaxCallsAssumption
  <2>3. handed' \subseteq 1 .. made' /\ closed' \subseteq 1 .. made'
    BY <1>6, <2>2 DEF Create, TypeOK
  <2>4. tenant' \in [Pool -> Slug \cup {None}] /\ pools' \in [Slug -> Pool \cup {None}]
    BY <1>6, <2>1 DEF Create, TypeOK
  <2> QED
    BY <1>6, <2>2, <2>3, <2>4 DEF Create, Unlock, TypeOK, callVars, historyVars
<1>7. CASE Close(p)
  <2>1. slug[p] \in Slug /\ Discard(slug[p]) \subseteq 1 .. made
    BY <1>7, DiscardType DEF Close, Steady
  <2> QED
    BY <1>7, <2>1 DEF Close, Unlock, TypeOK, callVars, historyVars
<1>8. CASE CloseAll(p)
  <2>1. \A s \in Slug : Discard(s) \subseteq 1 .. made
    BY DiscardType
  <2>2. closed \cup UNION {Discard(s) : s \in Slug} \subseteq 1 .. made
    <3>1. \A x \in UNION {Discard(s) : s \in Slug} : \E s \in Slug : x \in Discard(s)
      OBVIOUS
    <3> QED
      BY <2>1, <3>1 DEF TypeOK
  <2> QED
    BY <1>8, <2>2 DEF CloseAll, Unlock, TypeOK, callVars, historyVars
<1>9. CASE Inspect(p)
  <2>1. UNCHANGED <<callVars, poolVars, historyVars>>
    BY <1>9 DEF Inspect
  <2>2. CASE RUnlock /\ GoTo(p, "idle")
    BY <2>1, <2>2, RUnlockType DEF TypeOK, callVars, poolVars, historyVars
  <2>3. CASE Raced(p)
    BY <2>1, <2>3 DEF Raced, TypeOK, callVars, poolVars, historyVars, mutexVars
  <2> QED
    BY <1>9, <2>2, <2>3 DEF Inspect
<1>10. CASE Mutex(p)
  <2>1. CASE RLock(p)
    BY <2>1 DEF RLock, TypeOK, callVars, poolVars, historyVars
  <2>2. CASE ReaderWakes(p)
    BY <2>2 DEF ReaderWakes, TypeOK, callVars, poolVars, historyVars
  <2>3. CASE Lock(p)
    BY <2>3 DEF Lock, TypeOK, callVars, poolVars, historyVars
  <2>4. CASE WriterWakes(p)
    BY <2>4 DEF WriterWakes, TypeOK, callVars, poolVars, historyVars
  <2> QED
    BY <1>10, <2>1, <2>2, <2>3, <2>4 DEF Mutex
<1> QED
  BY <1>1, <1>2, <1>3, <1>4, <1>5, <1>6, <1>7, <1>8, <1>9, <1>10 DEF Step, GetOrCreate

(***************************************************************************)
(* How many goroutines are in a call, and how many pools they may open.    *)
(***************************************************************************)
LEMMA CallEnds ==
    ASSUME TypeOK, Opened, NEW p \in Proc, pc[p] # "idle", GoTo(p, "idle"),
           calls' = calls, made' \in {made, made + 1}
    PROVE  IsFiniteSet(Active') /\ made' + Cardinality(Active') <= calls'
<1>1. p \in Active /\ Active' = Active \ {p}
  BY DEF Active, GoTo, TypeOK
<1>2. /\ IsFiniteSet(Active') /\ Cardinality(Active) \in Nat /\ Cardinality(Active') \in Nat
      /\ Cardinality(Active') = Cardinality(Active) - 1
  BY <1>1, MinusOne DEF Opened
<1> QED
  BY <1>2 DEF Opened, TypeOK

LEMMA CallGoesOn ==
    ASSUME TypeOK, Opened, NEW p \in Proc, pc[p] # "idle",
           NEW l, l # "idle", GoTo(p, l) \/ UNCHANGED pc,
           UNCHANGED <<made, calls>>
    PROVE  IsFiniteSet(Active') /\ made' + Cardinality(Active') <= calls'
<1>1. Active' = Active
  BY DEF Active, GoTo, TypeOK
<1> QED
  BY <1>1 DEF Opened

LEMMA OpenedStep ==
    MaxCallsAssumption /\ NoneAssumption /\ PoolInv /\ Next => Opened'
<1> SUFFICES ASSUME MaxCallsAssumption, NoneAssumption, PoolInv,
                    NEW p \in Proc, (~dead /\ Call(p)) \/ Step(p)
             PROVE  Opened'
  BY DEF Next
<1> USE DEF PoolInv
<1>1. ASSUME UNCHANGED <<made, tenant>>,
             IsFiniteSet(Active') /\ made' + Cardinality(Active') <= calls'
      PROVE  Opened'
  BY <1>1 DEF Opened
<1>2. CASE Call(p)
  <2>1. p \notin Active /\ Active' = Active \cup {p}
    BY <1>2 DEF Call, Active, GoTo, TypeOK
  <2>2. /\ IsFiniteSet(Active') /\ Cardinality(Active) \in Nat
        /\ Cardinality(Active') = Cardinality(Active) + 1
    BY <2>1, PlusOne DEF Opened
  <2>3. UNCHANGED <<made, tenant>> /\ calls' = calls + 1
    BY <1>2 DEF Call, poolVars
  <2> QED
    BY <1>1, <2>2, <2>3 DEF Opened, TypeOK
<1>3. CASE Create(p)
  <2>1. made' = made + 1 /\ pc[p] # "idle" /\ GoTo(p, "idle") /\ calls' = calls
    BY <1>3 DEF Create, historyVars
  <2>2. \A i \in 1 .. made' : tenant'[i] \in Slug
    <3>1. slug[p] \in Slug /\ made + 1 \in Pool
      BY <1>3, Room DEF Create, Steady
    <3>2. \A i \in 1 .. made' : i = made + 1 \/ i \in 1 .. made
      BY <2>1 DEF TypeOK
    <3>3. \A i \in 1 .. made' : tenant'[i] = IF i = made + 1 THEN slug[p] ELSE tenant[i]
      <4>1. 1 .. made' \subseteq Pool
        BY <2>1, <3>1 DEF TypeOK, Pool, MaxCallsAssumption
      <4> QED
        BY <1>3, <4>1 DEF Create, TypeOK
    <3> QED
      BY <3>1, <3>2, <3>3 DEF Opened
  <2> QED
    BY <2>1, <2>2, CallEnds DEF Opened
<1>4. CASE ~Call(p) /\ ~Create(p)
  <2>1. UNCHANGED <<made, tenant, calls>> /\ pc[p] # "idle"
    BY <1>4 DEF Step, GetOrCreate, Look, Ping, Again, Check, Inspect, Close, CloseAll, Mutex,
       RLock, ReaderWakes, Lock, WriterWakes, poolVars, historyVars
  <2>2. \/ GoTo(p, "idle") \/ UNCHANGED pc
        \/ \E l \in {"look", "parked", "ping", "again", "wlock", "drain", "inside", "create"} :
             GoTo(p, l)
    BY <1>4 DEF Step, GetOrCreate, Look, Ping, Again, Check, Inspect, Close, CloseAll, Mutex,
       RLock, ReaderWakes, Lock, WriterWakes, Raced
  <2>3. IsFiniteSet(Active') /\ made' + Cardinality(Active') <= calls'
    BY <2>1, <2>2, CallEnds, CallGoesOn
  <2> QED
    BY <1>1, <2>1, <2>3
<1> QED
  BY <1>2, <1>3, <1>4

(***************************************************************************)
(* The program counters: whoever moves keeps its call, and only the owner  *)
(* of the write lock moves behind it.                                      *)
(***************************************************************************)
LEMMA SteadyStep ==
    MaxCallsAssumption /\ NoneAssumption /\ PoolInv /\ Next => Steady'
<1> SUFFICES ASSUME MaxCallsAssumption, NoneAssumption, PoolInv,
                    NEW p \in Proc, (~dead /\ Call(p)) \/ Step(p)
             PROVE  Steady'
  BY DEF Next
<1> USE DEF PoolInv, GoTo
<1>1. CASE Call(p)
  BY <1>1 DEF Call, Steady, TypeOK, poolVars, mutexVars, Behind
<1>2. CASE Look(p)
  <2>1. /\ UNCHANGED <<op, slug, pools, writer>> /\ pc[p] = "look" /\ op[p] = "GetOrCreate"
        /\ found' = [found EXCEPT ![p] = pools[slug[p]]]
    BY <1>2 DEF Look, RUnlock, Raced, poolVars, mutexVars
  <2>2. \/ pools[slug[p]] # None /\ pc' = [pc EXCEPT ![p] = "ping"]
        \/ pc' = [pc EXCEPT ![p] = "again"]
        \/ pc' = pc /\ WritersInside # {}
    BY <1>2 DEF Look, Known, Raced
  <2> QED
    BY <2>1, <2>2 DEF Steady, TypeOK, Behind
<1>3. CASE Inspect(p) \/ Ping(p) \/ Again(p)
  <2>1. /\ UNCHANGED <<op, slug, found, pools, writer>>
        /\ pc[p] = "look" \/ pc[p] \in {"ping", "again"}
        /\ \/ pc' = pc
           \/ \E l \in {"idle", "again", "wlock"} :
                pc' = [pc EXCEPT ![p] = l] /\ (l = "again" => op[p] = "GetOrCreate")
    BY <1>3 DEF Inspect, Ping, Again, Steady, RUnlock, Raced, callVars, poolVars, mutexVars
  <2> QED
    BY <2>1 DEF Steady, TypeOK, Behind
<1>4. CASE Check(p)
  <2>1. /\ UNCHANGED callVars /\ pc[p] = "inside" /\ op[p] = "GetOrCreate"
        /\ \/ pc' = [pc EXCEPT ![p] = "idle"] /\ writer' = None /\ pools' = pools
           \/ /\ pc' = [pc EXCEPT ![p] = "create"] /\ writer' = writer
              /\ pools' = [pools EXCEPT ![slug[p]] = None]
    BY <1>4 DEF Check, Unlock, mutexVars
  <2> QED
    BY <2>1 DEF Steady, TypeOK, Behind, callVars, NoneAssumption
<1>5. CASE Create(p) \/ Close(p) \/ CloseAll(p)
  <2>1. /\ UNCHANGED callVars /\ pc[p] \in {"inside", "create"}
        /\ pc' = [pc EXCEPT ![p] = "idle"] /\ writer' = None
    BY <1>5 DEF Create, Close, CloseAll, Unlock
  <2>2. \A q \in Proc : pc'[q] \notin Behind
    BY <2>1 DEF Steady, TypeOK, Behind
  <2> QED
    BY <2>1, <2>2 DEF Steady, TypeOK, Behind, callVars, NoneAssumption
<1>6. CASE Mutex(p)
  <2>1. UNCHANGED <<callVars, pools>>
    BY <1>6 DEF Mutex, RLock, ReaderWakes, Lock, WriterWakes, poolVars
  <2>2. CASE RLock(p) \/ ReaderWakes(p)
    <3>1. /\ pc[p] \in {"rlock", "parked"} /\ writer' = writer
          /\ \E l \in {"look", "parked"} : pc' = [pc EXCEPT ![p] = l]
      BY <2>2 DEF RLock, ReaderWakes
    <3> QED
      BY <2>1, <3>1 DEF Steady, TypeOK, Behind, callVars
  <2>3. CASE Lock(p) \/ WriterWakes(p)
    <3>1. /\ writer' = p /\ pc[p] \in {"wlock", "drain"} /\ writer \in {None, p}
          /\ \E l \in {"drain", "inside"} : pc' = [pc EXCEPT ![p] = l]
      BY <2>3 DEF Lock, WriterWakes, Steady, Behind
    <3> QED
      BY <2>1, <3>1 DEF Steady, TypeOK, Behind, callVars, NoneAssumption
  <2> QED
    BY <1>6, <2>2, <2>3 DEF Mutex
<1> QED
  BY <1>1, <1>2, <1>3, <1>4, <1>5, <1>6 DEF Step, GetOrCreate

(***************************************************************************)
(* Emptying one entry of the map closes what was in it, and nothing that   *)
(* another entry holds.                                                    *)
(***************************************************************************)
LEMMA Emptied ==
    ASSUME NoneAssumption, PoolInv, NEW t \in Slug, UNCHANGED <<made, tenant, handed>>,
           \A p \in Proc : found'[p] = found[p],
           pools' = [pools EXCEPT ![t] = None], closed' = Discard(t)
    PROVE  MapInv' /\ OnePoolPerTenant'
<1> USE DEF PoolInv
<1>1. \A i \in handed : i # None /\ tenant[i] \in Slug
  BY DEF TypeOK, Opened, NoneAssumption
<1>2. \A s \in Slug : pools'[s] = IF s = t THEN None ELSE pools[s]
  BY DEF TypeOK
<1>3. closed' = IF pools[t] = None THEN closed ELSE closed \cup {pools[t]}
  BY DEF Discard
<1>4. MapInv'
  BY <1>2, <1>3 DEF MapInv
<1>5. OnePoolPerTenant'
  BY <1>1, <1>2, <1>3 DEF OnePoolPerTenant
<1> QED
  BY <1>4, <1>5

LEMMA MapStep ==
    MaxCallsAssumption /\ NoneAssumption /\ PoolInv /\ Next => MapInv' /\ OnePoolPerTenant'
<1> SUFFICES ASSUME MaxCallsAssumption, NoneAssumption, PoolInv,
                    NEW p \in Proc, (~dead /\ Call(p)) \/ Step(p)
             PROVE  MapInv' /\ OnePoolPerTenant'
  BY DEF Next
<1> USE DEF PoolInv
<1>0. \A i \in handed : i \in 1 .. made /\ i # None /\ tenant[i] \in Slug
  BY DEF TypeOK, Opened, NoneAssumption
<1>1. ASSUME UNCHANGED <<pools, tenant, closed, handed>>,
             \A q \in Proc : found'[q] # None => found'[q] \in handed
      PROVE  MapInv' /\ OnePoolPerTenant'
  BY <1>1 DEF MapInv, OnePoolPerTenant
<1>2. CASE Call(p)
  BY <1>1, <1>2 DEF Call, MapInv, TypeOK, poolVars
<1>3. CASE Look(p)
  <2>1. slug[p] \in Slug /\ found' = [found EXCEPT ![p] = pools[slug[p]]]
    BY <1>3 DEF Look, Steady
  <2> QED
    BY <1>1, <1>3, <2>1 DEF Look, MapInv, TypeOK, poolVars
<1>4. CASE Inspect(p) \/ Again(p) \/ Mutex(p)
  BY <1>1, <1>4 DEF Inspect, Again, Mutex, RLock, ReaderWakes, Lock, WriterWakes, MapInv, callVars,
     poolVars
<1>5. CASE Ping(p)
  <2>1. found[p] \in handed /\ handed' \in {handed, handed \cup {found[p]}}
    BY <1>5 DEF Ping, Steady, MapInv
  <2>2. handed' = handed
    BY <2>1
  <2> QED
    BY <1>1, <1>5, <2>2 DEF Ping, MapInv, callVars
<1>6. CASE Check(p)
  <2>1. slug[p] \in Slug /\ UNCHANGED <<found, made, tenant>>
    BY <1>6 DEF Check, Steady, callVars
  <2>2. CASE pools[slug[p]] # None /\ handed' = handed \cup {pools[slug[p]]}
             /\ UNCHANGED <<pools, closed>>
    <3>1. handed' = handed
      BY <2>1, <2>2 DEF MapInv
    <3> QED
      BY <1>1, <2>1, <2>2, <3>1 DEF MapInv
  <2>3. CASE closed' = Discard(slug[p]) /\ pools' = [pools EXCEPT ![slug[p]] = None]
             /\ handed' = handed
    BY <2>1, <2>3, Emptied
  <2> QED
    BY <1>6, <2>2, <2>3 DEF Check
<1>7. CASE Close(p)
  BY <1>7, Emptied DEF Close, Steady, callVars
<1>8. CASE CloseAll(p)
  <2>1. /\ \A s \in Slug : pools'[s] = None
        /\ UNCHANGED <<handed, tenant, found>>
        /\ \A s \in Slug : Discard(s) \subseteq closed'
    BY <1>8 DEF CloseAll, callVars
  <2>2. MapInv'
    BY <2>1 DEF MapInv
  <2>3. \A i \in handed : i \in closed'
    <3> SUFFICES ASSUME NEW i \in handed PROVE i \in Discard(tenant[i])
      BY <1>0, <2>1
    <3> QED
      BY <1>0 DEF Discard, OnePoolPerTenant
  <2> QED
    BY <2>1, <2>2, <2>3 DEF OnePoolPerTenant
<1>9. CASE Create(p)
  <2>1. /\ slug[p] \in Slug /\ pools[slug[p]] = None
        /\ made + 1 \in Pool /\ made + 1 # None /\ made + 1 \notin closed
        /\ \A i \in 1 .. made : i \in Pool /\ i # made + 1
    BY <1>9, Room DEF Create, Steady, TypeOK, NoneAssumption, Pool, MaxCallsAssumption
  <2>2. /\ UNCHANGED <<found, closed>>
        /\ tenant' = [tenant EXCEPT ![made + 1] = slug[p]]
        /\ \/ /\ pools' = [pools EXCEPT ![slug[p]] = made + 1]
              /\ handed' = handed \cup {made + 1}
           \/ UNCHANGED <<pools, handed>>
    BY <1>9 DEF Create, callVars
  <2>3. /\ tenant'[made + 1] = slug[p]
        /\ \A i \in handed : tenant'[i] = tenant[i] /\ i # made + 1
    BY <1>0, <2>1, <2>2 DEF TypeOK
  <2>4. CASE UNCHANGED <<pools, handed>>
    BY <2>2, <2>3, <2>4 DEF MapInv, OnePoolPerTenant
  <2>5. CASE /\ pools' = [pools EXCEPT ![slug[p]] = made + 1]
             /\ handed' = handed \cup {made + 1}
    <3>1. \A s \in Slug : pools'[s] = IF s = slug[p] THEN made + 1 ELSE pools[s]
      BY <2>5 DEF TypeOK
    <3>2. MapInv'
      BY <2>1, <2>2, <2>3, <2>5, <3>1 DEF MapInv
    <3>3. OnePoolPerTenant'
      BY <1>0, <2>1, <2>2, <2>3, <2>5, <3>1 DEF OnePoolPerTenant
    <3> QED
      BY <3>2, <3>3
  <2> QED
    BY <2>2, <2>4, <2>5
<1> QED
  BY <1>2, <1>3, <1>4, <1>5, <1>6, <1>7, <1>8, <1>9 DEF Step, GetOrCreate

LEMMA Stuttered == PoolInv /\ UNCHANGED vars => PoolInv'
BY DEF PoolInv, TypeOK, Steady, Opened, MapInv, OnePoolPerTenant, Active, vars, callVars, poolVars,
   mutexVars, historyVars

\* What is known of the pools and of the calls in every state.
THEOREM PoolsInductive == Spec => []PoolInv
<1>1. MaxCallsAssumption /\ NoneAssumption
  BY MaxCallsAssumption, NoneAssumption
<1>2. Init => PoolInv
  BY <1>1, PoolInit
<1>3. PoolInv /\ [Next]_vars => PoolInv'
  BY <1>1, TypeStep, SteadyStep, OpenedStep, MapStep, Stuttered DEF PoolInv
<1> QED
  BY <1>2, <1>3, PTL DEF Spec

(***************************************************************************)
(* Every variable keeps its type: no call opens more than one pool, and a  *)
(* pool that was closed or handed out had been opened.                     *)
(***************************************************************************)
THEOREM PoolTypeCorrect == Spec => []TypeOK
<1>1. PoolInv => TypeOK
  BY DEF PoolInv
<1> QED
  BY <1>1, PoolsInductive, PTL

(***************************************************************************)
(* GetOrCreate never leaves two open pools with its callers for a tenant,  *)
(* whatever its goroutines do to the read lock: the write lock alone       *)
(* keeps the map consistent (pool_manager.go:36-84).                       *)
(***************************************************************************)
THEOREM OnePoolForEachTenant == Spec => []OnePoolPerTenant
<1>1. PoolInv => OnePoolPerTenant
  BY DEF PoolInv
<1> QED
  BY <1>1, PoolsInductive, PTL

-----------------------------------------------------------------------------
(***************************************************************************)
(* How sync.RWMutex counts while every release is matched: a pending       *)
(* writer waits for those who hold the lock and those who were woken but   *)
(* have not run yet, and is woken when there are none.                     *)
(***************************************************************************)
Counted ==
    /\ readers = Cardinality(Holders) + Cardinality(Parked)
    /\ readerSem <= Cardinality(Parked)
    /\ writer = None =>
          leaving = 0 /\ writerSem = 0 /\ readerSem = Cardinality(Parked)
    /\ writer # None =>
          /\ leaving = Cardinality(Holders) + readerSem
          /\ pc[writer] = "drain" =>
                (leaving > 0 /\ writerSem = 0) \/ (leaving = 0 /\ writerSem = 1)
          /\ pc[writer] # "drain" => leaving = 0 /\ writerSem = 0

\* Whoever found no entry and kept the read lock will find none again.
StillMissing == \A p \in Holders : pc[p] = "again" => pools[slug[p]] = None

MutexInv == twice = {} => Counted /\ StillMissing

\* The process stops, and a lock is released twice, only after a bare read.
BareInv == (dead => bare # {}) /\ (twice # {} => bare # {})

\* Those who hold the read lock or wait for it are among those in a call.
LEMMA Finite ==
    ASSUME Opened
    PROVE  /\ IsFiniteSet(Holders) /\ IsFiniteSet(Parked)
           /\ Cardinality(Holders) \in Nat /\ Cardinality(Parked) \in Nat
<1>1. Holders \subseteq Active /\ Parked \subseteq Active
  BY DEF Holders, Parked, Active
<1>2. IsFiniteSet(Holders) /\ IsFiniteSet(Parked)
  BY <1>1, FS_Subset DEF Opened
<1> QED
  BY <1>2, FS_CardinalityType

\* A writer inside has nobody next to it.
LEMMA Alone ==
    ASSUME NoneAssumption, PoolInv, Counted, NEW q \in Proc, pc[q] \in {"inside", "create"}
    PROVE  /\ writer = q /\ Holders = {} /\ Cardinality(Holders) = 0
           /\ leaving = 0 /\ readerSem = 0 /\ writerSem = 0
<1>1. writer = q /\ writer # None
  BY DEF PoolInv, Steady, Behind, NoneAssumption
<1>2. leaving = Cardinality(Holders) + readerSem /\ leaving = 0 /\ writerSem = 0
  BY <1>1 DEF Counted
<1>3. Cardinality(Holders) = 0 /\ readerSem = 0
  BY <1>2, Finite DEF PoolInv, TypeOK
<1> QED
  BY <1>1, <1>2, <1>3, Finite, FS_EmptySet DEF PoolInv

\* Nobody who holds the read lock races with a writer.
LEMMA NoRace ==
    ASSUME NoneAssumption, PoolInv, Counted, NEW p \in Holders
    PROVE  ~Raced(p)
BY Alone DEF Raced, WritersInside

\* A holder releases the read lock.
LEMMA Released ==
    ASSUME NoneAssumption, PoolInv, Counted, NEW p \in Holders, RUnlock,
           NEW l, l \notin Behind, l # "parked", GoTo(p, l),
           Holders' = Holders \ {p}
    PROVE  Counted' /\ dead' = dead
<1> USE DEF PoolInv
<1>1. /\ Cardinality(Holders') = Cardinality(Holders) - 1
      /\ Cardinality(Holders) > 0 /\ Cardinality(Holders) \in Nat
      /\ Cardinality(Parked) \in Nat
  BY MinusOne, Finite
<1>2. p \in Proc /\ pc[p] \notin Behind /\ pc[p] # "parked"
  BY DEF Holders, Behind
<1>3. Parked' = Parked
  BY <1>2 DEF Parked, GoTo, TypeOK
<1>4. readers > 0 /\ readers \in Nat
  BY <1>1 DEF Counted, TypeOK
<1>5. /\ readers' = readers - 1 /\ UNCHANGED <<dead, writer, readerSem>>
      /\ leaving' = IF writer = None THEN leaving ELSE leaving - 1
      /\ writerSem' = IF writer # None /\ leaving = 1 THEN writerSem + 1 ELSE writerSem
  BY <1>4 DEF RUnlock
<1>6. CASE writer = None
  BY <1>1, <1>3, <1>5, <1>6 DEF Counted, TypeOK
<1>7. CASE writer # None
  <2>1. writer \in Proc /\ pc'[writer] = pc[writer] /\ writer # p
    BY <1>2, <1>7 DEF Steady, TypeOK, GoTo
  <2>2. leaving = Cardinality(Holders) + readerSem /\ readerSem \in Nat /\ leaving > 0
    BY <1>1, <1>7 DEF Counted, TypeOK
  <2>3. pc[writer] = "drain" /\ writerSem = 0
    BY <1>7, <2>2 DEF Counted
  <2>4. /\ leaving' = Cardinality(Holders') + readerSem'
        /\ (leaving' > 0 /\ writerSem' = 0) \/ (leaving' = 0 /\ writerSem' = 1)
    BY <1>1, <1>5, <1>7, <2>2, <2>3
  <2>5. /\ readers' = Cardinality(Holders') + Cardinality(Parked')
        /\ readerSem' <= Cardinality(Parked')
    BY <1>1, <1>3, <1>5 DEF Counted
  <2> QED
    BY <1>5, <1>7, <2>1, <2>3, <2>4, <2>5 DEF Counted
<1> QED
  BY <1>5, <1>6, <1>7

\* The writer releases the write lock and wakes the readers that wait.
LEMMA WriterLeaves ==
    ASSUME NoneAssumption, PoolInv, Counted, NEW p \in Proc, pc[p] \in {"inside", "create"},
           GoTo(p, "idle"), Unlock, UNCHANGED found
    PROVE  Counted' /\ StillMissing'
<1>1. Holders' = Holders /\ Parked' = Parked
  BY DEF Holders, Parked, GoTo, PoolInv, TypeOK
<1>2. /\ Holders = {} /\ Cardinality(Holders) = 0
      /\ leaving = 0 /\ readerSem = 0 /\ writerSem = 0
  BY Alone
<1>3. /\ writer' = None /\ readerSem' = readers /\ UNCHANGED <<readers, leaving, writerSem>>
  BY <1>2 DEF Unlock, PoolInv, TypeOK
<1>4. readers = Cardinality(Parked) /\ Cardinality(Parked) \in Nat
  BY <1>2, Finite DEF PoolInv, Counted
<1>5. /\ Cardinality(Holders') = 0 /\ Holders' = {}
      /\ Cardinality(Parked') = readers' /\ readers' \in Nat
  BY <1>1, <1>2, <1>3, <1>4
<1>6. Counted'
  BY <1>2, <1>3, <1>5 DEF Counted
<1>7. StillMissing'
  BY <1>5 DEF StillMissing
<1> QED
  BY <1>6, <1>7

\* A step that takes nobody in or out of the read lock.
LEMMA NotCounted ==
    ASSUME Counted, StillMissing, UNCHANGED mutexVars,
           writer # None => (pc'[writer] = "drain" <=> pc[writer] = "drain"),
           Holders' = Holders, Parked' = Parked
    PROVE  Counted'
BY DEF Counted, mutexVars

LEMMA MutexStep ==
    NoneAssumption /\ PoolInv /\ MutexInv /\ Next => MutexInv'
<1> SUFFICES ASSUME NoneAssumption, PoolInv, MutexInv, twice' = {},
                    NEW p \in Proc, (~dead /\ Call(p)) \/ Step(p)
             PROVE  Counted' /\ StillMissing'
  BY DEF Next, MutexInv
<1>0. twice = {} /\ Counted /\ StillMissing
  <2>1. twice \subseteq twice'
    BY DEF Step, GetOrCreate, Call, Look, Ping, Again, Check, Create, Inspect, Close, CloseAll,
       Mutex, RLock, ReaderWakes, Lock, WriterWakes, historyVars
  <2> QED
    BY <2>1 DEF MutexInv
<1>1. ASSUME Holders' = Holders, Parked' = Parked, UNCHANGED <<mutexVars, pools>>,
             writer # None => (pc'[writer] = "drain" <=> pc[writer] = "drain"),
             \A q \in Holders : pc'[q] = pc[q] /\ slug'[q] = slug[q]
      PROVE  Counted' /\ StillMissing'
  BY <1>0, <1>1, NotCounted DEF StillMissing
<1>2. ASSUME p \in Holders, RUnlock, UNCHANGED <<slug, pools>>,
             NEW l \in {"idle", "ping", "wlock"}, GoTo(p, l),
             \A q \in Proc \ {p} : found'[q] = found[q]
      PROVE  Counted' /\ StillMissing'
  <2>1. Holders' = Holders \ {p} /\ \A q \in Holders' : pc'[q] = pc[q]
    BY <1>2 DEF Holders, GoTo, PoolInv, TypeOK
  <2>2. Counted'
    BY <1>0, <1>2, <2>1, Released DEF Behind
  <2>3. StillMissing'
    BY <1>0, <1>2, <2>1 DEF StillMissing
  <2> QED
    BY <2>2, <2>3
<1>3. CASE Call(p)
  <2>1. /\ pc[p] = "idle" /\ UNCHANGED <<pools, mutexVars>>
        /\ \E l \in {"rlock", "wlock"} : pc' = [pc EXCEPT ![p] = l]
        /\ \E t \in Slug : slug' = [slug EXCEPT ![p] = t]
        /\ found' = [found EXCEPT ![p] = None]
    BY <1>3 DEF Call, GoTo, poolVars
  <2>2. Holders' = Holders /\ p \notin Holders /\ Parked' = Parked
    BY <2>1 DEF Holders, Parked, PoolInv, TypeOK
  <2>3. \A q \in Proc \ {p} : pc'[q] = pc[q] /\ slug'[q] = slug[q]
    BY <2>1 DEF PoolInv, TypeOK
  <2>4. writer # p /\ (writer # None => writer \in Proc)
    BY <2>1 DEF PoolInv, Steady, TypeOK, Behind
  <2> QED
    BY <1>1, <2>1, <2>2, <2>3, <2>4 DEF Holders
<1>4. CASE Look(p)
  <2>1. /\ p \in Holders /\ UNCHANGED <<slug, pools>>
        /\ found' = [found EXCEPT ![p] = pools[slug[p]]]
    BY <1>4 DEF Look, Holders, poolVars
  <2>2. CASE RUnlock /\ GoTo(p, "ping")
    BY <1>2, <2>1, <2>2 DEF PoolInv, TypeOK
  <2>3. CASE ~Known(p) /\ GoTo(p, "again") /\ UNCHANGED mutexVars
    <3>1. /\ found'[p] = None /\ pools[slug[p]] = None /\ pc'[p] = "again"
          /\ \A q \in Proc \ {p} : pc'[q] = pc[q] /\ found'[q] = found[q]
      BY <2>1, <2>3 DEF Known, GoTo, PoolInv, TypeOK, Holders
    <3>2. Holders' = Holders /\ Parked' = Parked
      BY <1>4, <3>1 DEF Look, Holders, Parked
    <3>3. writer # p /\ (writer # None => writer \in Proc)
      BY <1>4 DEF Look, PoolInv, Steady, TypeOK, Behind
    <3>4. Counted'
      BY <1>0, <2>3, <3>1, <3>2, <3>3, NotCounted
    <3>5. StillMissing'
      BY <1>0, <2>1, <3>1, <3>2 DEF StillMissing, Holders
    <3> QED
      BY <3>4, <3>5
  <2> QED
    BY <1>0, <1>4, <2>1, <2>2, <2>3, NoRace DEF Look
<1>5. CASE Inspect(p)
  <2>1. p \in Holders /\ UNCHANGED <<slug, found, pools>>
    BY <1>5 DEF Inspect, Holders, callVars, poolVars
  <2> QED
    BY <1>0, <1>2, <1>5, <2>1, NoRace DEF Inspect
<1>6. CASE Ping(p)
  <2>1. /\ pc[p] = "ping" /\ found[p] # None /\ UNCHANGED <<slug, found, pools, mutexVars>>
        /\ \E l \in {"idle", "again"} : pc' = [pc EXCEPT ![p] = l]
    BY <1>6 DEF Ping, GoTo, callVars, PoolInv, Steady
  <2>2. /\ Holders' = Holders /\ Parked' = Parked
        /\ \A q \in Holders : pc'[q] = pc[q]
    BY <2>1 DEF Holders, Parked, PoolInv, TypeOK
  <2>3. writer # None => pc'[writer] = pc[writer]
    BY <2>1 DEF PoolInv, Steady, TypeOK, Behind
  <2> QED
    BY <1>1, <2>1, <2>2, <2>3
<1>7. CASE Again(p)
  <2>1. pc[p] = "again" /\ UNCHANGED <<slug, found, pools>> /\ ~(found[p] # None /\ Releases(p))
    BY <1>7 DEF Again, callVars, poolVars
  <2>2. CASE found[p] = None
    <3>1. p \in Holders /\ Releases(p)
      BY <1>0, <2>1, <2>2 DEF Holders, Releases, StillMissing
    <3> QED
      BY <1>0, <1>2, <1>7, <2>1, <3>1, NoRace DEF Again
  <2>3. CASE found[p] # None
    <3>1. /\ UNCHANGED mutexVars
          /\ pc' = [pc EXCEPT ![p] = "wlock"] \/ pc' = pc
      BY <1>7, <2>1, <2>3 DEF Again, GoTo, Raced
    <3>2. /\ Holders' = Holders /\ Parked' = Parked
          /\ \A q \in Holders : pc'[q] = pc[q]
      BY <2>1, <2>3, <3>1 DEF Holders, Parked, PoolInv, TypeOK
    <3>3. writer # None => pc'[writer] = pc[writer]
      BY <2>1, <3>1 DEF PoolInv, Steady, TypeOK, Behind
    <3> QED
      BY <1>1, <2>1, <3>1, <3>2, <3>3
  <2> QED
    BY <2>2, <2>3
<1>8. CASE Check(p)
  <2>1. pc[p] = "inside" /\ UNCHANGED <<slug, found>>
    BY <1>8 DEF Check, callVars
  <2>2. CASE GoTo(p, "create") /\ UNCHANGED mutexVars
    <3>1. Holders' = Holders /\ Parked' = Parked /\ pc'[p] = "create"
      BY <2>1, <2>2 DEF Holders, Parked, GoTo, PoolInv, TypeOK
    <3>2. writer = p /\ Holders = {}
      BY <1>0, <2>1, Alone
    <3> QED
      BY <1>0, <2>1, <2>2, <3>1, <3>2, NotCounted DEF StillMissing
  <2> QED
    BY <1>0, <1>8, <2>1, <2>2, WriterLeaves DEF Check
<1>9. CASE Create(p) \/ Close(p) \/ CloseAll(p)
  BY <1>0, <1>9, WriterLeaves DEF Create, Close, CloseAll, callVars
<1>10. CASE Mutex(p)
  <2>0. UNCHANGED <<slug, found, pools>> /\ (writer # None => writer \in Proc)
    BY <1>10 DEF Mutex, RLock, ReaderWakes, Lock, WriterWakes, callVars, poolVars, PoolInv, TypeOK
  <2>1. \A l : GoTo(p, l) => \A q \in Proc : pc'[q] = IF q = p THEN l ELSE pc[q]
    BY DEF GoTo, PoolInv, TypeOK
  <2>2. /\ IsFiniteSet(Holders) /\ IsFiniteSet(Parked)
        /\ Cardinality(Holders) \in Nat /\ Cardinality(Parked) \in Nat
        /\ readers \in Nat /\ readerSem \in Nat /\ leaving \in Int /\ writerSem \in Nat
    BY Finite DEF PoolInv, TypeOK
  <2>3. CASE RLock(p)
    <3>1. /\ pc[p] = "rlock" /\ p \notin Holders /\ p \notin Parked /\ writer # p
          /\ readers' = readers + 1 /\ UNCHANGED <<leaving, writer, readerSem, writerSem>>
      BY <2>3 DEF RLock, Holders, Parked, PoolInv, Steady, Behind
    <3>2. CASE writer = None /\ GoTo(p, "look")
      <4>1. Holders' = Holders \cup {p} /\ Parked' = Parked
        BY <2>0, <2>1, <3>1, <3>2 DEF Holders, Parked
      <4>2. Cardinality(Holders') = Cardinality(Holders) + 1
        BY <2>2, <3>1, <4>1, PlusOne
      <4>3. Counted'
        BY <1>0, <2>2, <3>1, <3>2, <4>1, <4>2 DEF Counted
      <4>4. StillMissing'
        BY <1>0, <2>0, <2>1, <3>2, <4>1 DEF StillMissing, Holders
      <4> QED
        BY <4>3, <4>4
    <3>3. CASE writer # None /\ GoTo(p, "parked")
      <4>1. Holders' = Holders /\ Parked' = Parked \cup {p}
        BY <2>0, <2>1, <3>1, <3>3 DEF Holders, Parked
      <4>2. Cardinality(Parked') = Cardinality(Parked) + 1
        BY <2>2, <3>1, <4>1, PlusOne
      <4>3. pc'[writer] = pc[writer]
        BY <2>0, <2>1, <3>1, <3>3
      <4>4. Counted'
        BY <1>0, <2>2, <3>1, <3>3, <4>1, <4>2, <4>3 DEF Counted
      <4>5. StillMissing'
        BY <1>0, <2>0, <2>1, <3>1, <3>3, <4>1 DEF StillMissing, Holders
      <4> QED
        BY <4>4, <4>5
    <3> QED
      BY <2>3, <3>2, <3>3 DEF RLock
  <2>4. CASE ReaderWakes(p)
    <3>1. /\ pc[p] = "parked" /\ p \notin Holders /\ p \in Parked /\ writer # p
          /\ readerSem > 0 /\ readerSem' = readerSem - 1 /\ GoTo(p, "look")
          /\ UNCHANGED <<readers, leaving, writer, writerSem>>
      BY <2>4 DEF ReaderWakes, Holders, Parked, PoolInv, Steady, Behind
    <3>2. Holders' = Holders \cup {p} /\ Parked' = Parked \ {p}
      BY <2>0, <2>1, <3>1 DEF Holders, Parked
    <3>3. /\ Cardinality(Holders') = Cardinality(Holders) + 1
          /\ Cardinality(Parked') = Cardinality(Parked) - 1
      BY <2>2, <3>1, <3>2, PlusOne, MinusOne
    <3>4. writer # None => pc'[writer] = pc[writer]
      BY <2>0, <2>1, <3>1
    <3>5. /\ readers' = Cardinality(Holders') + Cardinality(Parked')
          /\ readerSem' <= Cardinality(Parked')
          /\ writer' = None =>
                leaving' = 0 /\ writerSem' = 0 /\ readerSem' = Cardinality(Parked')
          /\ writer' # None => leaving' = Cardinality(Holders') + readerSem'
      BY <1>0, <2>2, <3>1, <3>3 DEF Counted
    <3>6. Counted'
      BY <1>0, <3>1, <3>4, <3>5 DEF Counted
    <3>7. StillMissing'
      BY <1>0, <2>0, <2>1, <3>1, <3>2 DEF StillMissing, Holders
    <3> QED
      BY <3>6, <3>7
  <2>5. CASE Lock(p)
    <3>1. /\ pc[p] = "wlock" /\ writer = None /\ writer' = p /\ p # None
          /\ leaving' = leaving + readers /\ UNCHANGED <<readers, readerSem, writerSem>>
          /\ GoTo(p, IF readers # 0 /\ leaving + readers # 0 THEN "drain" ELSE "inside")
      BY <2>5 DEF Lock, NoneAssumption
    <3>2. /\ leaving = 0 /\ writerSem = 0 /\ readerSem = Cardinality(Parked)
          /\ readers = Cardinality(Holders) + Cardinality(Parked)
      BY <1>0, <3>1 DEF Counted
    <3>3. pc'[p] = IF readers # 0 THEN "drain" ELSE "inside"
      <4>1. leaving + readers = readers
        BY <2>2, <3>2
      <4>2. GoTo(p, IF readers # 0 THEN "drain" ELSE "inside")
        BY <3>1, <4>1
      <4> QED
        BY <2>1, <4>2
    <3>4. Holders' = Holders /\ Parked' = Parked /\ \A q \in Holders : pc'[q] = pc[q]
      BY <2>0, <2>1, <3>1, <3>3 DEF Holders, Parked
    <3>5. Counted'
      BY <2>2, <3>1, <3>2, <3>3, <3>4 DEF Counted
    <3>6. StillMissing'
      BY <1>0, <2>0, <3>4 DEF StillMissing
    <3> QED
      BY <3>5, <3>6
  <2>6. CASE WriterWakes(p)
    <3>1. /\ pc[p] = "drain" /\ writer = p /\ p # None /\ writerSem > 0
          /\ writerSem' = writerSem - 1 /\ UNCHANGED <<readers, leaving, writer, readerSem>>
          /\ GoTo(p, "inside")
      BY <2>6 DEF WriterWakes, PoolInv, Steady, Behind, NoneAssumption
    <3>2. leaving = 0 /\ writerSem = 1
      BY <1>0, <3>1 DEF Counted
    <3>3. /\ Holders' = Holders /\ Parked' = Parked /\ pc'[p] = "inside"
          /\ \A q \in Holders : pc'[q] = pc[q]
      BY <2>0, <2>1, <3>1 DEF Holders, Parked
    <3>4. Counted'
      BY <1>0, <3>1, <3>2, <3>3 DEF Counted
    <3>5. StillMissing'
      BY <1>0, <2>0, <3>3 DEF StillMissing
    <3> QED
      BY <3>4, <3>5
  <2> QED
    BY <1>10, <2>3, <2>4, <2>5, <2>6 DEF Mutex
<1> QED
  BY <1>3, <1>4, <1>5, <1>6, <1>7, <1>8, <1>9, <1>10 DEF Step, GetOrCreate

\* The process dies only after a bare read: a holder's release finds itself
\* counted, and its look-up finds no writer, as long as no lock was released twice.
LEMMA BareStep ==
    NoneAssumption /\ PoolInv /\ MutexInv /\ BareInv /\ Next => BareInv'
<1> SUFFICES ASSUME NoneAssumption, PoolInv, MutexInv, BareInv, bare' = {},
                    NEW p \in Proc, ~dead, Call(p) \/ Step(p)
             PROVE  ~dead' /\ twice' = {}
  BY DEF Next, Step, BareInv
<1>1. bare = {} /\ twice = {} /\ Counted
  <2>1. bare \subseteq bare'
    BY DEF Step, GetOrCreate, Call, Look, Ping, Again, Check, Create, Inspect, Close, CloseAll,
       Mutex, RLock, ReaderWakes, Lock, WriterWakes, historyVars
  <2> QED
    BY <2>1 DEF BareInv, MutexInv
<1>2. ASSUME p \in Holders, RUnlock PROVE dead' = dead
  <2>1. Cardinality(Holders) > 0 /\ Cardinality(Parked) \in Nat
    BY <1>2, Finite, MinusOne DEF PoolInv
  <2>2. readers # 0
    BY <1>1, <2>1, Finite DEF Counted, PoolInv
  <2> QED
    BY <1>2, <2>2 DEF RUnlock
<1>3. CASE Look(p) \/ Inspect(p)
  <2>1. p \in Holders /\ twice' = twice
    BY <1>3 DEF Look, Inspect, Holders, historyVars
  <2>2. ~Raced(p)
    BY <1>1, <2>1, NoRace
  <2>3. RUnlock \/ dead' = dead
    BY <1>3, <2>2 DEF Look, Inspect
  <2> QED
    BY <1>1, <1>2, <2>1, <2>3
<1>4. CASE Again(p)
  <2>1. p \in Holders /\ twice' = twice
    BY <1>4 DEF Again, Holders
  <2>2. ~Raced(p)
    BY <1>1, <2>1, NoRace
  <2>3. RUnlock \/ dead' = dead
    BY <1>4, <2>2 DEF Again
  <2> QED
    BY <1>1, <1>2, <2>1, <2>3
<1>5. CASE Call(p) \/ Ping(p) \/ Check(p) \/ Create(p) \/ Close(p) \/ CloseAll(p) \/ Mutex(p)
  <2>1. dead' = dead /\ twice' = twice
    BY <1>5 DEF Call, Ping, Check, Create, Close, CloseAll, Mutex, RLock, ReaderWakes, Lock,
       WriterWakes, historyVars
  <2> QED
    BY <1>1, <2>1
<1> QED
  BY <1>3, <1>4, <1>5 DEF Step, GetOrCreate

\* Everything known of a reachable state.
LockInv == PoolInv /\ MutexInv /\ BareInv

\* What the counters say implies what the property promises.
LEMMA LockInvSound == NoneAssumption /\ LockInv => LockIsSound
<1> SUFFICES ASSUME NoneAssumption, LockInv PROVE LockIsSound
  OBVIOUS
<1>1. ASSUME twice = {}
      PROVE  /\ readers = Cardinality(Holders \cup Parked)
             /\ WritersInside # {} => Holders = {}
  <2>1. Counted
    BY <1>1 DEF LockInv, MutexInv
  <2>2. /\ IsFiniteSet(Holders) /\ IsFiniteSet(Parked) /\ Holders \cap Parked = {}
        /\ Cardinality(Holders) \in Nat /\ Cardinality(Parked) \in Nat
    <3>1. Holders \cap Parked = {}
      BY DEF Holders, Parked
    <3> QED
      BY <3>1, Finite DEF LockInv, PoolInv
  <2>3. Cardinality(Holders \cup Parked) = Cardinality(Holders) + Cardinality(Parked)
    <3>1. Cardinality(Holders \cup Parked)
            = Cardinality(Holders) + Cardinality(Parked) - Cardinality(Holders \cap Parked)
      BY <2>2, FS_Union
    <3>2. Cardinality(Holders \cap Parked) = 0
      BY <2>2, FS_EmptySet
    <3> QED
      BY <2>2, <3>1, <3>2
  <2>4. WritersInside # {} => Holders = {}
    BY <2>1, Alone DEF WritersInside, LockInv
  <2> QED
    BY <2>1, <2>3, <2>4 DEF Counted
<1> QED
  BY <1>1 DEF LockIsSound, Parked, LockInv, BareInv

THEOREM LockInductive == Spec => []LockInv
<1>1. NoneAssumption
  BY NoneAssumption
<1>2. Init => MutexInv /\ BareInv
  <2> SUFFICES ASSUME Init PROVE MutexInv /\ BareInv
    OBVIOUS
  <2>1. Holders = {} /\ Parked = {} /\ Cardinality({}) = 0
    BY FS_EmptySet DEF Init, Holders, Parked
  <2> QED
    BY <2>1 DEF Init, MutexInv, BareInv, Counted, StillMissing
<1>3. PoolInv /\ MutexInv /\ BareInv /\ [Next]_vars => MutexInv' /\ BareInv'
  <2>1. CASE Next
    BY <1>1, <2>1, MutexStep, BareStep
  <2>2. CASE UNCHANGED vars
    BY <2>2 DEF vars, callVars, poolVars, mutexVars, historyVars, MutexInv, BareInv, Counted,
       StillMissing, Holders, Parked
  <2> QED
    BY <2>1, <2>2
<1> QED
  BY <1>2, <1>3, PoolsInductive, PTL DEF Spec, LockInv

(***************************************************************************)
(* For any number of goroutines, the RWMutex counts the readers there are  *)
(* and keeps them from a writer until GetOrCreate has released it twice;   *)
(* and the process dies only after it has read the map without the lock.   *)
(***************************************************************************)
THEOREM LockSound == Spec => []LockIsSound
<1>1. LockInv => LockIsSound
  BY NoneAssumption, LockInvSound
<1> QED
  BY <1>1, LockInductive, PTL
=============================================================================
