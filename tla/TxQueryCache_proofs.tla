------------------------- MODULE TxQueryCache_proofs -------------------------
(***************************************************************************)
(* How stale an answer of TxQueryCache can be, for any accounts, changes   *)
(* and readers, and for any lives of a list and of a request.              *)
(***************************************************************************)
EXTENDS TxQueryCache, FiniteSetTheorems, TLAPS

\* l has every change of x that was committed before l was read.
Complete(l, x) ==
    \A c \in Change :
        committed[c] # None /\ x \in {None, AccountOf[c]} /\ committed[c] < l.read
            => c \in l.changes

ListSound(l, a) ==
    l # None =>
        /\ Complete(l, a)
        /\ l.read <= l.stored /\ l.stored <= now
        /\ l.stored <= l.read + Patience

\* The answer r has given misses nothing as old as the bound.
Recent(r) ==
    \A c \in Change :
        /\ committed[c] # None
        /\ ListOf[r] \in {None, AccountOf[c]}
        /\ committed[c] + TTL + Patience <= ended[r]
        => c \in got[r].changes

ReaderSound(r) ==
    /\ pc[r] # "idle" => start[r] <= now
    /\ pc[r] = "fill" =>
          /\ Complete(got[r], ListOf[r])
          /\ start[r] <= got[r].read /\ got[r].read <= now
    /\ ended[r] # None => ended[r] <= now /\ Recent(r)

ClockInv == \A c \in Change : committed[c] # None => committed[c] <= now

StaleInv ==
    /\ ClockInv
    /\ \A a \in Account, v \in Version : ListSound(list[a][v], a)
    /\ \A r \in Reader : ReaderSound(r)

\* Only Quoted(1) is ever stored: Scan makes nothing of any version.
VersionInv ==
    \A c \in Change :
        /\ task[c] = "save" => vInt[c] = 1
        /\ task[c] \in {"get", "save"} => c \in Purchase

\* Only readers of one account look a list up, and what they store they have read.
ReaderAccount ==
    \A r \in Reader :
        /\ pc[r] \in {"lookup", "fill"} => ListOf[r] \in Account
        /\ pc[r] = "fill" => got[r] # None
        /\ ended[r] # None => pc[r] = "done"

TypeInv == TypeOK /\ VersionInv /\ ReaderAccount

-----------------------------------------------------------------------------
LEMMA Numbers ==
  /\ TTL \in Nat /\ TTL > 0 /\ Patience \in Nat /\ MaxTime \in Nat
  /\ \A n \in Nat : n # None
  BY TimeAssumption, AbsentAssumption

LEMMA ListNone == None \notin List
  BY AbsentAssumption

LEMMA VersionFacts ==
  /\ Plain(0) \in Version
  /\ Quoted(1) \in Version
  /\ 1 \in 0 .. Cardinality(Purchase) + 1 /\ 0 \in 0 .. Cardinality(Purchase) + 1
  /\ \A text \in Version \cup {None} : Scan(text) = 0
  <1>1. Cardinality(Purchase) \in Nat
    BY SubsetAssumption, FiniteAssumption, FS_Subset, FS_CardinalityType
  <1>2. 1 \in 1 .. Cardinality(Purchase) + 1
    BY <1>1
  <1>3. \A text \in Version \cup {None} : Scan(text) = 0
    BY DEF Scan, Version, Plain, Quoted
  <1> QED
    BY <1>1, <1>2, <1>3 DEF Version

LEMMA TypeInit == Init => TypeInv
  <1>1. 0 \in 0 .. MaxTime
    BY Numbers
  <1> QED
    BY <1>1, VersionFacts DEF Init, TypeInv, TypeOK, VersionInv, ReaderAccount

LEMMA FinishTypes ==
  ASSUME TypeOK, NEW r \in Reader, Finish(r)
  PROVE  /\ pc' \in [Reader -> {"idle", "lookup", "query", "fill", "done"}]
         /\ ended' \in [Reader -> 0 .. MaxTime \cup {None}]
  BY DEF TypeOK, Finish

LEMMA TypeStep ==
  ASSUME TypeOK, VersionInv, ReaderAccount, [Next]_vars
  PROVE  TypeOK' /\ VersionInv'
  <1> USE DEF writerVars, redisVars, readerVars
  <1>0. now \in Nat
    BY Numbers DEF TypeOK
  <1>1. CASE Tick
    <2>1. now' \in 0 .. MaxTime
      BY <1>1, Numbers DEF Tick, TypeOK
    <2> QED
      BY <1>1, <2>1 DEF Tick, TypeOK, VersionInv
  <1>2. ASSUME NEW c \in Change, Commit(c) PROVE TypeOK' /\ VersionInv'
    BY <1>2 DEF Commit, TaskOf, TypeOK, VersionInv
  <1>3. ASSUME NEW c \in Change, GetVersion(c) PROVE TypeOK' /\ VersionInv'
    <2>1. PICK text \in Version \cup {None} : vInt' = [vInt EXCEPT ![c] = Scan(text) + 1]
      <3>1. AccountOf[c] \in Account
        BY AccountAssumption
      <3>2. {version[AccountOf[c]]} \cup (IF Faults THEN {None} ELSE {}) \subseteq Version \cup {None}
        BY <3>1 DEF TypeOK
      <3> QED
        BY <1>3, <3>2 DEF GetVersion
    <2>2. Scan(text) = 0
      BY <2>1, VersionFacts
    <2>3. vInt' = [vInt EXCEPT ![c] = 1]
      BY <2>1, <2>2
    <2> QED
      BY <1>3, <2>3, VersionFacts DEF GetVersion, TypeOK, VersionInv
  <1>4. ASSUME NEW c \in Change, SaveVersion(c) PROVE TypeOK' /\ VersionInv'
    <2>1. version' = [version EXCEPT ![AccountOf[c]] = Quoted(1)]
      BY <1>4 DEF SaveVersion, VersionInv
    <2>2. version' \in [Account -> Version \cup {None}]
      BY <2>1, VersionFacts DEF TypeOK
    <2>3. told' \subseteq Purchase
      BY <1>4 DEF SaveVersion, VersionInv, TypeOK
    <2>4. task' \in [Change -> {"none", "get", "save", "del"}] /\ VersionInv'
      BY <1>4 DEF SaveVersion, VersionInv, TypeOK
    <2> QED
      BY <1>4, <2>2, <2>3, <2>4 DEF SaveVersion, TypeOK
  <1>5. ASSUME NEW c \in Change, DelVersion(c) \/ Lose(c) PROVE TypeOK' /\ VersionInv'
    BY <1>5 DEF DelVersion, Lose, TypeOK, VersionInv
  <1>6. ASSUME NEW r \in Reader, Start(r) PROVE TypeOK' /\ VersionInv'
    <2>1. before' \in [Reader -> [selected : SUBSET Change, told : SUBSET Purchase]]
      <3> DEFINE b == [selected |-> Selected(r), told |-> told]
      <3>1. b \in [selected : SUBSET Change, told : SUBSET Purchase]
        BY DEF TypeOK, Selected
      <3>2. before' = [before EXCEPT ![r] = b]
        BY <1>6 DEF Start
      <3> QED
        BY <3>1, <3>2 DEF TypeOK
    <2>2. seen' \in [Reader -> Version]
      <3>1. CASE ListOf[r] = None
        BY <1>6, <3>1 DEF Start, TypeOK
      <3>2. CASE ListOf[r] # None
        <4>1. ListOf[r] \in Account
          BY <3>2, AccountAssumption
        <4>2. PICK text \in {version[ListOf[r]]} \cup (IF Faults THEN {None} ELSE {}) :
                 seen' = [seen EXCEPT ![r] = IF text = None THEN Plain(0) ELSE text]
          BY <1>6, <3>2 DEF Start
        <4>3. text \in Version \cup {None}
          BY <4>1, <4>2 DEF TypeOK
        <4> QED
          BY <4>2, <4>3, VersionFacts DEF TypeOK
      <3> QED
        BY <3>1, <3>2
    <2>3. /\ pc' \in [Reader -> {"idle", "lookup", "query", "fill", "done"}]
          /\ start' \in [Reader -> 0 .. MaxTime]
          /\ UNCHANGED <<now, writerVars, redisVars, got, ended>>
      BY <1>6 DEF Start, TypeOK
    <2> QED
      BY <2>1, <2>2, <2>3 DEF TypeOK, VersionInv
  <1>7. ASSUME NEW r \in Reader, Lookup(r) PROVE TypeOK' /\ VersionInv'
    <2>1. ListOf[r] \in Account => Stored(r) \in List \cup {None}
      BY DEF Stored, TypeOK
    <2>2. CASE /\ Stored(r) # None /\ got' = [got EXCEPT ![r] = Stored(r)]
               /\ Finish(r)
      <3>1. got' \in [Reader -> List \cup {None}]
        BY <1>7, <2>1, <2>2 DEF Lookup, TypeOK, ReaderAccount
      <3> QED
        BY <1>7, <2>2, <3>1, FinishTypes DEF Lookup, TypeOK, VersionInv
    <2>3. CASE pc' = [pc EXCEPT ![r] = "query"] /\ UNCHANGED <<got, ended>>
      BY <1>7, <2>3 DEF Lookup, TypeOK, VersionInv
    <2> QED
      BY <1>7, <2>2, <2>3 DEF Lookup
  <1>8. ASSUME NEW r \in Reader, Query(r) PROVE TypeOK' /\ VersionInv'
    <2>1. got' \in [Reader -> List \cup {None}]
      <3> DEFINE l == [changes |-> Selected(r), read |-> now, stored |-> now]
      <3>1. l \in List
        BY <1>0 DEF List, Selected
      <3> QED
        BY <1>8, <3>1 DEF Query, TypeOK
    <2>2. /\ pc' \in [Reader -> {"idle", "lookup", "query", "fill", "done"}]
          /\ ended' \in [Reader -> 0 .. MaxTime \cup {None}]
      BY <1>8, FinishTypes DEF Query, TypeOK
    <2> QED
      BY <1>8, <2>1, <2>2 DEF Query, TypeOK, VersionInv
  <1>9. ASSUME NEW r \in Reader, Fill(r) PROVE TypeOK' /\ VersionInv'
    <2>1. list' \in [Account -> [Version -> List \cup {None}]]
      <3>1. CASE list' = list
        BY <3>1 DEF TypeOK
      <3>2. CASE list' = [list EXCEPT ![ListOf[r]][FillKey(r)] = [got[r] EXCEPT !.stored = now]]
        <4>1. /\ ListOf[r] \in Account /\ FillKey(r) \in Version
              /\ got[r] \in List
          BY <1>9 DEF Fill, FillKey, ReaderAccount, TypeOK
        <4>2. [got[r] EXCEPT !.stored = now] \in List
          BY <1>0, <4>1 DEF List
        <4> QED
          BY <3>2, <4>1, <4>2 DEF TypeOK
      <3> QED
        BY <1>9, <3>1, <3>2 DEF Fill
    <2> QED
      BY <1>9, <2>1, FinishTypes DEF Fill, TypeOK, VersionInv
  <1>10. ASSUME NEW r \in Reader, GiveUp(r) PROVE TypeOK' /\ VersionInv'
    BY <1>10 DEF GiveUp, TypeOK, VersionInv
  <1>11. CASE UNCHANGED vars
    BY <1>11 DEF vars, TypeOK, VersionInv
  <1> QED
    BY <1>1, <1>2, <1>3, <1>4, <1>5, <1>6, <1>7, <1>8, <1>9, <1>10, <1>11 DEF Next

LEMMA ReaderAccountStep ==
  ASSUME TypeOK, ReaderAccount, [Next]_vars
  PROVE  ReaderAccount'
  <1> USE DEF TypeOK, ReaderAccount, readerVars
  <1>1. ASSUME Tick \/ (\E c \in Change : Commit(c) \/ GetVersion(c) \/ SaveVersion(c)
                                           \/ DelVersion(c) \/ Lose(c)) \/ UNCHANGED vars
        PROVE  ReaderAccount'
    BY <1>1 DEF Tick, Commit, GetVersion, SaveVersion, DelVersion, Lose, vars
  <1>2. ASSUME NEW r \in Reader, Start(r) PROVE ReaderAccount'
    <2>1. /\ pc[r] = "idle" /\ UNCHANGED <<got, ended>>
          /\ \/ pc' = [pc EXCEPT ![r] = "query"]
             \/ ListOf[r] \in Account /\ pc' = [pc EXCEPT ![r] = "lookup"]
      <3>1. ListOf[r] # None => ListOf[r] \in Account
        BY AccountAssumption
      <3>2. CASE ListOf[r] = None
        BY <1>2, <3>2 DEF Start
      <3>3. CASE ListOf[r] # None
        BY <1>2, <3>1, <3>3 DEF Start
      <3> QED
        BY <3>2, <3>3
    <2> QED
      BY <2>1
  <1>3. ASSUME NEW r \in Reader, Lookup(r) PROVE ReaderAccount'
    BY <1>3 DEF Lookup, Finish
  <1>4. ASSUME NEW r \in Reader, Query(r) PROVE ReaderAccount'
    <2>1. [changes |-> Selected(r), read |-> now, stored |-> now] # None
      <3>1. [changes |-> Selected(r), read |-> now, stored |-> now] \in List
        BY Numbers DEF List, Selected
      <3> QED
        BY <3>1, ListNone
    <2> QED
      BY <1>4, <2>1, AccountAssumption DEF Query, Finish
  <1>5. ASSUME NEW r \in Reader, Fill(r) \/ GiveUp(r) PROVE ReaderAccount'
    BY <1>5 DEF Fill, GiveUp, Finish
  <1> QED
    BY <1>1, <1>2, <1>3, <1>4, <1>5 DEF Next

LEMMA TypeInvariant == Spec => []TypeInv
  <1>1. TypeInv /\ [Next]_vars => TypeInv'
    BY TypeStep, ReaderAccountStep DEF TypeInv
  <1> QED
    BY <1>1, TypeInit, PTL DEF Spec

(***************************************************************************)
(* Every variable keeps its type.                                          *)
(***************************************************************************)
THEOREM CacheTypeCorrect == Spec => []TypeOK
  <1>1. TypeInv => TypeOK
    BY DEF TypeInv
  <1> QED
    BY <1>1, TypeInvariant, PTL

-----------------------------------------------------------------------------
LEMMA StaleInit == Init => StaleInv
  BY DEF Init, StaleInv, ClockInv, ListSound, ReaderSound

\* What a reader's step leaves alone, and what its answer needs.
LEMMA Answering ==
  ASSUME TypeInv, StaleInv, NEW r \in Reader, Finish(r),
         UNCHANGED <<now, committed, start>>,
         NEW l \in List, Complete(l, ListOf[r]), now < l.read + TTL + Patience,
         got'[r] = l, pc[r] # "idle"
  PROVE  ReaderSound(r)'
  <1> USE Numbers
  <1>1. now \in Nat /\ l.read \in Nat /\ ended'[r] = now /\ pc'[r] = "done"
    BY DEF TypeInv, TypeOK, Finish, List
  <1>2. \A c \in Change :
          committed[c] # None /\ committed[c] + TTL + Patience <= now => committed[c] < l.read
    BY <1>1 DEF TypeInv, TypeOK
  <1>3. Recent(r)'
    BY <1>1, <1>2 DEF Recent, Complete
  <1>4. start[r] <= now
    BY DEF StaleInv, ReaderSound
  <1> QED
    BY <1>1, <1>3, <1>4 DEF ReaderSound

\* Readers and lists a step does not touch stay sound.
LEMMA Resting ==
  ASSUME TypeInv, StaleInv, UNCHANGED <<now, committed>>,
         NEW r \in Reader, pc'[r] = pc[r], start'[r] = start[r], got'[r] = got[r],
         ended'[r] = ended[r]
  PROVE  ReaderSound(r)'
  <1>1. ReaderSound(r)
    BY DEF StaleInv
  <1> QED
    BY <1>1 DEF ReaderSound, Complete, Recent

LEMMA ListsRest ==
  ASSUME TypeInv, StaleInv, UNCHANGED <<now, committed, list>>
  PROVE  ClockInv' /\ \A a \in Account, v \in Version : ListSound(list[a][v], a)'
  BY DEF StaleInv, ClockInv, ListSound, Complete

LEMMA StaleStep ==
  ASSUME TypeInv, StaleInv, [Next]_vars
  PROVE  StaleInv'
  <1> USE Numbers DEF writerVars, redisVars, readerVars
  <1>0. now \in Nat
    BY DEF TypeInv, TypeOK
  <1>1. CASE Tick
    <2>1. now' = now + 1 /\ UNCHANGED <<committed, list, pc, start, got, ended>>
      BY <1>1 DEF Tick
    <2>2. ClockInv'
      BY <1>0, <2>1 DEF StaleInv, ClockInv, TypeInv, TypeOK
    <2>3. ASSUME NEW a \in Account, NEW v \in Version PROVE ListSound(list[a][v], a)'
      <3>1. list[a][v] \in List \cup {None} /\ ListSound(list[a][v], a)
        BY DEF StaleInv, TypeInv, TypeOK
      <3> QED
        BY <1>0, <2>1, <3>1 DEF ListSound, Complete, List
    <2>4. ASSUME NEW r \in Reader PROVE ReaderSound(r)'
      <3>1. /\ ReaderSound(r) /\ start[r] \in Nat
            /\ ended[r] # None => ended[r] \in Nat
            /\ pc[r] = "fill" => got[r].read \in Nat
        BY DEF StaleInv, TypeInv, TypeOK, ReaderAccount, List
      <3> QED
        BY <1>0, <2>1, <3>1 DEF ReaderSound, Complete, Recent
    <2> QED
      BY <2>2, <2>3, <2>4 DEF StaleInv
  <1>2. ASSUME NEW c \in Change, Commit(c) PROVE StaleInv'
    <2>1. /\ committed' = [committed EXCEPT ![c] = now]
          /\ committed[c] = None
          /\ UNCHANGED <<now, list, pc, start, got, ended>>
      BY <1>2 DEF Commit
    <2>2. \A d \in Change : committed'[d] = committed[d] \/ committed'[d] = now
      BY <2>1 DEF TypeInv, TypeOK
    <2>3. ClockInv'
      BY <1>0, <2>1, <2>2 DEF StaleInv, ClockInv
    <2>4. ASSUME NEW a \in Account, NEW v \in Version PROVE ListSound(list[a][v], a)'
      <3>1. list[a][v] \in List \cup {None} /\ ListSound(list[a][v], a)
        BY DEF StaleInv, TypeInv, TypeOK
      <3>2. list[a][v] # None => list[a][v].read <= now /\ list[a][v].read \in Nat
        BY <1>0, <3>1 DEF ListSound, List
      <3> QED
        BY <1>0, <2>1, <2>2, <3>1, <3>2 DEF ListSound, Complete
    <2>5. ASSUME NEW r \in Reader PROVE ReaderSound(r)'
      <3>1. /\ ReaderSound(r) /\ start[r] \in Nat
            /\ ended[r] # None => ended[r] \in Nat
            /\ pc[r] = "fill" => got[r].read \in Nat
        BY DEF StaleInv, TypeInv, TypeOK, ReaderAccount, List
      <3>2. pc[r] = "fill" => Complete(got[r], ListOf[r])'
        BY <1>0, <2>1, <2>2, <3>1 DEF ReaderSound, Complete
      <3>3. ended[r] # None => Recent(r)'
        BY <1>0, <2>1, <2>2, <3>1 DEF ReaderSound, Recent
      <3> QED
        BY <2>1, <3>1, <3>2, <3>3 DEF ReaderSound
    <2> QED
      BY <2>3, <2>4, <2>5 DEF StaleInv
  <1>3. ASSUME NEW c \in Change, GetVersion(c) \/ SaveVersion(c) \/ DelVersion(c) \/ Lose(c)
        PROVE  StaleInv'
    <2>1. UNCHANGED <<now, committed, list, pc, start, got, ended>>
      BY <1>3 DEF GetVersion, SaveVersion, DelVersion, Lose
    <2> QED
      BY <2>1, ListsRest, Resting DEF StaleInv
  <1>4. ASSUME NEW r \in Reader, Start(r) PROVE StaleInv'
    <2>1. /\ UNCHANGED <<now, committed, list, got, ended>>
          /\ start' = [start EXCEPT ![r] = now]
          /\ \E l \in {"query", "lookup"} : pc' = [pc EXCEPT ![r] = l]
      BY <1>4 DEF Start
    <2>2. ReaderSound(r)'
      <3>1. start'[r] = now /\ pc'[r] \in {"query", "lookup"}
        BY <2>1 DEF TypeInv, TypeOK
      <3>2. ended[r] # None => ended[r] <= now /\ Recent(r)
        BY DEF StaleInv, ReaderSound
      <3> QED
        BY <1>0, <2>1, <3>1, <3>2 DEF ReaderSound, Recent
    <2>3. \A q \in Reader \ {r} : ReaderSound(q)'
      BY <2>1, Resting DEF TypeInv, TypeOK
    <2> QED
      BY <2>1, <2>2, <2>3, ListsRest DEF StaleInv
  <1>5. ASSUME NEW r \in Reader, Lookup(r) PROVE StaleInv'
    <2>1. /\ pc[r] = "lookup" /\ ListOf[r] \in Account
          /\ UNCHANGED <<now, committed, list, start>>
      BY <1>5 DEF Lookup, TypeInv, ReaderAccount
    <2>2. CASE /\ Stored(r) # None /\ Alive(Stored(r))
               /\ got' = [got EXCEPT ![r] = Stored(r)]
               /\ Finish(r)
      <3> DEFINE l == Stored(r)
      <3>1. l \in List /\ seen[r] \in Version
        BY <2>1, <2>2 DEF Stored, TypeInv, TypeOK
      <3>2. Complete(l, ListOf[r]) /\ l.stored <= l.read + Patience
        BY <2>1, <2>2, <3>1 DEF Stored, StaleInv, ListSound
      <3>3. now < l.read + TTL + Patience
        BY <1>0, <2>2, <3>1, <3>2 DEF Alive, List
      <3>4. got'[r] = l
        BY <2>2 DEF TypeInv, TypeOK
      <3>5. ReaderSound(r)'
        BY <2>1, <2>2, <3>1, <3>2, <3>3, <3>4, Answering
      <3>6. \A q \in Reader \ {r} : ReaderSound(q)'
        BY <2>1, <2>2, Resting DEF TypeInv, TypeOK, Finish
      <3> QED
        BY <2>1, <3>5, <3>6, ListsRest DEF StaleInv
    <2>3. CASE pc' = [pc EXCEPT ![r] = "query"] /\ UNCHANGED <<got, ended>>
      <3>1. ReaderSound(r)'
        <4>1. ReaderSound(r) /\ pc'[r] = "query"
          BY <2>3 DEF StaleInv, TypeInv, TypeOK
        <4> QED
          BY <2>1, <2>3, <4>1 DEF ReaderSound, Recent
      <3>2. \A q \in Reader \ {r} : ReaderSound(q)'
        BY <2>1, <2>3, Resting DEF TypeInv, TypeOK
      <3> QED
        BY <2>1, <3>1, <3>2, ListsRest DEF StaleInv
    <2> QED
      BY <1>5, <2>2, <2>3 DEF Lookup
  <1>6. ASSUME NEW r \in Reader, Query(r) PROVE StaleInv'
    <2> DEFINE l == [changes |-> Selected(r), read |-> now, stored |-> now]
    <2>1. /\ pc[r] = "query"
          /\ got' = [got EXCEPT ![r] = l]
          /\ UNCHANGED <<now, committed, list, start>>
      BY <1>6 DEF Query
    <2>2. l \in List /\ l.read = now /\ got'[r] = l /\ Complete(l, ListOf[r])
      BY <1>0, <2>1 DEF List, Selected, Complete, TypeInv, TypeOK
    <2>3. ReaderSound(r)'
      <3>1. CASE Finish(r)
        <4>1. now < l.read + TTL + Patience
          BY <1>0, <2>2
        <4> QED
          BY <2>1, <2>2, <3>1, <4>1, Answering
      <3>2. CASE pc' = [pc EXCEPT ![r] = "fill"] /\ UNCHANGED ended
        <4>1. pc'[r] = "fill" /\ ReaderSound(r) /\ ended[r] = None
          BY <3>2, <2>1 DEF StaleInv, TypeInv, TypeOK, ReaderAccount
        <4>2. Complete(got[r], ListOf[r])'
          BY <2>1, <2>2 DEF Complete
        <4> QED
          BY <1>0, <2>1, <2>2, <3>2, <4>1, <4>2 DEF ReaderSound
      <3> QED
        BY <1>6, <3>1, <3>2 DEF Query
    <2>4. \A q \in Reader \ {r} : ReaderSound(q)'
      BY <1>6, <2>1, Resting DEF Query, Finish, TypeInv, TypeOK
    <2> QED
      BY <2>1, <2>3, <2>4, ListsRest DEF StaleInv
  <1>7. ASSUME NEW r \in Reader, Fill(r) PROVE StaleInv'
    <2>1. /\ pc[r] = "fill" /\ Finish(r) /\ ListOf[r] \in Account
          /\ now - start[r] <= Patience
          /\ UNCHANGED <<now, committed, start, got>>
      BY <1>7 DEF Fill, InTime, TypeInv, ReaderAccount
    <2>2. /\ got[r] \in List /\ Complete(got[r], ListOf[r])
          /\ start[r] <= got[r].read /\ got[r].read <= now
          /\ got[r].read \in Nat /\ start[r] \in Nat
      BY <2>1 DEF TypeInv, TypeOK, ReaderAccount, StaleInv, ReaderSound, List
    <2>3. ReaderSound(r)'
      <3>1. now < got[r].read + TTL + Patience
        BY <1>0, <2>1, <2>2
      <3> QED
        BY <2>1, <2>2, <3>1, Answering
    <2>4. \A q \in Reader \ {r} : ReaderSound(q)'
      BY <2>1, Resting DEF Finish, TypeInv, TypeOK
    <2>5. ASSUME NEW a \in Account, NEW v \in Version PROVE ListSound(list[a][v], a)'
      <3> DEFINE l == [got[r] EXCEPT !.stored = now]
      <3>1. l \in List /\ l.changes = got[r].changes /\ l.read = got[r].read /\ l.stored = now
        BY <1>0, <2>2 DEF List
      <3>2. list'[a][v] = list[a][v] \/ (a = ListOf[r] /\ list'[a][v] = l)
        <4>1. list[a] \in [Version -> List \cup {None}] /\ list \in [Account -> [Version -> List \cup {None}]]
          BY DEF TypeInv, TypeOK
        <4>2. CASE list' = list
          BY <4>2
        <4>3. CASE list' = [list EXCEPT ![ListOf[r]][seen[r]] = l]
          <5>1. CASE a = ListOf[r]
            <6>1. list'[a] = [list[a] EXCEPT ![seen[r]] = l]
              BY <4>1, <4>3, <5>1
            <6> QED
              BY <4>1, <5>1, <6>1
          <5>2. CASE a # ListOf[r]
            BY <4>1, <4>3, <5>2
          <5> QED
            BY <5>1, <5>2
        <4> QED
          BY <1>7, <4>2, <4>3 DEF Fill, FillKey
      <3>3. CASE list'[a][v] = list[a][v]
        BY <2>1, <3>3 DEF StaleInv, ListSound, Complete
      <3>4. CASE a = ListOf[r] /\ list'[a][v] = l
        BY <1>0, <2>1, <2>2, <3>1, <3>4 DEF ListSound, Complete
      <3> QED
        BY <3>2, <3>3, <3>4
    <2>6. ClockInv'
      BY <2>1 DEF StaleInv, ClockInv
    <2> QED
      BY <2>3, <2>4, <2>5, <2>6 DEF StaleInv
  <1>8. ASSUME NEW r \in Reader, GiveUp(r) PROVE StaleInv'
    <2>1. /\ pc' = [pc EXCEPT ![r] = "done"]
          /\ pc[r] # "idle"
          /\ UNCHANGED <<now, committed, list, start, got, ended>>
      BY <1>8 DEF GiveUp
    <2>2. ReaderSound(r)'
      <3>1. ReaderSound(r) /\ pc'[r] = "done"
        BY <2>1 DEF StaleInv, TypeInv, TypeOK
      <3> QED
        BY <2>1, <3>1 DEF ReaderSound, Recent
    <2>3. \A q \in Reader \ {r} : ReaderSound(q)'
      BY <2>1, Resting DEF TypeInv, TypeOK
    <2> QED
      BY <2>1, <2>2, <2>3, ListsRest DEF StaleInv
  <1>9. CASE UNCHANGED vars
    <2>1. UNCHANGED <<now, committed, list, pc, start, got, ended>>
      BY <1>9 DEF vars
    <2> QED
      BY <2>1, ListsRest, Resting DEF StaleInv
  <1> QED
    BY <1>1, <1>2, <1>3, <1>4, <1>5, <1>6, <1>7, <1>8, <1>9 DEF Next

(***************************************************************************)
(* No answer lacks a change that was committed TTL + Patience before it,   *)
(* whatever becomes of the versions and whatever fails.                    *)
(***************************************************************************)
THEOREM StalenessIsBounded == Spec => []Staleness
  <1>1. StaleInv /\ TypeInv /\ [Next]_vars => StaleInv'
    BY StaleStep
  <1>2. StaleInv => Staleness
    BY DEF StaleInv, ReaderSound, Recent, Staleness
  <1> QED
    BY <1>1, <1>2, StaleInit, TypeInvariant, PTL DEF Spec

-----------------------------------------------------------------------------
\* What was there when r started is in what it will read, or has read.
FreshSound(r) ==
    /\ pc[r] \in {"lookup", "query"} => before[r].selected \subseteq Selected(r)
    /\ pc[r] = "fill" => before[r].selected \subseteq got[r].changes
    /\ ended[r] # None /\ (r \in Bypass \/ ListOf[r] = None) =>
          before[r].selected \subseteq got[r].changes

FreshInv == \A r \in Reader : FreshSound(r)

LEMMA FreshInit == Init => FreshInv
  BY DEF Init, FreshInv, FreshSound

LEMMA FreshStep ==
  ASSUME TypeInv, FreshInv, [Next]_vars
  PROVE  FreshInv'
  <1> USE DEF TypeInv, FreshInv, writerVars, redisVars, readerVars
  <1>1. ASSUME NEW q \in Reader, Selected(q) \subseteq Selected(q)',
               pc'[q] = pc[q], got'[q] = got[q], ended'[q] = ended[q], before'[q] = before[q]
        PROVE  FreshSound(q)'
    BY <1>1 DEF FreshSound
  <1>2. CASE Tick \/ (\E c \in Change : Commit(c) \/ GetVersion(c) \/ SaveVersion(c)
                                          \/ DelVersion(c) \/ Lose(c)) \/ UNCHANGED vars
    <2>1. UNCHANGED readerVars
      BY <1>2 DEF Tick, Commit, GetVersion, SaveVersion, DelVersion, Lose, vars
    <2>2. \A c \in Change : committed[c] # None => committed'[c] # None
      BY <1>2 DEF Tick, Commit, GetVersion, SaveVersion, DelVersion, Lose, vars, TypeOK
    <2>3. \A q \in Reader : Selected(q) \subseteq Selected(q)'
      BY <2>2 DEF Selected
    <2> QED
      BY <1>1, <2>1, <2>3
  <1>3. ASSUME NEW r \in Reader, Start(r) PROVE FreshInv'
    <2>1. /\ UNCHANGED <<committed, got, ended>>
          /\ \E l \in {"query", "lookup"} : pc' = [pc EXCEPT ![r] = l]
          /\ before' = [before EXCEPT ![r] =
                           [selected |-> Selected(r), told |-> told]]
          /\ ended[r] = None
      BY <1>3 DEF Start, ReaderAccount
    <2>2. \A q \in Reader : Selected(q)' = Selected(q)
      BY <2>1 DEF Selected
    <2>3. FreshSound(r)'
      <3>1. before'[r].selected = Selected(r) /\ pc'[r] \in {"query", "lookup"} /\ ended'[r] = None
        BY <2>1 DEF TypeOK
      <3> QED
        BY <2>2, <3>1 DEF FreshSound
    <2>4. \A q \in Reader \ {r} : FreshSound(q)'
      BY <1>1, <2>1, <2>2 DEF TypeOK
    <2> QED
      BY <2>3, <2>4
  <1>4. ASSUME NEW r \in Reader, Lookup(r) PROVE FreshInv'
    <2>1. /\ pc[r] = "lookup" /\ ListOf[r] # None /\ ended[r] = None
          /\ UNCHANGED <<committed, before>>
      BY <1>4, AbsentAssumption DEF Lookup, ReaderAccount
    <2>2. \A q \in Reader : Selected(q)' = Selected(q)
      BY <2>1 DEF Selected
    <2>3. \/ r \notin Bypass /\ pc'[r] = "done"
          \/ pc'[r] = "query" /\ ended' = ended
      BY <1>4 DEF Lookup, LooksUp, Finish, TypeOK
    <2>4. FreshSound(r)'
      BY <2>1, <2>2, <2>3 DEF FreshSound
    <2>5. \A q \in Reader \ {r} :
            pc'[q] = pc[q] /\ got'[q] = got[q] /\ ended'[q] = ended[q]
      BY <1>4 DEF Lookup, Finish, TypeOK
    <2> QED
      BY <1>1, <2>1, <2>2, <2>4, <2>5
  <1>5. ASSUME NEW r \in Reader, Query(r) PROVE FreshInv'
    <2>1. /\ pc[r] = "query"
          /\ UNCHANGED <<committed, before>>
          /\ got' = [got EXCEPT ![r] = [changes |-> Selected(r), read |-> now, stored |-> now]]
      BY <1>5 DEF Query
    <2>2. \A q \in Reader : Selected(q)' = Selected(q)
      BY <2>1 DEF Selected
    <2>3. got'[r].changes = Selected(r) /\ pc'[r] \in {"fill", "done"}
      BY <1>5, <2>1 DEF Query, Finish, TypeOK
    <2>4. FreshSound(r)'
      BY <2>1, <2>3 DEF FreshSound
    <2>5. \A q \in Reader \ {r} :
            pc'[q] = pc[q] /\ got'[q] = got[q] /\ ended'[q] = ended[q]
      BY <1>5 DEF Query, Finish, TypeOK
    <2> QED
      BY <1>1, <2>1, <2>2, <2>4, <2>5
  <1>6. ASSUME NEW r \in Reader, Fill(r) \/ GiveUp(r) PROVE FreshInv'
    <2>1. /\ pc[r] = "fill" \/ ended' = ended
          /\ pc'[r] = "done"
          /\ UNCHANGED <<committed, before, got>>
      BY <1>6 DEF Fill, GiveUp, Finish, TypeOK
    <2>2. \A q \in Reader : Selected(q)' = Selected(q)
      BY <2>1 DEF Selected
    <2>3. FreshSound(r)'
      BY <2>1 DEF FreshSound
    <2>4. \A q \in Reader \ {r} : pc'[q] = pc[q] /\ ended'[q] = ended[q]
      BY <1>6 DEF Fill, GiveUp, Finish, TypeOK
    <2> QED
      BY <1>1, <2>1, <2>2, <2>3, <2>4
  <1> QED
    BY <1>2, <1>3, <1>4, <1>5, <1>6 DEF Next

(***************************************************************************)
(* no-cache, and a list of all accounts, means what was there at the start *)
(* of the request.                                                         *)
(***************************************************************************)
THEOREM NoCacheIsFresh == Spec => []BypassIsFresh
  <1>1. FreshInv /\ TypeInv /\ [Next]_vars => FreshInv'
    BY FreshStep
  <1>2. FreshInv => BypassIsFresh
    BY DEF FreshInv, FreshSound, BypassIsFresh
  <1> QED
    BY <1>1, <1>2, FreshInit, TypeInvariant, PTL DEF Spec
=============================================================================
