---------------------------- MODULE Limits_proofs ----------------------------
(***************************************************************************)
(* Theorems about Limits, for any number of requests and any lengths of    *)
(* the windows.                                                            *)
(***************************************************************************)
EXTENDS Limits, FiniteSetTheorems, TLAPS

\* What a goroutine between two of its steps holds.
Steady ==
    \A r \in Request :
        /\ pc[r] \in {"load", "lock"} => start[r] \in 0 .. MaxTime
        /\ pc[r] = "lock" => holds[r] \in Request /\ limiter = "throttle"
        /\ pc[r] = "admitted" => end[r] \in 0 .. now

\* The log has every request that still counts, and no other kind.
LogInv ==
    limiter # "throttle" =>
        /\ log \subseteq Admitted
        /\ \A q \in Admitted : end[q] > now - WindowOf => q \in log

Inv == TypeOK /\ Steady /\ LogInv /\ SlidingLimit

\* A log that pruning or clean-up shortens is no longer than before.
LEMMA Pruned ==
    ASSUME LimitsAssumption, NEW S \in SUBSET Request, NEW T \in SUBSET S
    PROVE  /\ IsFiniteSet(S) /\ IsFiniteSet(T)
           /\ Cardinality(S) \in Nat /\ Cardinality(T) \in Nat
           /\ Cardinality(T) <= Cardinality(S)
<1>1. IsFiniteSet(Request)
  BY DEF LimitsAssumption
<1>2. IsFiniteSet(S)
  BY <1>1, FS_Subset
<1> QED
  BY <1>2, FS_Subset, FS_CardinalityType

\* One more request makes the log longer by at most one.
LEMMA OneMore ==
    ASSUME NEW S, IsFiniteSet(S), NEW x
    PROVE  /\ IsFiniteSet(S \cup {x})
           /\ Cardinality(S \cup {x}) \in Nat
           /\ Cardinality(S \cup {x}) <= Cardinality(S) + 1
<1>1. /\ IsFiniteSet(S \cup {x}) /\ Cardinality(S) \in Nat
      /\ \/ Cardinality(S \cup {x}) = Cardinality(S)
         \/ Cardinality(S \cup {x}) = Cardinality(S) + 1
  BY FS_AddElement, FS_CardinalityType
<1> QED
  BY <1>1

\* The window of a limiter is no longer than what the clean-up keeps.
LEMMA Windows ==
    ASSUME LimitsAssumption
    PROVE  WindowOf \in Nat /\ WindowOf <= Horizon
BY DEF LimitsAssumption, WindowOf

LEMMA TypeStep == LimitsAssumption /\ TypeOK /\ Steady /\ [Next]_vars => TypeOK' /\ Steady'
<1> SUFFICES ASSUME LimitsAssumption, TypeOK, Steady, [Next]_vars
             PROVE  TypeOK' /\ Steady'
  OBVIOUS
<1>1. ASSUME NEW r \in Request, Arrive(r) PROVE TypeOK' /\ Steady'
  BY <1>1 DEF Arrive, TypeOK, Steady, throttleVars, LimitsAssumption
<1>2. ASSUME NEW r \in Request, Load(r) PROVE TypeOK' /\ Steady'
  <2>1. start[r] \in 0 .. MaxTime /\ start[r] + Window \in 0 .. MaxTime + Window
    BY <1>2 DEF Load, TypeOK, Steady, LimitsAssumption
  <2>2. CASE current = None
    BY <1>2, <2>1, <2>2 DEF Load, TypeOK, Steady, LimitsAssumption
  <2>3. CASE current # None
    BY <1>2, <2>1, <2>3 DEF Load, TypeOK, Steady, LimitsAssumption
  <2> QED
    BY <2>2, <2>3
<1>3. ASSUME NEW r \in Request, Allow(r) PROVE TypeOK' /\ Steady'
  <2> DEFINE e == holds[r]
             n == Count(r, e)
  <2>1. /\ e \in Request /\ start[r] \in 0 .. MaxTime
        /\ n \in 0 .. Limit /\ ResetAt(r, e) \in 0 .. MaxTime + Window
    BY <1>3 DEF Allow, TypeOK, Steady, Count, ResetAt, Passed, LimitsAssumption
  <2>2. /\ resetAt' = [resetAt EXCEPT ![e] = ResetAt(r, e)]
        /\ end' = [end EXCEPT ![r] = now]
        /\ UNCHANGED <<limiter, now, start, current, holds, sweep, log>>
    BY <1>3 DEF Allow
  <2>3. CASE Under(n)
    <3>1. /\ count' = [count EXCEPT ![e] = n + 1]
          /\ pc' = [pc EXCEPT ![r] = "admitted"]
          /\ astray' \subseteq astray \cup {r}
      BY <1>3, <2>3 DEF Allow
    <3>2. n + 1 \in 0 .. Limit
      BY <2>1, <2>3 DEF Under, LimitsAssumption
    <3> QED
      BY <2>1, <2>2, <3>1, <3>2 DEF TypeOK, Steady, LimitsAssumption
  <2>4. CASE ~Under(n)
    <3>1. /\ count' = [count EXCEPT ![e] = n]
          /\ pc' = [pc EXCEPT ![r] = "refused"]
          /\ astray' = astray
      BY <1>3, <2>4 DEF Allow
    <3> QED
      BY <2>1, <2>2, <3>1 DEF TypeOK, Steady, LimitsAssumption
  <2> QED
    BY <2>3, <2>4
<1>4. CASE Sweep
  BY <1>4 DEF Sweep, TypeOK, Steady
<1>5. CASE CleanUp
  BY <1>5 DEF CleanUp, TypeOK, Steady
<1>6. ASSUME NEW r \in Request, IsLimited(r) PROVE TypeOK' /\ Steady'
  <2>1. /\ end' = [end EXCEPT ![r] = now]
        /\ UNCHANGED <<limiter, now, start, throttleVars>>
        /\ log' \subseteq Request
        /\ \/ pc' = [pc EXCEPT ![r] = "admitted"]
           \/ pc' = [pc EXCEPT ![r] = "refused"]
    BY <1>6 DEF IsLimited, TypeOK
  <2> QED
    BY <2>1 DEF TypeOK, Steady, throttleVars, LimitsAssumption
<1>7. CASE CleanUpLog
  BY <1>7 DEF CleanUpLog, TypeOK, Steady, throttleVars
<1>8. CASE Tick
  BY <1>8 DEF Tick, TypeOK, Steady, throttleVars, LimitsAssumption
<1>9. CASE UNCHANGED vars
  BY <1>9 DEF vars, throttleVars, TypeOK, Steady
<1> QED
  BY <1>1, <1>2, <1>3, <1>4, <1>5, <1>6, <1>7, <1>8, <1>9 DEF Next

\* Steps of Throttle say nothing about RateLimiter.
LEMMA OfThrottle ==
    ASSUME Inv, limiter = "throttle", limiter' = limiter
    PROVE  LogInv' /\ SlidingLimit'
BY DEF LogInv, SlidingLimit

\* Steps that admit nobody and forget nobody.
LEMMA NobodyAdmitted ==
    ASSUME LimitsAssumption, TypeOK, SlidingLimit, UNCHANGED limiter,
           Admitted' = Admitted,
           \A q \in Admitted : end'[q] = end[q]
    PROVE  SlidingLimit'
<1> WindowOf' = WindowOf
  BY DEF WindowOf
<1> SUFFICES ASSUME limiter # "throttle", NEW r \in Admitted
             PROVE  Cardinality({q \in Admitted : /\ end'[r] - WindowOf < end'[q]
                                                  /\ end'[q] <= end'[r]}) <= Limit
  BY DEF SlidingLimit
<1> {q \in Admitted : end'[r] - WindowOf < end'[q] /\ end'[q] <= end'[r]}
      = {q \in Admitted : end[r] - WindowOf < end[q] /\ end[q] <= end[r]}
  OBVIOUS
<1> QED
  BY DEF SlidingLimit

LEMMA LogStep == LimitsAssumption /\ Inv /\ [Next]_vars => LogInv' /\ SlidingLimit'
<1> SUFFICES ASSUME LimitsAssumption, Inv, [Next]_vars
             PROVE  LogInv' /\ SlidingLimit'
  OBVIOUS
<1> USE DEF Inv
<1>1. CASE limiter = "throttle"
  <2> limiter' = limiter
    BY DEF Next, Tick, Sweep, CleanUp, CleanUpLog, Arrive, Load, Allow, IsLimited, vars
  <2> QED
    BY <1>1, OfThrottle
<1> SUFFICES ASSUME limiter # "throttle"
             PROVE  LogInv' /\ SlidingLimit'
  BY <1>1
<1>2. ASSUME NEW r \in Request, Arrive(r) PROVE LogInv' /\ SlidingLimit'
  <2>1. /\ Admitted' = Admitted
        /\ UNCHANGED <<limiter, now, end, log>>
    BY <1>2 DEF Arrive, Admitted, TypeOK
  <2>2. LogInv'
    BY <2>1 DEF LogInv, WindowOf
  <2> QED
    BY <2>1, <2>2, NobodyAdmitted
<1>3. ASSUME NEW r \in Request, Load(r) \/ Allow(r) PROVE FALSE
  BY <1>3 DEF Load, Allow, Steady
<1>4. ASSUME NEW r \in Request, IsLimited(r) PROVE LogInv' /\ SlidingLimit'
  <2> DEFINE valid == {q \in log : Recent(q)}
  <2>1. /\ pc[r] = "load" /\ r \notin Admitted
        /\ UNCHANGED <<limiter, now>> /\ WindowOf' = WindowOf
        /\ end' = [end EXCEPT ![r] = now]
    BY <1>4 DEF IsLimited, Admitted, WindowOf
  <2>2. \A q \in Admitted : end'[q] = end[q] /\ end[q] \in 0 .. now
    BY <2>1 DEF TypeOK, Admitted, Steady
  <2>3. CASE ~Under(Cardinality(valid))
    <3>1. Admitted' = Admitted /\ log' = log
      BY <1>4, <2>1, <2>3 DEF IsLimited, Admitted, TypeOK
    <3>2. LogInv'
      BY <2>1, <2>2, <3>1 DEF LogInv
    <3> QED
      BY <2>1, <2>2, <3>1, <3>2, NobodyAdmitted
  <2>4. CASE Under(Cardinality(valid))
    <3>1. Admitted' = Admitted \cup {r} /\ log' = valid \cup {r} /\ end'[r] = now
      BY <1>4, <2>1, <2>4 DEF IsLimited, Admitted, TypeOK
    <3>2. LogInv'
      BY <2>1, <2>2, <3>1 DEF LogInv, Recent
    <3>3. Cardinality(valid \cup {r}) <= Limit /\ valid \cup {r} \subseteq Request
      <4>1. valid \subseteq Request /\ IsFiniteSet(valid) /\ Cardinality(valid) \in Nat
        BY Pruned DEF TypeOK
      <4>2. Cardinality(valid) + 1 <= Limit
        BY <4>1, <2>4 DEF Under, LimitsAssumption
      <4>3. /\ Cardinality(valid \cup {r}) \in Nat
            /\ Cardinality(valid \cup {r}) <= Cardinality(valid) + 1
        BY <4>1, OneMore
      <4> QED
        BY <4>1, <4>2, <4>3 DEF LimitsAssumption
    <3>4. ASSUME NEW p \in Admitted'
          PROVE  Cardinality({q \in Admitted' : /\ end'[p] - WindowOf < end'[q]
                                                /\ end'[q] <= end'[p]}) <= Limit
      <4> DEFINE Past == {q \in Admitted' : end'[p] - WindowOf < end'[q] /\ end'[q] <= end'[p]}
      <4>1. CASE end'[p] = now
        <5>1. Past \subseteq valid \cup {r}
          BY <2>1, <2>2, <3>1, <4>1 DEF LogInv, Recent
        <5> QED
          BY <3>3, <5>1, Pruned DEF LimitsAssumption
      <4>2. CASE end'[p] # now
        <5>1. p \in Admitted /\ end'[p] < now
          BY <2>1, <2>2, <3>1, <4>2 DEF TypeOK, LimitsAssumption
        <5>2. Past = {q \in Admitted : end[p] - WindowOf < end[q] /\ end[q] <= end[p]}
          BY <2>1, <2>2, <3>1, <5>1 DEF TypeOK, LimitsAssumption
        <5> QED
          BY <5>1, <5>2 DEF SlidingLimit
      <4> QED
        BY <4>1, <4>2
    <3>5. SlidingLimit'
      BY <2>1, <3>4 DEF SlidingLimit
    <3> QED
      BY <3>2, <3>5
  <2> QED
    BY <2>3, <2>4
<1>5. CASE Sweep \/ CleanUp
  <2>1. /\ Admitted' = Admitted
        /\ UNCHANGED <<limiter, now, end, log>>
    BY <1>5 DEF Sweep, CleanUp, Admitted
  <2>2. LogInv'
    BY <2>1 DEF LogInv, WindowOf
  <2> QED
    BY <2>1, <2>2, NobodyAdmitted
<1>6. CASE CleanUpLog
  <2>1. /\ Admitted' = Admitted
        /\ UNCHANGED <<limiter, now, end>> /\ WindowOf' = WindowOf
        /\ log' = {q \in log : Kept(q)}
    BY <1>6 DEF CleanUpLog, Admitted, WindowOf
  <2>2. \A q \in Admitted : end[q] \in Int /\ (end[q] > now - WindowOf => Kept(q))
    BY Windows DEF Admitted, Steady, TypeOK, Kept, LimitsAssumption
  <2>3. LogInv'
    BY <2>1, <2>2 DEF LogInv
  <2> QED
    BY <2>1, <2>3, NobodyAdmitted
<1>7. CASE Tick
  <2>1. /\ Admitted' = Admitted
        /\ UNCHANGED <<limiter, end, log>> /\ WindowOf' = WindowOf
        /\ now' = now + 1
    BY <1>7 DEF Tick, Admitted, WindowOf
  <2>2. \A q \in Admitted : end[q] \in Int /\ (end[q] > now' - WindowOf => end[q] > now - WindowOf)
    BY <2>1, Windows DEF Admitted, Steady, TypeOK, LimitsAssumption
  <2>3. LogInv'
    BY <2>1, <2>2 DEF LogInv
  <2> QED
    BY <2>1, <2>3, NobodyAdmitted
<1>8. CASE UNCHANGED vars
  <2>1. /\ Admitted' = Admitted
        /\ UNCHANGED <<limiter, now, end, log>>
    BY <1>8 DEF vars, Admitted
  <2>2. LogInv'
    BY <2>1 DEF LogInv, WindowOf
  <2> QED
    BY <2>1, <2>2, NobodyAdmitted
<1> QED
  BY <1>2, <1>3, <1>4, <1>5, <1>6, <1>7, <1>8 DEF Next

\* The invariant holds in every state the limiters can be in.
THEOREM LimitsInductive == Spec => []Inv
<1>1. LimitsAssumption
  BY LimitsAssumption
<1>2. Init => Inv
  BY <1>1 DEF Init, Inv, TypeOK, Steady, LogInv, SlidingLimit, Admitted, LimitsAssumption
<1>3. Inv /\ [Next]_vars => Inv'
  BY <1>1, TypeStep, LogStep DEF Inv
<1> QED
  BY <1>2, <1>3, PTL DEF Spec

(***************************************************************************)
(* Every variable keeps its type; a counter of Throttle never exceeds the  *)
(* limit, whichever goroutines hold its entry.                             *)
(***************************************************************************)
THEOREM LimitsTypeCorrect == Spec => []TypeOK
<1>1. Inv => TypeOK
  BY DEF Inv
<1> QED
  BY <1>1, LimitsInductive, PTL

(***************************************************************************)
(* RateLimiter keeps its limit in every stretch of a window, whatever      *)
(* isLimited prunes and cleanup drops, for every window no longer than     *)
(* what cleanup keeps.                                                     *)
(***************************************************************************)
THEOREM LogKeepsTheLimit == Spec => []SlidingLimit
<1>1. Inv => SlidingLimit
  BY DEF Inv
<1> QED
  BY <1>1, LimitsInductive, PTL

-----------------------------------------------------------------------------
(***************************************************************************)
(* Refusals.  Whoever has its verdict keeps it, with the times it had; and *)
(* what an entry counts was admitted through it since its window began.    *)
(***************************************************************************)
Clock ==
    /\ \A r \in Request : pc[r] \in {"load", "lock"} => start[r] <= now /\ now <= start[r] + Delay
    /\ sweep # None => sweep <= now
    /\ \A e \in Request : resetAt[e] <= now + Window

\* Who has not stored an entry yet has not given its name to one.
Fresh ==
    \A r \in Request : pc[r] \in {"idle", "load"} =>
        count[r] = 0 /\ current # r /\ \A q \in Request : holds[q] # r

Through(e) == {q \in Admitted : holds[q] = e /\ end[q] >= resetAt[e] - Window}

EntryInv == \A e \in Request : count[e] <= Cardinality(Through(e))

RefusedInv == Inv /\ Clock /\ Fresh /\ EntryInv /\ RefusedOnlyWhenFull

\* Verdicts are final, and nobody is taken from the admitted.
LEMMA Final ==
    ASSUME TypeOK, [Next]_vars
    PROVE  /\ limiter' = limiter /\ Admitted \subseteq Admitted'
           /\ \A q \in Request : pc[q] \in {"admitted", "refused"} =>
                /\ pc'[q] = pc[q] /\ start'[q] = start[q] /\ end'[q] = end[q]
                /\ holds'[q] = holds[q]
<1>1. limiter' = limiter
  BY DEF Next, Tick, Sweep, CleanUp, CleanUpLog, Arrive, Load, Allow, IsLimited, vars
<1>2. \A q \in Request : pc[q] \in {"admitted", "refused"} =>
         /\ pc'[q] = pc[q] /\ start'[q] = start[q] /\ end'[q] = end[q] /\ holds'[q] = holds[q]
  <2> SUFFICES ASSUME NEW q \in Request, pc[q] \in {"admitted", "refused"}
               PROVE  /\ pc'[q] = pc[q] /\ start'[q] = start[q] /\ end'[q] = end[q]
                      /\ holds'[q] = holds[q]
    OBVIOUS
  <2>1. CASE Tick \/ Sweep \/ CleanUp \/ CleanUpLog \/ UNCHANGED vars
    BY <2>1 DEF Tick, Sweep, CleanUp, CleanUpLog, vars, throttleVars
  <2>2. ASSUME NEW r \in Request, Arrive(r) \/ Load(r) \/ Allow(r) \/ IsLimited(r)
        PROVE  /\ pc'[q] = pc[q] /\ start'[q] = start[q] /\ end'[q] = end[q]
               /\ holds'[q] = holds[q]
    <3>1. r # q
      BY <2>2 DEF Arrive, Load, Allow, IsLimited
    <3> QED
      BY <2>2, <3>1 DEF Arrive, Load, Allow, IsLimited, TypeOK, throttleVars
  <2> QED
    BY <2>1, <2>2 DEF Next
<1> QED
  BY <1>1, <1>2 DEF Admitted

LEMMA ClockStep == LimitsAssumption /\ Inv /\ Clock /\ [Next]_vars => Clock'
<1> SUFFICES ASSUME LimitsAssumption, Inv, Clock, [Next]_vars PROVE Clock'
  OBVIOUS
<1> USE DEF Inv
<1>1. ASSUME NEW r \in Request, Arrive(r) PROVE Clock'
  BY <1>1 DEF Arrive, Clock, TypeOK, throttleVars, LimitsAssumption
<1>2. ASSUME NEW r \in Request, Load(r) PROVE Clock'
  <2>1. start[r] \in Int /\ start[r] <= now
    BY <1>2 DEF Load, Clock, Steady, LimitsAssumption
  <2>2. resetAt' = [resetAt EXCEPT ![r] = start[r] + Window] \/ resetAt' = resetAt
    BY <1>2 DEF Load
  <2>3. \A e \in Request : resetAt'[e] <= now + Window
    BY <2>1, <2>2 DEF Clock, TypeOK, LimitsAssumption
  <2>4. pc' = [pc EXCEPT ![r] = "lock"] /\ UNCHANGED <<now, start, sweep>>
    BY <1>2 DEF Load
  <2> QED
    BY <1>2, <2>3, <2>4 DEF Load, Clock, TypeOK
<1>3. ASSUME NEW r \in Request, Allow(r) PROVE Clock'
  <2>1. start[r] \in Int /\ start[r] <= now /\ holds[r] \in Request
    BY <1>3 DEF Allow, Clock, Steady, LimitsAssumption
  <2>2. resetAt' = [resetAt EXCEPT ![holds[r]] = ResetAt(r, holds[r])]
    BY <1>3 DEF Allow
  <2>3. \A e \in Request : resetAt'[e] <= now + Window
    BY <2>1, <2>2 DEF Clock, TypeOK, ResetAt, Passed, LimitsAssumption
  <2>4. /\ \E l \in {"admitted", "refused"} : pc' = [pc EXCEPT ![r] = l]
        /\ UNCHANGED <<now, start, sweep>>
    BY <1>3 DEF Allow
  <2> QED
    BY <2>3, <2>4 DEF Clock, TypeOK
<1>4. CASE Sweep \/ CleanUp
  BY <1>4 DEF Sweep, CleanUp, Clock, TypeOK
<1>5. ASSUME NEW r \in Request, IsLimited(r) PROVE Clock'
  <2>1. /\ \E l \in {"admitted", "refused"} : pc' = [pc EXCEPT ![r] = l]
        /\ UNCHANGED <<now, start, sweep, resetAt>>
    BY <1>5 DEF IsLimited, throttleVars
  <2> QED
    BY <2>1 DEF Clock, TypeOK
<1>6. CASE CleanUpLog \/ UNCHANGED vars
  BY <1>6 DEF CleanUpLog, vars, throttleVars, Clock
<1>7. CASE Tick
  BY <1>7 DEF Tick, throttleVars, Clock, Steady, TypeOK, LimitsAssumption
<1> QED
  BY <1>1, <1>2, <1>3, <1>4, <1>5, <1>6, <1>7 DEF Next

LEMMA FreshStep == LimitsAssumption /\ Inv /\ Fresh /\ [Next]_vars => Fresh'
<1> SUFFICES ASSUME LimitsAssumption, Inv, Fresh, [Next]_vars PROVE Fresh'
  OBVIOUS
<1> USE DEF Inv
<1>1. ASSUME NEW r \in Request, Arrive(r) PROVE Fresh'
  BY <1>1 DEF Arrive, Fresh, TypeOK, throttleVars
<1>2. ASSUME NEW r \in Request, Load(r) PROVE Fresh'
  BY <1>2 DEF Load, Fresh, TypeOK
<1>3. ASSUME NEW r \in Request, Allow(r) PROVE Fresh'
  <2>1. /\ holds[r] \in Request /\ pc[r] = "lock"
        /\ \E l \in {"admitted", "refused"} : pc' = [pc EXCEPT ![r] = l]
        /\ \E n \in Int : count' = [count EXCEPT ![holds[r]] = n]
        /\ UNCHANGED <<current, holds>>
    BY <1>3 DEF Allow, Steady, Count, TypeOK, LimitsAssumption
  <2> QED
    BY <2>1 DEF Fresh, TypeOK
<1>4. CASE Tick \/ Sweep \/ CleanUp \/ CleanUpLog \/ UNCHANGED vars
  BY <1>4 DEF Tick, Sweep, CleanUp, CleanUpLog, vars, throttleVars, Fresh, LimitsAssumption
<1>5. ASSUME NEW r \in Request, IsLimited(r) PROVE Fresh'
  BY <1>5 DEF IsLimited, throttleVars, Fresh, TypeOK
<1> QED
  BY <1>1, <1>2, <1>3, <1>4, <1>5 DEF Next

\* An entry whose fields a step leaves alone has nobody fewer.
LEMMA EntryKept ==
    ASSUME LimitsAssumption, TypeOK, EntryInv, [Next]_vars, NEW e \in Request,
           count'[e] = count[e], resetAt'[e] = resetAt[e]
    PROVE  count'[e] <= Cardinality(Through(e)')
<1>1. Through(e) \subseteq Through(e)' /\ Through(e)' \subseteq Request
  <2>1. \A q \in Admitted : q \in Admitted' /\ holds'[q] = holds[q] /\ end'[q] = end[q]
    BY Final DEF Admitted
  <2> QED
    BY <2>1 DEF Through, Admitted
<1>2. /\ Cardinality(Through(e)) <= Cardinality(Through(e)')
      /\ Cardinality(Through(e)) \in Nat /\ Cardinality(Through(e)') \in Nat
  BY <1>1, Pruned
<1>3. count[e] \in Nat /\ count[e] <= Cardinality(Through(e))
  BY DEF EntryInv, TypeOK, LimitsAssumption
<1> QED
  BY <1>2, <1>3

(***************************************************************************)
(* What Allow does to the entry it holds: it opens a window there, counts  *)
(* the request in the one there is, or refuses it.                         *)
(***************************************************************************)
Admits(r) ==
    /\ pc' = [pc EXCEPT ![r] = "admitted"]
    /\ astray' = IF holds[r] = current THEN astray ELSE astray \cup {r}

Opens(r) ==
    /\ start[r] > resetAt[holds[r]]
    /\ Admits(r)
    /\ resetAt' = [resetAt EXCEPT ![holds[r]] = start[r] + Window]
    /\ count' = [count EXCEPT ![holds[r]] = 1]

Counts(r) ==
    /\ start[r] <= resetAt[holds[r]] /\ count[holds[r]] < Limit
    /\ Admits(r)
    /\ count' = [count EXCEPT ![holds[r]] = count[holds[r]] + 1]
    /\ UNCHANGED resetAt

Refuses(r) ==
    /\ start[r] <= resetAt[holds[r]] /\ count[holds[r]] = Limit
    /\ pc' = [pc EXCEPT ![r] = "refused"]
    /\ UNCHANGED <<resetAt, count, astray>>

LEMMA AllowCases ==
    ASSUME LimitsAssumption, Inv, NEW r \in Request, Allow(r)
    PROVE  /\ holds[r] \in Request /\ start[r] \in Int /\ r \notin Admitted
           /\ pc[r] = "lock" /\ limiter = "throttle"
           /\ end' = [end EXCEPT ![r] = now]
           /\ UNCHANGED <<limiter, now, start, current, holds, sweep, log>>
           /\ Opens(r) \/ Counts(r) \/ Refuses(r)
<1> DEFINE e == holds[r]
<1>1. /\ e \in Request /\ start[r] \in Int /\ r \notin Admitted
      /\ pc[r] = "lock" /\ limiter = "throttle"
      /\ resetAt[e] \in Int /\ count[e] \in 0 .. Limit /\ Limit \in Nat \ {0}
      /\ resetAt \in [Request -> 0 .. MaxTime + Window] /\ count \in [Request -> 0 .. Limit]
  BY DEF Allow, Inv, TypeOK, Steady, Admitted, LimitsAssumption
<1>2. CASE start[r] > resetAt[e]
  <2>1. Count(r, e) = 0 /\ Under(0) /\ ResetAt(r, e) = start[r] + Window
    BY <1>1, <1>2 DEF Count, Passed, Under, ResetAt
  <2>2. Opens(r)
    BY <1>1, <1>2, <2>1 DEF Allow, Opens, Admits
  <2> QED
    BY <1>1, <2>2 DEF Allow
<1>3. CASE ~(start[r] > resetAt[e])
  <2>1. Count(r, e) = count[e] /\ ResetAt(r, e) = resetAt[e] /\ start[r] <= resetAt[e]
    BY <1>1, <1>3 DEF Count, Passed, ResetAt
  <2>2. resetAt' = resetAt
    BY <1>1, <2>1 DEF Allow
  <2>3. CASE Under(count[e])
    <3>1. Counts(r)
      BY <1>1, <2>1, <2>2, <2>3 DEF Allow, Under, Counts, Admits
    <3> QED
      BY <1>1, <3>1 DEF Allow
  <2>4. CASE ~Under(count[e])
    <3>1. count[e] = Limit
      BY <1>1, <2>4 DEF Under
    <3>2. count' = count
      BY <1>1, <2>1, <2>4 DEF Allow
    <3> QED
      BY <1>1, <2>1, <2>2, <2>4, <3>1, <3>2 DEF Allow, Refuses
  <2> QED
    BY <2>3, <2>4
<1> QED
  BY <1>2, <1>3

LEMMA EntryStep ==
    LimitsAssumption /\ Inv /\ Clock /\ Fresh /\ EntryInv /\ [Next]_vars => EntryInv'
<1> SUFFICES ASSUME LimitsAssumption, Inv, Clock, Fresh, EntryInv, [Next]_vars,
                    NEW e \in Request
             PROVE  count'[e] <= Cardinality(Through(e)')
  BY DEF EntryInv
<1> USE DEF Inv
<1>1. CASE count'[e] = count[e] /\ resetAt'[e] = resetAt[e]
  BY <1>1, EntryKept
<1>2. ASSUME NEW r \in Request, Load(r), e = r
      PROVE  count'[e] <= Cardinality(Through(e)')
  <2>1. count'[e] = 0
    BY <1>2 DEF Load, Fresh
  <2> QED
    BY <2>1, Pruned DEF Through, Admitted
<1>3. ASSUME NEW r \in Request, Allow(r), e = holds[r], Opens(r) \/ Counts(r)
      PROVE  count'[e] <= Cardinality(Through(e)')
  <2>0. /\ start[r] \in Int /\ start[r] <= now /\ r \notin Admitted
        /\ end' = [end EXCEPT ![r] = now] /\ pc' = [pc EXCEPT ![r] = "admitted"]
        /\ UNCHANGED <<now, holds>>
    BY <1>3, AllowCases DEF Clock, Opens, Counts, Admits
  <2>1. /\ end'[r] = now /\ r \in Admitted' /\ r \notin Admitted /\ UNCHANGED <<now, holds>>
        /\ \A q \in Admitted : q \in Admitted' /\ end'[q] = end[q]
    BY <2>0 DEF Admitted, TypeOK
  <2>2. Through(e)' \subseteq Request
    BY DEF Through, Admitted
  <2>3. CASE Opens(r)
    <3>1. count'[e] = 1 /\ resetAt'[e] = start[r] + Window
      BY <1>3, <2>3 DEF TypeOK, Opens
    <3>2. r \in Through(e)'
      BY <1>3, <2>0, <2>1, <3>1 DEF Through, TypeOK, LimitsAssumption
    <3>3. Cardinality({r}) = 1 /\ {r} \in SUBSET Through(e)'
      BY <3>2, FS_Singleton
    <3> QED
      BY <2>2, <3>1, <3>3, Pruned
  <2>4. CASE Counts(r)
    <3>1. /\ count'[e] = count[e] + 1 /\ resetAt'[e] = resetAt[e] /\ count[e] \in Nat
          /\ resetAt[e] \in Int /\ resetAt[e] <= now + Window
      BY <1>3, <2>4 DEF Counts, TypeOK, Clock, LimitsAssumption
    <3>2. Through(e) \cup {r} \subseteq Through(e)' /\ r \notin Through(e)
      BY <1>3, <2>1, <3>1 DEF Through, TypeOK, LimitsAssumption
    <3>3. Through(e) \subseteq Request
      BY DEF Through, Admitted
    <3>4. Cardinality(Through(e) \cup {r}) = Cardinality(Through(e)) + 1
      BY <3>2, <3>3, Pruned, FS_AddElement
    <3>5. /\ Cardinality(Through(e) \cup {r}) <= Cardinality(Through(e)')
          /\ Cardinality(Through(e)) \in Nat /\ Cardinality(Through(e)') \in Nat
      BY <2>2, <3>2, <3>3, Pruned
    <3>6. count[e] <= Cardinality(Through(e))
      BY DEF EntryInv
    <3> QED
      BY <3>1, <3>4, <3>5, <3>6
  <2> QED
    BY <1>3, <2>3, <2>4
<1>4. ASSUME NEW r \in Request, Load(r), e # r
      PROVE  count'[e] = count[e] /\ resetAt'[e] = resetAt[e]
  BY <1>4 DEF Load, TypeOK
<1>5. ASSUME NEW r \in Request, Allow(r), e # holds[r] \/ ~(Opens(r) \/ Counts(r))
      PROVE  count'[e] = count[e] /\ resetAt'[e] = resetAt[e]
  <2>1. CASE ~(Opens(r) \/ Counts(r))
    <3>1. Refuses(r)
      BY <1>5, <2>1, AllowCases
    <3> QED
      BY <3>1 DEF Refuses
  <2>2. CASE e # holds[r]
    BY <1>5, <2>2 DEF Allow, TypeOK
  <2> QED
    BY <1>5, <2>1, <2>2
<1>6. CASE \/ Tick \/ Sweep \/ CleanUp \/ CleanUpLog \/ UNCHANGED vars
           \/ \E r \in Request : Arrive(r) \/ IsLimited(r)
  <2>1. count' = count /\ resetAt' = resetAt
    BY <1>6 DEF Tick, Sweep, CleanUp, CleanUpLog, Arrive, IsLimited, vars, throttleVars
  <2> QED
    BY <1>1, <2>1
<1> QED
  BY <1>1, <1>2, <1>3, <1>4, <1>5, <1>6 DEF Next

\* The requests a refusal is for the sake of.
Before(r) ==
    {q \in Admitted : IF limiter = "throttle" THEN end[q] >= start[r] - Window
                      ELSE end[q] > end[r] - WindowOf}

LEMMA RefusedStep ==
    LimitsAssumption /\ RefusedInv /\ [Next]_vars => RefusedOnlyWhenFull'
<1> SUFFICES ASSUME LimitsAssumption, RefusedInv, [Next]_vars,
                    NEW r \in Request, pc'[r] = "refused"
             PROVE  Cardinality(Before(r)') >= Limit
  BY DEF RefusedOnlyWhenFull, Before
<1> USE DEF RefusedInv, Inv
<1>1. Before(r)' \subseteq Request /\ Limit \in Nat /\ limiter' = limiter /\ WindowOf' = WindowOf
  BY Final DEF Before, Admitted, LimitsAssumption, WindowOf
<1>2. \A q \in Admitted : q \in Admitted' /\ end'[q] = end[q] /\ end[q] \in 0 .. now
  BY Final DEF Admitted, Steady
<1>3. CASE pc[r] = "refused"
  <2>1. start'[r] = start[r] /\ end'[r] = end[r]
    BY <1>3, Final
  <2>2. Before(r) \subseteq Before(r)'
    BY <1>1, <1>2, <2>1 DEF Before
  <2>3. Cardinality(Before(r)) >= Limit
    BY <1>3 DEF RefusedOnlyWhenFull, Before
  <2> QED
    BY <1>1, <2>2, <2>3, Pruned
<1>4. CASE Allow(r)
  <2> DEFINE e == holds[r]
  <2>1. /\ e \in Request /\ start[r] \in Int /\ start[r] <= resetAt[e] /\ count[e] = Limit
        /\ start' = start /\ limiter = "throttle"
    <3>1. Refuses(r) /\ e \in Request /\ start[r] \in Int /\ start' = start /\ limiter = "throttle"
      <4>1. pc'[r] # "admitted"
        OBVIOUS
      <4>2. ~Opens(r) /\ ~Counts(r)
        BY <4>1 DEF Opens, Counts, Admits, TypeOK
      <4> QED
        BY <1>4, <4>2, AllowCases
    <3> QED
      BY <3>1 DEF Refuses
  <2>2. Through(e) \subseteq Before(r)'
    BY <1>1, <1>2, <2>1 DEF Before, Through, TypeOK, LimitsAssumption
  <2>3. Cardinality(Through(e)) >= Limit
    BY <2>1 DEF EntryInv
  <2> QED
    BY <1>1, <2>2, <2>3, Pruned
<1>5. CASE IsLimited(r)
  <2> DEFINE valid == {q \in log : Recent(q)}
  <2>1. ~Under(Cardinality(valid)) /\ end'[r] = now /\ limiter # "throttle"
    BY <1>5 DEF IsLimited, TypeOK
  <2>2. valid \subseteq Before(r)'
    BY <1>1, <1>2, <2>1 DEF Before, Recent, LogInv
  <2>3. Cardinality(valid) >= Limit
    BY <1>1, <2>1, <2>2, Pruned DEF Under
  <2> QED
    BY <1>1, <2>2, <2>3, Pruned
<1>6. CASE pc[r] # "refused" /\ ~Allow(r) /\ ~IsLimited(r)
  <2>1. \/ UNCHANGED pc
        \/ \E q \in Request : Arrive(q) \/ Load(q)
        \/ \E q \in Request \ {r} : Allow(q) \/ IsLimited(q)
    BY <1>6 DEF Next, Tick, Sweep, CleanUp, CleanUpLog, vars
  <2>2. pc'[r] = pc[r] \/ pc'[r] \in {"load", "lock"}
    BY <2>1 DEF Arrive, Load, Allow, IsLimited, TypeOK
  <2> QED
    BY <1>6, <2>2
<1> QED
  BY <1>3, <1>4, <1>5, <1>6

THEOREM RefusalsInductive == Spec => []RefusedInv
<1>1. LimitsAssumption
  BY LimitsAssumption
<1>2. Init => Clock /\ Fresh /\ EntryInv /\ RefusedOnlyWhenFull
  <2> SUFFICES ASSUME Init PROVE Clock /\ Fresh /\ EntryInv /\ RefusedOnlyWhenFull
    OBVIOUS
  <2>1. Clock /\ Fresh /\ RefusedOnlyWhenFull
    BY <1>1 DEF Init, Clock, Fresh, RefusedOnlyWhenFull, LimitsAssumption
  <2>2. \A e \in Request : count[e] = 0 /\ Through(e) \in SUBSET Request
    BY DEF Init, Through, Admitted
  <2>3. EntryInv
    BY <1>1, <2>2, Pruned DEF EntryInv
  <2> QED
    BY <2>1, <2>3
<1>3. Inv /\ Clock /\ Fresh /\ EntryInv /\ RefusedOnlyWhenFull /\ [Next]_vars
        => Clock' /\ Fresh' /\ EntryInv' /\ RefusedOnlyWhenFull'
  BY <1>1, ClockStep, FreshStep, EntryStep, RefusedStep DEF RefusedInv
<1> QED
  BY <1>2, <1>3, LimitsInductive, PTL DEF Spec, RefusedInv

(***************************************************************************)
(* Neither limiter refuses a request without Limit others admitted in the  *)
(* window before it, for any schedule of requests and clean-ups.           *)
(***************************************************************************)
THEOREM RefusalsAreDue == Spec => []RefusedOnlyWhenFull
<1>1. RefusedInv => RefusedOnlyWhenFull
  BY DEF RefusedInv
<1> QED
  BY <1>1, RefusalsInductive, PTL

-----------------------------------------------------------------------------
(***************************************************************************)
(* Two windows.  Those admitted through the entry in the map in the last   *)
(* stretch of a window less a delay came in one of two generations: C, who *)
(* are counted in the entry, or, when it is gone, were counted last; and   *)
(* D, who were counted in the window before it, and whose verdicts came no *)
(* later than the time.Now() that opened this one, plus the delay.  Which  *)
(* of the two a request is of is not in the state of the program.          *)
(***************************************************************************)
Straight == Admitted \ astray
Young == {q \in Straight : end[q] >= now - (Window - Delay)}

Generations(C, D) ==
    /\ Young \subseteq C \cup D
    /\ Cardinality(C) <= Limit /\ Cardinality(D) <= Limit
    /\ current = None => D = {}
    /\ current # None => Cardinality(C) <= count[current]
    /\ current # None => \A q \in D : end[q] <= resetAt[current] - Window + Delay

TwoGenerations ==
    limiter = "throttle" => \E C, D \in SUBSET Admitted : Generations(C, D)

WindowsInv == RefusedInv /\ TwoGenerations /\ TwoWindows

\* Nobody admitted, nothing else changed that the generations are about.
LEMMA SameGenerations ==
    ASSUME NEW C, NEW D, Generations(C, D),
           UNCHANGED <<current>>, Young' \subseteq Young,
           current # None => /\ count'[current] = count[current]
                             /\ resetAt'[current] = resetAt[current],
           \A q \in D : end'[q] = end[q]
    PROVE  Generations(C, D)'
BY DEF Generations

\* The generations have at most two windows' worth between them.
LEMMA YoungBound ==
    ASSUME LimitsAssumption, NEW C \in SUBSET Request, NEW D \in SUBSET Request,
           Cardinality(C) <= Limit, Cardinality(D) <= Limit,
           NEW S \in SUBSET (C \cup D)
    PROVE  Cardinality(S) <= 2 * Limit
<1>1. IsFiniteSet(C) /\ IsFiniteSet(D) /\ Cardinality(C) \in Nat /\ Cardinality(D) \in Nat
  BY Pruned
<1>2. /\ IsFiniteSet(C \cap D) /\ Cardinality(C \cap D) \in Nat
      /\ Cardinality(C \cup D) = Cardinality(C) + Cardinality(D) - Cardinality(C \cap D)
  BY <1>1, FS_Union, FS_Intersection, FS_CardinalityType
<1>3. /\ Cardinality(S) <= Cardinality(C \cup D)
      /\ Cardinality(S) \in Nat /\ Cardinality(C \cup D) \in Nat
  BY Pruned
<1> QED
  BY <1>1, <1>2, <1>3 DEF LimitsAssumption

LEMMA GenerationsStep ==
    LimitsAssumption /\ WindowsInv /\ [Next]_vars => TwoGenerations'
<1> SUFFICES ASSUME LimitsAssumption, WindowsInv, [Next]_vars, limiter' = "throttle"
             PROVE  \E C, D \in SUBSET Admitted' : Generations(C, D)'
  BY DEF TwoGenerations
<1> USE DEF WindowsInv, RefusedInv, Inv
<1>1. /\ limiter = "throttle" /\ Admitted \subseteq Admitted'
      /\ \A q \in Admitted : end'[q] = end[q] /\ end[q] \in 0 .. now
      /\ now \in Int /\ Window \in Int /\ Delay \in Int /\ Limit \in Nat \ {0}
  BY Final DEF Admitted, Steady, TypeOK, LimitsAssumption
<1>2. PICK C \in SUBSET Admitted, D \in SUBSET Admitted : Generations(C, D)
  BY <1>1 DEF TwoGenerations
<1>3. C \in SUBSET Admitted' /\ D \in SUBSET Admitted' /\ C \subseteq Request
  BY <1>1 DEF Admitted
<1>4. ASSUME Straight' \subseteq Straight, now' \in Int, now' >= now PROVE Young' \subseteq Young
  BY <1>1, <1>4 DEF Young, Straight
<1>5. ASSUME Straight' \subseteq Straight, now' \in Int, now' >= now, current' = current,
             current # None => /\ count'[current] = count[current]
                               /\ resetAt'[current] = resetAt[current]
      PROVE  \E c, d \in SUBSET Admitted' : Generations(c, d)'
  <2>1. Generations(C, D)'
    BY <1>1, <1>2, <1>4, <1>5, SameGenerations
  <2> QED
    BY <1>3, <2>1
<1>6. CASE \/ Tick \/ Sweep \/ UNCHANGED vars
           \/ \E r \in Request : Arrive(r)
  <2>1. UNCHANGED <<current, count, resetAt, astray>> /\ now' \in {now, now + 1}
    BY <1>6 DEF Tick, Sweep, Arrive, vars, throttleVars
  <2>2. Admitted' = Admitted
    BY <1>6 DEF Tick, Sweep, Arrive, vars, Admitted, TypeOK
  <2> QED
    BY <1>1, <1>5, <2>1, <2>2 DEF Straight
<1>7. ~CleanUpLog /\ \A r \in Request : ~IsLimited(r)
  BY <1>1 DEF CleanUpLog, IsLimited
<1>8. ASSUME NEW r \in Request, Load(r)
      PROVE  \E c, d \in SUBSET Admitted' : Generations(c, d)'
  <2>1. Admitted' = Admitted /\ UNCHANGED <<now, count, astray, end>> /\ r # None
    BY <1>8 DEF Load, Admitted, TypeOK, LimitsAssumption
  <2>2. CASE current # None
    BY <1>1, <1>5, <1>8, <2>1, <2>2 DEF Load, Straight
  <2>3. CASE current = None
    <3>1. /\ current' = r /\ resetAt'[r] = start[r] + Window /\ start[r] \in Int
          /\ now <= start[r] + Delay /\ count'[r] \in Nat
      BY <1>1, <1>8, <2>1, <2>3 DEF Load, TypeOK, Clock, Steady
    <3>2. Young' \subseteq C /\ Cardinality(C) <= Limit
      BY <1>1, <1>2, <1>4, <2>1, <2>3 DEF Generations, Straight
    <3>3. \A q \in C : end'[q] <= resetAt'[r] - Window + Delay
      BY <1>1, <3>1
    <3>4. Cardinality({}) = 0
      BY FS_EmptySet
    <3>5. Generations({}, C)'
      BY <1>1, <2>1, <3>1, <3>2, <3>3, <3>4 DEF Generations
    <3> QED
      BY <1>3, <3>5
  <2> QED
    BY <2>2, <2>3
<1>9. CASE CleanUp
  <2>1. Admitted' = Admitted /\ UNCHANGED <<now, count, resetAt, astray, end>>
    BY <1>9 DEF CleanUp, Admitted
  <2>2. CASE current' = current
    BY <1>1, <1>5, <2>1, <2>2 DEF Straight
  <2>3. CASE current' # current
    <3>1. /\ current' = None /\ current \in Request /\ sweep > resetAt[current] /\ sweep <= now
          /\ sweep \in Int /\ resetAt[current] \in Int /\ count[current] <= Limit
      BY <1>9, <2>3 DEF CleanUp, Passed, Clock, TypeOK, LimitsAssumption
    <3>2. \A q \in D : end[q] < now - (Window - Delay)
      BY <1>1, <1>2, <3>1 DEF Generations, TypeOK, LimitsAssumption
    <3>3. Young' \subseteq C
      BY <1>1, <1>2, <1>4, <2>1, <3>2 DEF Generations, Straight, Young
    <3>4. Cardinality({}) = 0
      BY FS_EmptySet
    <3>5. Generations(C, {})'
      BY <1>1, <1>2, <3>1, <3>3, <3>4 DEF Generations
    <3> QED
      BY <1>3, <3>5
  <2> QED
    BY <2>2, <2>3
<1>10. ASSUME NEW r \in Request, Allow(r)
       PROVE  \E c, d \in SUBSET Admitted' : Generations(c, d)'
  <2> DEFINE e == holds[r]
  <2>1. /\ e \in Request /\ e # None /\ start[r] \in Int /\ r \notin Admitted
        /\ pc[r] = "lock" /\ now <= start[r] + Delay /\ start[r] <= now
        /\ UNCHANGED <<now, current>> /\ end' = [end EXCEPT ![r] = now]
    BY <1>10, AllowCases DEF Clock, LimitsAssumption
  <2>2. CASE Refuses(r)
    <3>1. Admitted' = Admitted /\ UNCHANGED <<resetAt, count, astray>>
      BY <2>1, <2>2 DEF Refuses, Admitted, TypeOK
    <3> QED
      BY <1>1, <1>5, <2>1, <3>1 DEF Straight
  <2>3. CASE e # current /\ (Opens(r) \/ Counts(r))
    <3>1. Admitted' = Admitted \cup {r} /\ astray' = astray \cup {r}
      BY <2>1, <2>3 DEF Opens, Counts, Admits, Admitted, TypeOK
    <3>2. current # None => count'[current] = count[current] /\ resetAt'[current] = resetAt[current]
      BY <2>1, <2>3 DEF Opens, Counts, TypeOK
    <3> QED
      BY <1>1, <1>5, <2>1, <3>1, <3>2 DEF Straight
  <2>4. ASSUME e = current, Opens(r) \/ Counts(r)
        PROVE  /\ Admitted' = Admitted \cup {r} /\ Young' \subseteq Young \cup {r}
    <3>1. Admitted' = Admitted \cup {r} /\ astray' = astray
      BY <2>1, <2>4 DEF Opens, Counts, Admits, Admitted, TypeOK
    <3> QED
      BY <1>1, <2>1, <3>1 DEF Young, Straight
  <2>5. CASE e = current /\ Opens(r)
    <3>1. /\ count'[current] = 1 /\ resetAt'[current] = start[r] + Window
          /\ start[r] > resetAt[current] /\ resetAt[current] \in Int
      BY <2>1, <2>5 DEF Opens, TypeOK
    <3>2. \A q \in D : end[q] < now - (Window - Delay)
      BY <1>1, <1>2, <2>1, <2>5, <3>1 DEF Generations
    <3>3. Young' \subseteq {r} \cup C
      BY <1>1, <1>2, <2>4, <2>5, <3>2 DEF Generations, Young
    <3>4. Cardinality({r}) = 1 /\ Cardinality(C) <= Limit
      BY <1>2, FS_Singleton DEF Generations
    <3>5. \A q \in C : end'[q] <= resetAt'[current] - Window + Delay
      BY <1>1, <2>1, <3>1
    <3>6. Generations({r}, C)'
      BY <1>1, <2>1, <2>5, <3>1, <3>3, <3>4, <3>5 DEF Generations
    <3> QED
      BY <1>3, <2>4, <2>5, <3>6
  <2>6. CASE e = current /\ Counts(r)
    <3>1. /\ count'[current] = count[current] + 1 /\ count[current] < Limit
          /\ count[current] \in Nat /\ resetAt' = resetAt
      BY <2>1, <2>6 DEF Counts, TypeOK, LimitsAssumption
    <3>2. /\ Cardinality(C \cup {r}) <= Cardinality(C) + 1
          /\ Cardinality(C \cup {r}) \in Nat /\ Cardinality(C) \in Nat
      BY <1>3, Pruned, OneMore
    <3>3. Cardinality(C) <= count[current] /\ Cardinality(D) <= Limit
      BY <1>2, <2>1, <2>6 DEF Generations
    <3>4. Cardinality(C \cup {r}) <= count'[current] /\ Cardinality(C \cup {r}) <= Limit
      BY <1>1, <3>1, <3>2, <3>3
    <3>5. Young' \subseteq (C \cup {r}) \cup D
      BY <1>2, <2>4, <2>6 DEF Generations
    <3>6. \A q \in D : end'[q] <= resetAt'[current] - Window + Delay
      BY <1>1, <1>2, <2>1, <2>6, <3>1 DEF Generations
    <3>7. Generations(C \cup {r}, D)'
      BY <2>1, <2>6, <3>3, <3>4, <3>5, <3>6 DEF Generations
    <3>8. C \cup {r} \in SUBSET Admitted'
      BY <1>3, <2>4, <2>6
    <3> QED
      BY <1>3, <3>7, <3>8
  <2> QED
    BY <1>10, <2>2, <2>3, <2>5, <2>6, AllowCases
<1> QED
  BY <1>6, <1>7, <1>8, <1>9, <1>10 DEF Next

LEMMA WindowsStep ==
    LimitsAssumption /\ WindowsInv /\ TypeOK' /\ Steady' /\ TwoGenerations' /\ [Next]_vars
        => TwoWindows'
<1> SUFFICES ASSUME LimitsAssumption, WindowsInv, TypeOK', Steady', TwoGenerations', [Next]_vars,
                    limiter' = "throttle", NEW r \in Admitted'
             PROVE  Cardinality({q \in Straight' : /\ end'[r] - (Window - Delay) <= end'[q]
                                                    /\ end'[q] <= end'[r]}) <= 2 * Limit
  BY DEF TwoWindows, Straight
<1> USE DEF WindowsInv, RefusedInv, Inv
<1> DEFINE Stretch == {q \in Straight' : /\ end'[r] - (Window - Delay) <= end'[q]
                                         /\ end'[q] <= end'[r]}
<1>1. /\ limiter = "throttle" /\ Admitted \subseteq Admitted'
      /\ \A q \in Admitted : end'[q] = end[q] /\ end[q] \in 0 .. now
      /\ \A q \in Admitted' : end'[q] \in 0 .. now'
      /\ now \in Int /\ now' \in Int /\ Window \in Int /\ Delay \in Int
  BY Final DEF Admitted, Steady, TypeOK, LimitsAssumption
<1>2. CASE end'[r] = now'
  <2>1. PICK C \in SUBSET Admitted', D \in SUBSET Admitted' : Generations(C, D)'
    BY DEF TwoGenerations
  <2>2. Stretch \subseteq Young'
    BY <1>2 DEF Young
  <2>3. Stretch \subseteq C \cup D /\ Cardinality(C) <= Limit /\ Cardinality(D) <= Limit
    BY <2>1, <2>2 DEF Generations
  <2>4. C \in SUBSET Request /\ D \in SUBSET Request
    BY DEF Admitted
  <2> QED
    BY <2>3, <2>4, YoungBound
<1>3. CASE end'[r] # now'
  <2>1. /\ astray \subseteq astray'
        /\ \/ Admitted' = Admitted
           \/ \E p \in Request : end'[p] = now' /\ Admitted' \subseteq Admitted \cup {p}
    <3>1. ASSUME NEW p \in Request, Allow(p)
          PROVE  /\ astray \subseteq astray' /\ end'[p] = now'
                 /\ Admitted' \subseteq Admitted \cup {p}
      <4>1. astray \subseteq astray' /\ \E l \in {"admitted", "refused"} : pc' = [pc EXCEPT ![p] = l]
        BY <3>1 DEF Allow
      <4>2. end' = [end EXCEPT ![p] = now] /\ now' = now
        BY <3>1 DEF Allow
      <4> QED
        BY <4>1, <4>2 DEF Admitted, TypeOK
    <3>2. CASE ~\E p \in Request : Allow(p)
      BY <1>1, <3>2 DEF Next, Tick, Sweep, CleanUp, CleanUpLog, Arrive, Load, IsLimited, vars,
         throttleVars, Admitted, TypeOK
    <3> QED
      BY <3>1, <3>2
  <2>2. \A q \in Stretch : end'[q] # now'
    BY <1>1, <1>3 DEF Straight
  <2>3. r \in Admitted /\ end'[r] = end[r]
    BY <1>1, <1>3, <2>1
  <2>4. Stretch \subseteq {q \in Straight : end[r] - (Window - Delay) <= end[q] /\ end[q] <= end[r]}
    BY <1>1, <2>1, <2>2, <2>3 DEF Straight
  <2>5. {q \in Straight : end[r] - (Window - Delay) <= end[q] /\ end[q] <= end[r]} \subseteq Request
    BY DEF Straight, Admitted
  <2>6. Cardinality({q \in Straight : end[r] - (Window - Delay) <= end[q] /\ end[q] <= end[r]})
          <= 2 * Limit
    BY <1>1, <2>3 DEF TwoWindows, Straight
  <2> QED
    BY <2>4, <2>5, <2>6, Pruned DEF LimitsAssumption
<1> QED
  BY <1>2, <1>3

THEOREM WindowsInductive == Spec => []WindowsInv
<1>1. LimitsAssumption
  BY LimitsAssumption
<1>2. Init => TwoGenerations /\ TwoWindows
  <2> SUFFICES ASSUME Init PROVE TwoGenerations /\ TwoWindows
    OBVIOUS
  <2>1. Admitted = {} /\ Young = {} /\ current = None /\ Cardinality({}) = 0
    BY FS_EmptySet DEF Init, Admitted, Young, Straight
  <2>2. Generations({}, {})
    BY <1>1, <2>1 DEF Generations, LimitsAssumption
  <2> QED
    BY <2>1, <2>2 DEF TwoGenerations, TwoWindows
<1>3. RefusedInv /\ TwoGenerations /\ TwoWindows /\ RefusedInv' /\ [Next]_vars
        => TwoGenerations' /\ TwoWindows'
  BY <1>1, GenerationsStep, WindowsStep DEF WindowsInv, RefusedInv, Inv
<1> QED
  BY <1>2, <1>3, RefusalsInductive, PTL DEF Spec, WindowsInv

(***************************************************************************)
(* Throttle admits at most 2 * Limit requests through the entry in the map *)
(* in any stretch that is shorter than a window by the longest delay of a  *)
(* goroutine, whatever that delay and whenever the clean-up runs.          *)
(***************************************************************************)
THEOREM TwoWindowsAtMost == Spec => []TwoWindows
<1>1. WindowsInv => TwoWindows
  BY DEF WindowsInv
<1> QED
  BY <1>1, WindowsInductive, PTL
=============================================================================
