------------------------------- MODULE Limits -------------------------------
(***************************************************************************)
(* The two in-memory limiters of opt/middlewares a route can be put        *)
(* behind: Throttle counts in an entry that is reset once its minute has   *)
(* passed, RateLimiter keeps the times of the requests it let through.     *)
(* Requests of one key meet the limiter of their route and its clean-up    *)
(* goroutine; other keys have state of their own.                          *)
(*                                                                         *)
(* RateLimiter does everything under one mutex.  Throttle reads the clock, *)
(* takes the entry from a sync.Map, and only then locks the entry: between *)
(* the two the clean-up may have dropped it from the map.                  *)
(***************************************************************************)
EXTENDS Integers, FiniteSets

CONSTANTS
    Request,   \* requests of the key
    None,      \* an absent value
    Limit,     \* RequestsPerMinute + BurstSize, or ipLimit, or emailLimit
    Window,    \* a minute: the window of Throttle and of an IP
    Horizon,   \* an hour: the window of an email, and what the clean-up keeps
    Delay,     \* how long a request may take from its time.Now() to its verdict
    MaxTime    \* bound on the clock

ASSUME LimitsAssumption ==
    /\ IsFiniteSet(Request) /\ None \notin Request \cup Int
    /\ Limit \in Nat \ {0} /\ Window \in Nat /\ Horizon \in Nat
    /\ Window <= Horizon /\ Delay \in Nat /\ MaxTime \in Nat

VARIABLES
    limiter,   \* the limiter of the route: "throttle", or RateLimiter by "ip" or "email"
    now,
    pc,        \* per request: "idle", "load", "lock", and its verdict
    start,     \* per request: its time.Now() in Throttle
    end,       \* per request: the time of its verdict
    current,   \* Throttle: the entry in the map; an entry is named by who stored it
    count, resetAt,  \* Throttle: the fields of each entry
    holds,     \* Throttle: the entry a request has loaded
    sweep,     \* Throttle: the time.Now() of the clean-up under way
    log,       \* RateLimiter: the requests whose times are kept
    astray     \* history: admitted through an entry no longer in the map

throttleVars == <<current, count, resetAt, holds, sweep, astray>>
vars == <<limiter, now, pc, start, end, throttleVars, log>>

Init ==
    /\ limiter \in {"throttle", "ip", "email"}
    /\ now = 0
    /\ pc = [r \in Request |-> "idle"]
    /\ start = [r \in Request |-> None]
    /\ end = [r \in Request |-> None]
    /\ current = None
    /\ count = [r \in Request |-> 0]
    /\ resetAt = [r \in Request |-> 0]
    /\ holds = [r \in Request |-> None]
    /\ sweep = None
    /\ log = {}
    /\ astray = {}

Arrive(r) ==
    /\ pc[r] = "idle"
    /\ pc' = [pc EXCEPT ![r] = "load"]
    /\ start' = [start EXCEPT ![r] = now]
    /\ UNCHANGED <<limiter, now, end, throttleVars, log>>

-----------------------------------------------------------------------------
\* Throttle.Allow: LoadOrStore of a new entry.
Load(r) ==
    /\ limiter = "throttle"
    /\ pc[r] = "load"
    /\ pc' = [pc EXCEPT ![r] = "lock"]
    /\ IF current = None
       THEN /\ current' = r
            /\ resetAt' = [resetAt EXCEPT ![r] = start[r] + Window]
            /\ holds' = [holds EXCEPT ![r] = r]
       ELSE /\ holds' = [holds EXCEPT ![r] = current]
            /\ UNCHANGED <<current, resetAt>>
    /\ UNCHANGED <<limiter, now, start, end, count, sweep, log, astray>>

\* now.After(entry.resetAt)
Passed(t, e) == t > resetAt[e]

\* Plausible slip: the reset forgets the new end of the window.
ResetForgotten(r, e) == resetAt[e]

ResetAt(r, e) == IF Passed(start[r], e) THEN start[r] + Window ELSE resetAt[e]

\* Plausible slip: the reset forgets the count.
CountForgotten(r, e) == count[e]

Count(r, e) == IF Passed(start[r], e) THEN 0 ELSE count[e]

\* Plausible slip: <= for <.
UnderOrAt(n) == n <= Limit

Under(n) == n < Limit

\* Throttle.Allow, the rest of it, under the lock of the entry.
Allow(r) ==
    /\ pc[r] = "lock"
    /\ LET e == holds[r]
           n == Count(r, e)
       IN
       /\ resetAt' = [resetAt EXCEPT ![e] = ResetAt(r, e)]
       /\ IF Under(n)
          THEN /\ count' = [count EXCEPT ![e] = n + 1]
               /\ pc' = [pc EXCEPT ![r] = "admitted"]
               /\ astray' = IF e = current THEN astray ELSE astray \cup {r}
          ELSE /\ count' = [count EXCEPT ![e] = n]
               /\ pc' = [pc EXCEPT ![r] = "refused"]
               /\ UNCHANGED astray
    /\ end' = [end EXCEPT ![r] = now]
    /\ UNCHANGED <<limiter, now, start, current, holds, sweep, log>>

\* The ticker fires: the clean-up reads the clock...
Sweep ==
    /\ limiter = "throttle"
    /\ sweep = None
    /\ sweep' = now
    /\ UNCHANGED <<limiter, now, pc, start, end, current, count, resetAt, holds, log, astray>>

\* ...and drops the entry of the key, under its lock, if its window passed.
CleanUp ==
    /\ sweep # None
    /\ current' = IF current # None /\ Passed(sweep, current) THEN None ELSE current
    /\ sweep' = None
    /\ UNCHANGED <<limiter, now, pc, start, end, count, resetAt, holds, log, astray>>

-----------------------------------------------------------------------------
WindowOf == IF limiter = "email" THEN Horizon ELSE Window

Recent(q) == end[q] > now - WindowOf

\* RateLimiter.isLimited, which prunes the log unless it refuses.
IsLimited(r) ==
    /\ limiter # "throttle"
    /\ pc[r] = "load"
    /\ LET valid == {q \in log : Recent(q)} IN
        IF Under(Cardinality(valid))
        THEN /\ log' = valid \cup {r}
             /\ pc' = [pc EXCEPT ![r] = "admitted"]
        ELSE /\ pc' = [pc EXCEPT ![r] = "refused"]
             /\ UNCHANGED log
    /\ end' = [end EXCEPT ![r] = now]
    /\ UNCHANGED <<limiter, now, start, throttleVars>>

\* Plausible slip: the clean-up keeps a minute for every key.
KeptMinute(q) == now - end[q] < Window

Kept(q) == now - end[q] < Horizon

\* RateLimiter.cleanup, which keeps what is younger than an hour.
CleanUpLog ==
    /\ limiter # "throttle"
    /\ log' = {q \in log : Kept(q)}
    /\ UNCHANGED <<limiter, now, pc, start, end, throttleVars>>

Tick ==
    /\ now < MaxTime
    /\ \A r \in Request : pc[r] \in {"load", "lock"} => now < start[r] + Delay
    /\ now' = now + 1
    /\ UNCHANGED <<limiter, pc, start, end, throttleVars, log>>

Next ==
    \/ Tick \/ Sweep \/ CleanUp \/ CleanUpLog
    \/ \E r \in Request : Arrive(r) \/ Load(r) \/ Allow(r) \/ IsLimited(r)

Spec == Init /\ [][Next]_vars

-----------------------------------------------------------------------------
TypeOK ==
    /\ limiter \in {"throttle", "ip", "email"}
    /\ now \in 0 .. MaxTime
    /\ pc \in [Request -> {"idle", "load", "lock", "admitted", "refused"}]
    /\ start \in [Request -> 0 .. MaxTime \cup {None}]
    /\ end \in [Request -> 0 .. MaxTime \cup {None}]
    /\ current \in Request \cup {None}
    /\ count \in [Request -> 0 .. Limit]
    /\ resetAt \in [Request -> 0 .. MaxTime + Window]
    /\ holds \in [Request -> Request \cup {None}]
    /\ sweep \in 0 .. MaxTime \cup {None}
    /\ log \subseteq Request
    /\ astray \subseteq Request

Admitted == {r \in Request : pc[r] = "admitted"}

(***************************************************************************)
(* RateLimiter never lets more than Limit requests of a key through in any *)
(* stretch of time as long as its window: pruning and clean-up, whose      *)
(* horizon is not the window, never forget a request that still counts.    *)
(***************************************************************************)
SlidingLimit ==
    limiter # "throttle" =>
        \A r \in Admitted :
            Cardinality({q \in Admitted : end[r] - WindowOf < end[q] /\ end[q] <= end[r]})
                <= Limit

(***************************************************************************)
(* Throttle is no such sliding window (throttle.go:48 calls it one): a     *)
(* stretch of a minute may straddle two windows.  Through the entry in the *)
(* map it admits at most 2 * Limit, and no more than that although the     *)
(* clean-up deletes entries and others are stored.  The stretch is shorter *)
(* than a window by Delay: a window ends a minute after the time.Now() of  *)
(* the goroutine that opens it, which may come late to the entry.          *)
(***************************************************************************)
TwoWindows ==
    limiter = "throttle" =>
        \A r \in Admitted :
            Cardinality({q \in Admitted \ astray :
                            end[r] - (Window - Delay) <= end[q] /\ end[q] <= end[r]})
                <= 2 * Limit

(***************************************************************************)
(* A request is refused only for the sake of Limit others admitted in the  *)
(* window before it: whoever waits a window is served again.               *)
(***************************************************************************)
RefusedOnlyWhenFull ==
    \A r \in Request : pc[r] = "refused" =>
        Cardinality({q \in Admitted :
                        IF limiter = "throttle" THEN end[q] >= start[r] - Window
                        ELSE end[q] > end[r] - WindowOf})
            >= Limit
=============================================================================
