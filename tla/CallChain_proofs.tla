-------------------------- MODULE CallChain_proofs --------------------------
(***************************************************************************)
(* What the timeouts of the call chain guarantee, for all their values.    *)
(* The induction is over the clock: no step but a command to Redis or      *)
(* Postgres goes on after the caller has left, at most one such command is *)
(* then under way, and only the unlock follows it.                         *)
(***************************************************************************)
EXTENDS CallChain, TLAPS

USE DEF Callee, Stores, Calling, Critical

(***************************************************************************)
(* A timestamp in whole seconds is less than a second behind.              *)
(***************************************************************************)
LEMMA TimestampFact ==
    ASSUME NEW t \in Nat
    PROVE  /\ Timestamp(t) \in Nat
           /\ Timestamp(t) <= t
           /\ t < Timestamp(t) + Second
  <1>1. Second \in Nat /\ Second > 0
    BY TimesAssumption
  <1>2. t % Second \in 0 .. Second - 1 /\ t % Second <= t
    BY <1>1
  <1>. QED
    BY <1>1, <1>2 DEF Timestamp

(***************************************************************************)
(* Steps begin now and end now or later.                                   *)
(***************************************************************************)
LEMMA ForFact ==
    ASSUME TypeOK, NEW l, NEW limit \in Nat, For(l, limit)
    PROVE  pc' = l /\ started' = now /\ due' \in Nat /\ now <= due' /\ due' <= now + limit
  BY DurationsAssumption DEF For, TypeOK

(***************************************************************************)
(* Type correctness, one step per action.                                  *)
(***************************************************************************)
Attempts ==
    /\ pc \in {"sent", "get", "lock"} => callee = "users" /\ attempt["users"] = 0
    /\ callee = "users" => attempt["provider"] = 0
    /\ pc \in Calling => attempt[callee] <= MaxRetries
    /\ \A c \in Callee : hung[c] <= attempt[c]

LEMMA InitType == Init => TypeOK
  <1>. SUFFICES ASSUME Init PROVE TypeOK
    OBVIOUS
  <1>1. {now, started, due, sent, gone, stamp, pause} \subseteq Nat
    BY TimesAssumption, LeavesAssumption, DurationsAssumption, TimestampFact DEF Init
  <1>2. 0 \in 0 .. MaxRetries + 1
    BY TimesAssumption
  <1>. QED
    BY <1>1, <1>2 DEF Init, TypeOK

LEMMA CountFact ==
    ASSUME TypeOK, Attempts, pc = "exchange", NEW p, Count(p)
    PROVE  /\ attempt' \in [Callee -> 0 .. MaxRetries + 1]
           /\ hung' \in [Callee -> 0 .. MaxRetries + 1]
           /\ attempt'[callee] = attempt[callee] + 1
           /\ hung'[callee] = hung[callee] + (IF p = "timeout" THEN 1 ELSE 0)
           /\ \A c \in Callee \ {callee} : attempt'[c] = attempt[c] /\ hung'[c] = hung[c]
           /\ \A c \in Callee : hung'[c] <= attempt'[c]
  BY TimesAssumption DEF TypeOK, Attempts, Count

\* What UsersAnswer and ProviderAnswer do when the answer is p.
UsersOutcome(p) ==
    /\ MayBe(p)
    /\ p = "refused" => ~Fresh(now)
    /\ Count(p)
    /\ IF p = "refused" THEN Expire("users") ELSE UNCHANGED expired
    /\ \/ Call("provider") /\ UNCHANGED answer
       \/ p # "refused" /\ MayRetry /\ Again /\ UNCHANGED <<callee, answer>>
       \/ Answer(UsersRefusal(p)) /\ For("unlock", Grace) /\ UNCHANGED <<callee, pause>>
    /\ UNCHANGED <<now, sent, gone, noticed, stamp, lockedAt, reply, row, left>>

ProviderOutcome(p) ==
    /\ MayBe(p)
    /\ Count(p)
    /\ reply' = p
    /\ \/ MayRetry /\ Again
       \/ For("save", Grace) /\ UNCHANGED pause
    /\ UNCHANGED <<now, sent, gone, noticed, stamp, lockedAt, callee, expired,
                   row, left, answer>>

LEMMA UsersFact ==
    ASSUME UsersAnswer
    PROVE  /\ pc = "exchange" /\ callee = "users" /\ Through
           /\ \E p \in UsersReply : UsersOutcome(p)
  BY DEF UsersAnswer, Retryable, UsersOutcome

LEMMA ProviderFact ==
    ASSUME ProviderAnswer
    PROVE  /\ pc = "exchange" /\ callee = "provider" /\ Through
           /\ \E p \in Reply : ProviderOutcome(p)
  <1>1. PICK p \in Replies :
           /\ MayBe(p) /\ Count(p) /\ reply' = p
           /\ IF Retryable(p) /\ MayRetry THEN Again
                                          ELSE For("save", Grace) /\ UNCHANGED pause
    BY DEF ProviderAnswer
  <1>2. p \in Reply /\ ProviderOutcome(p)
    BY <1>1, RepliesAssumption DEF ProviderAnswer, ProviderOutcome
  <1>. QED
    BY <1>2 DEF ProviderAnswer

LEMMA RowStatusFact == \A p : RowStatus(p) \in Status
  BY DEF RowStatus, MapProviderStatus, PostSucceeds, Status

LEMMA NextType == TypeOK /\ Attempts /\ [Next]_vars => TypeOK'
  <1>. SUFFICES ASSUME TypeOK, Attempts, [Next]_vars PROVE TypeOK'
    OBVIOUS
  <1>. USE TimesAssumption
  <1>1. CASE Pass
    <2>1. due \in Nat /\ gone \in Nat /\ (Locked => lockedAt + LockTTL \in Nat)
      BY DEF TypeOK, Locked
    <2>2. now' \in Nat
      BY <1>1, <2>1 DEF Pass, Upcoming
    <2>. QED
      BY <1>1, <2>2 DEF Pass, TypeOK, callVars
  <1>2. CASE Notice
    BY <1>2 DEF Notice, TypeOK, callVars
  <1>3. CASE Deliver
    BY <1>3, ForFact DEF Deliver, TypeOK, callVars, At, Answer, Expire
  <1>4. CASE GiveUp
    BY <1>4 DEF GiveUp, TypeOK, callVars, At
  <1>5. CASE Get
    BY <1>5, ForFact DEF Get, TypeOK, callVars, At, Answer
  <1>6. CASE Lock
    <2>1. Timestamp(now) \in Nat
      BY TimestampFact DEF TypeOK
    <2>. QED
      BY <1>6, <2>1 DEF Lock, TypeOK, At, Answer, Call, End
  <1>7. CASE Attempt
    BY <1>7, DurationsAssumption DEF Attempt, TypeOK, callVars
  <1>8. CASE WakeUp
    BY <1>8 DEF WakeUp, TypeOK, callVars, At
  <1>9. CASE UsersAnswer
    <2>1. PICK p \in UsersReply : UsersOutcome(p)
      BY <1>9, UsersFact
    <2>2. pc = "exchange" /\ callee = "users"
      BY <1>9, UsersFact
    <2>. QED
      BY <2>1, <2>2, CountFact, ForFact DEF UsersOutcome, TypeOK, Expire, Call, At, Again, Answer, UsersRefusal
  <1>10. CASE ProviderAnswer
    <2>1. PICK p \in Reply : ProviderOutcome(p)
      BY <1>10, ProviderFact
    <2>2. pc = "exchange" /\ callee = "provider"
      BY <1>10, ProviderFact
    <2>. QED
      BY <2>1, <2>2, CountFact, ForFact DEF ProviderOutcome, TypeOK, Again
  <1>11. CASE Interrupted
    BY <1>11, ForFact DEF Interrupted, TypeOK, callVars, Answer, Reply
  <1>12. CASE Save
    <2>1. row' \in Status \cup {None}
      BY <1>12, RowStatusFact DEF Save, TypeOK
    <2>5. left' \subseteq {"tasks", "answer"}
      <3>1. left' = {"tasks"} \/ left' = left
        BY <1>12, Zenon DEF Save
      <3>2. left \subseteq {"tasks", "answer"}
        BY Zenon DEF TypeOK
      <3>. QED
        BY <3>1, <3>2, Zenon
    <2>2. pc' \in {"cache", "unlock"} /\ started' = now /\ due' \in Nat
      BY <1>12, ForFact DEF Save
    <2>3. answer' \in {None, 201, 400, 401, 409, 500, 503}
      BY <1>12 DEF Save, TypeOK, Answer
    <2>4. UNCHANGED <<now, sent, gone, noticed, stamp, lockedAt, callVars, expired, reply>>
      BY <1>12 DEF Save
    <2>. QED
      BY <2>1, <2>2, <2>3, <2>4, <2>5 DEF TypeOK, callVars
  <1>13. CASE CacheResponse
    <2>1. left' \subseteq {"tasks", "answer"}
      <3>1. left' = left \cup {"answer"} \/ left' = left
        BY <1>13, Zenon DEF CacheResponse
      <3>2. left \subseteq {"tasks", "answer"}
        BY Zenon DEF TypeOK
      <3>. QED
        BY <3>1, <3>2, Zenon
    <2>2. pc' = "unlock" /\ started' = now /\ due' \in Nat
      BY <1>13, ForFact DEF CacheResponse
    <2>3. answer' \in {201, 500}
      BY <1>13 DEF CacheResponse, Answer
    <2>4. UNCHANGED <<now, sent, gone, noticed, stamp, lockedAt, callVars, expired,
                      reply, row>>
      BY <1>13 DEF CacheResponse
    <2>. QED
      BY <2>1, <2>2, <2>3, <2>4 DEF TypeOK, callVars
  <1>14. CASE Unlock
    BY <1>14 DEF Unlock, TypeOK, callVars, End
  <1>15. CASE UNCHANGED vars
    BY <1>15 DEF TypeOK, vars, callVars
  <1>. QED
    BY <1>1, <1>2, <1>3, <1>4, <1>5, <1>6, <1>7, <1>8, <1>9, <1>10, <1>11, <1>12,
       <1>13, <1>14, <1>15 DEF Next

-----------------------------------------------------------------------------
(***************************************************************************)
(* The attempts are counted per call.                                      *)
(***************************************************************************)
LEMMA InitAttempts == Init => Attempts
  BY TimesAssumption DEF Init, Attempts

LEMMA NextAttempts == TypeOK /\ Attempts /\ [Next]_vars => Attempts'
  <1>. SUFFICES ASSUME TypeOK, Attempts, [Next]_vars PROVE Attempts'
    OBVIOUS
  <1>. USE TimesAssumption
  <1>1. CASE Pass
    BY <1>1 DEF Pass, Attempts, callVars
  <1>2. CASE Notice
    BY <1>2 DEF Notice, Attempts, callVars
  <1>3. CASE Deliver
    BY <1>3, ForFact DEF Deliver, Attempts, callVars, At
  <1>4. CASE GiveUp
    BY <1>4 DEF GiveUp, Attempts, callVars, At
  <1>5. CASE Get
    BY <1>5, ForFact DEF Get, Attempts, callVars, At
  <1>6. CASE Lock
    BY <1>6 DEF Lock, Attempts, At, Call, End
  <1>7. CASE Attempt
    BY <1>7 DEF Attempt, Attempts, callVars
  <1>8. CASE WakeUp
    BY <1>8 DEF WakeUp, Attempts, callVars, At
  <1>9. CASE UsersAnswer
    <2>1. PICK p \in UsersReply : UsersOutcome(p)
      BY <1>9, UsersFact
    <2>2. pc = "exchange" /\ callee = "users"
      BY <1>9, UsersFact
    <2>3. attempt'["users"] = attempt["users"] + 1 /\ attempt'["provider"] = 0
      BY <2>1, <2>2, CountFact DEF UsersOutcome, Attempts
    <2>4. \A c \in Callee : hung'[c] <= attempt'[c]
      BY <2>1, <2>2, CountFact DEF UsersOutcome
    <2>5. CASE Call("provider")
      BY <2>3, <2>4, <2>5 DEF Attempts, Call, At
    <2>6. CASE MayRetry /\ Again /\ UNCHANGED callee
      BY <2>2, <2>3, <2>4, <2>6 DEF Attempts, MayRetry, Again, TypeOK
    <2>7. CASE For("unlock", Grace) /\ UNCHANGED callee
      BY <2>2, <2>3, <2>4, <2>7, ForFact DEF Attempts
    <2>. QED
      BY <2>1, <2>5, <2>6, <2>7 DEF UsersOutcome
  <1>10. CASE ProviderAnswer
    <2>1. PICK p \in Reply : ProviderOutcome(p)
      BY <1>10, ProviderFact
    <2>2. pc = "exchange" /\ callee = "provider" /\ callee' = "provider"
      BY <1>10, <2>1, ProviderFact DEF ProviderOutcome
    <2>3. attempt'["provider"] = attempt["provider"] + 1
      BY <2>1, <2>2, CountFact DEF ProviderOutcome
    <2>4. \A c \in Callee : hung'[c] <= attempt'[c]
      BY <2>1, <2>2, CountFact DEF ProviderOutcome
    <2>5. CASE MayRetry /\ Again
      BY <2>2, <2>3, <2>4, <2>5 DEF Attempts, MayRetry, Again, TypeOK
    <2>6. CASE For("save", Grace)
      BY <2>2, <2>4, <2>6, ForFact DEF Attempts
    <2>. QED
      BY <2>1, <2>5, <2>6 DEF ProviderOutcome
  <1>11. CASE Interrupted
    BY <1>11, ForFact DEF Interrupted, Attempts, callVars
  <1>12. CASE Save
    BY <1>12, ForFact DEF Save, Attempts, callVars
  <1>13. CASE CacheResponse
    BY <1>13, ForFact DEF CacheResponse, Attempts, callVars
  <1>14. CASE Unlock
    BY <1>14 DEF Unlock, Attempts, callVars, End
  <1>15. CASE UNCHANGED vars
    BY <1>15 DEF Attempts, vars, callVars
  <1>. QED
    BY <1>1, <1>2, <1>3, <1>4, <1>5, <1>6, <1>7, <1>8, <1>9, <1>10, <1>11, <1>12,
       <1>13, <1>14, <1>15 DEF Next

(***************************************************************************)
(* CallChain keeps its types for all timeouts, retries and durations.      *)
(***************************************************************************)
THEOREM ChainTypeCorrect == Spec => []TypeOK
  <1>1. Init => TypeOK /\ Attempts
    BY InitType, InitAttempts
  <1>2. TypeOK /\ Attempts /\ [Next]_vars => (TypeOK /\ Attempts)'
    BY NextType, NextAttempts
  <1>. QED
    BY <1>1, <1>2, PTL DEF Spec

-----------------------------------------------------------------------------
(***************************************************************************)
(* The clock.  sent is the origin; a store command that has started runs   *)
(* over the caller's leaving by at most Grace, and so do the steps after   *)
(* it, which see that the context is done; the unlock adds another Grace.  *)
(***************************************************************************)
Clock ==
    /\ sent <= started /\ started <= now
    /\ sent <= gone /\ gone <= sent + Patience
    /\ stamp <= now /\ sent < stamp + Second
    /\ pc # "done" => now <= due
    /\ pc \in Stores \cup Calling => now <= gone + Grace
    /\ pc \in Stores => due <= started + Grace /\ (gone <= started => now = started)
    /\ pc = "unlock" => due <= gone + 2 * Grace
    /\ pc \in Critical => lockedAt # None
    /\ lockedAt # None => sent <= lockedAt

LEMMA InitClock == Init => Clock
  <1>. SUFFICES ASSUME Init PROVE Clock
    OBVIOUS
  <1>1. now \in Nat /\ due \in Nat /\ now <= due /\ gone \in Nat
    BY TimesAssumption, LeavesAssumption, DurationsAssumption DEF Init
  <1>2. sent <= gone /\ gone <= sent + Patience
    BY TimesAssumption, LeavesAssumption DEF Init
  <1>3. stamp <= now /\ sent < stamp + Second
    BY TimestampFact, <1>1 DEF Init
  <1>. QED
    BY <1>1, <1>2, <1>3 DEF Init, Clock

\* The types of the times, in the form the arithmetic needs.
LEMMA TimesFact ==
    ASSUME TypeOK
    PROVE  /\ now \in Nat /\ started \in Nat /\ due \in Nat /\ sent \in Nat
           /\ gone \in Nat /\ stamp \in Nat /\ pause \in Nat
           /\ lockedAt # None => lockedAt \in Nat
           /\ Grace \in Nat /\ Patience \in Nat /\ Second \in Nat /\ LockTTL \in Nat
           /\ CallTimeout \in Nat /\ Backoff \in Nat /\ Tolerance \in Nat
  BY TimesAssumption DEF TypeOK

LEMMA NextClock == TypeOK /\ Clock /\ [Next]_vars => Clock'
  <1>. SUFFICES ASSUME TypeOK, Clock, [Next]_vars PROVE Clock'
    OBVIOUS
  <1>. USE TimesFact
  <1>1. CASE Pass
    <2>1. now < due /\ now' > now /\ now' <= due
      BY <1>1 DEF Pass, Upcoming
    <2>2. now' \in Nat
      BY <1>1 DEF Pass, Upcoming, Locked
    <2>3. gone > now => now' <= gone
      BY <1>1 DEF Pass, Upcoming
    <2>4. pc \in Stores => ~(gone <= started)
      BY <1>1 DEF Pass, ContextDone
    <2>5. pc \in Calling => ~(gone <= now)
      BY <1>1 DEF Pass, ContextDone
    <2>6. UNCHANGED <<pc, started, due, sent, gone, stamp, lockedAt>>
      BY <1>1 DEF Pass
    <2>7. pc \in Stores => now' <= gone + Grace
      BY <2>1, <2>2, <2>4 DEF Clock
    <2>8. pc \in Calling => now' <= gone + Grace
      BY <2>2, <2>3, <2>5
    <2>. QED
      BY <2>1, <2>2, <2>4, <2>6, <2>7, <2>8 DEF Clock
  <1>2. CASE Notice
    BY <1>2 DEF Notice, Clock
  <1>3. CASE Deliver
    BY <1>3, ForFact DEF Deliver, Clock, At
  <1>4. CASE GiveUp
    BY <1>4 DEF GiveUp, Clock, At
  <1>5. CASE Get
    BY <1>5, ForFact DEF Get, Clock, At
  <1>6. CASE Lock
    <2>1. Timestamp(now) \in Nat /\ Timestamp(now) <= now /\ now < Timestamp(now) + Second
      BY TimestampFact
    <2>2. sent < Timestamp(now) + Second
      BY <2>1 DEF Clock
    <2>. QED
      BY <1>6, <2>1, <2>2, NoneAssumption DEF Lock, Clock, At, Call, End
  <1>7. CASE Attempt
    <2>1. due' \in Nat /\ now <= due'
      BY <1>7, DurationsAssumption DEF Attempt
    <2>. QED
      BY <1>7, <2>1 DEF Attempt, Clock
  <1>8. CASE WakeUp
    BY <1>8 DEF WakeUp, Clock, At
  <1>9. CASE UsersAnswer
    <2>1. PICK p \in UsersReply : UsersOutcome(p)
      BY <1>9, UsersFact
    <2>2. pc = "exchange" /\ UNCHANGED <<now, sent, gone, stamp, lockedAt>>
      BY <1>9, <2>1, UsersFact DEF UsersOutcome
    <2>3. CASE Call("provider")
      BY <2>2, <2>3 DEF Clock, Call, At
    <2>4. CASE Again
      BY <2>2, <2>4 DEF Clock, Again
    <2>5. CASE For("unlock", Grace)
      BY <2>2, <2>5, ForFact DEF Clock
    <2>. QED
      BY <2>1, <2>3, <2>4, <2>5 DEF UsersOutcome
  <1>10. CASE ProviderAnswer
    <2>1. PICK p \in Reply : ProviderOutcome(p)
      BY <1>10, ProviderFact
    <2>2. pc = "exchange" /\ UNCHANGED <<now, sent, gone, stamp, lockedAt>>
      BY <1>10, <2>1, ProviderFact DEF ProviderOutcome
    <2>3. CASE Again
      BY <2>2, <2>3 DEF Clock, Again
    <2>4. CASE For("save", Grace)
      BY <2>2, <2>4, ForFact DEF Clock
    <2>. QED
      BY <2>1, <2>3, <2>4 DEF ProviderOutcome
  <1>11. CASE Interrupted
    BY <1>11, ForFact DEF Interrupted, Clock
  <1>12. CASE Save
    BY <1>12, ForFact DEF Save, Clock
  <1>13. CASE CacheResponse
    BY <1>13, ForFact DEF CacheResponse, Clock
  <1>14. CASE Unlock
    BY <1>14 DEF Unlock, Clock, End
  <1>15. CASE UNCHANGED vars
    BY <1>15 DEF Clock, vars
  <1>. QED
    BY <1>1, <1>2, <1>3, <1>4, <1>5, <1>6, <1>7, <1>8, <1>9, <1>10, <1>11, <1>12,
       <1>13, <1>14, <1>15 DEF Next

LEMMA CoversFact == TypeOK /\ Clock => LockCoversRequest
  <1>. SUFFICES ASSUME TypeOK, Clock, Patience + 2 * Grace < LockTTL, pc \in Critical
                PROVE  Locked
    BY DEF LockCoversRequest
  <1>1. now <= gone + 2 * Grace
    BY TimesFact DEF Clock
  <1>2. lockedAt # None /\ sent <= lockedAt /\ gone <= sent + Patience
    BY DEF Clock
  <1>. QED
    BY <1>1, <1>2, TimesFact DEF Locked

(***************************************************************************)
(* No request outlives its lock if the caller leaves two commands' time    *)
(* before the lock's end: the assumption SlowRequests = FALSE of Purchase, *)
(* for all timeouts, retries and answers.                                  *)
(***************************************************************************)
THEOREM LockOutlivesRequest == Spec => []LockCoversRequest
  <1>1. Init => TypeOK /\ Attempts /\ Clock
    BY InitType, InitAttempts, InitClock
  <1>2. TypeOK /\ Attempts /\ Clock /\ [Next]_vars => (TypeOK /\ Attempts /\ Clock)'
    BY NextType, NextAttempts, NextClock
  <1>3. TypeOK /\ Clock => LockCoversRequest
    BY CoversFact
  <1>. QED
    BY <1>1, <1>2, <1>3, PTL DEF Spec

-----------------------------------------------------------------------------
(***************************************************************************)
(* The first two attempts of ValidateUser end within two timeouts and one  *)
(* pause of the signature.                                                 *)
(***************************************************************************)
Early ==
    pc \in Calling /\ callee = "users" =>
        /\ attempt["users"] = 0 =>
                /\ pause = Backoff /\ pc # "sleep"
                /\ due < stamp + Second + (IF pc = "exchange" THEN CallTimeout ELSE 0)
        /\ attempt["users"] = 1 =>
                due < stamp + Second + CallTimeout + Backoff
                        + (IF pc = "exchange" THEN CallTimeout ELSE 0)

\* The invariant of the three proofs below.
Timely == TypeOK /\ Attempts /\ Clock

LEMMA TimelyHolds ==
    /\ Init => Timely
    /\ Timely /\ [Next]_vars => Timely'
  BY InitType, InitAttempts, InitClock, NextType, NextAttempts, NextClock DEF Timely

LEMMA NextEarly == Timely /\ Early /\ [Next]_vars => Early'
  <1>. SUFFICES ASSUME Timely, Early, [Next]_vars PROVE Early'
    OBVIOUS
  <1>. USE TimesFact
  <1>0. TypeOK /\ Attempts /\ Clock
    BY DEF Timely
  <1>1. CASE Pass
    BY <1>1 DEF Pass, Early, callVars
  <1>2. CASE Notice
    BY <1>2 DEF Notice, Early, callVars
  <1>3. CASE Deliver
    BY <1>3, ForFact, <1>0 DEF Deliver, Early, At
  <1>4. CASE GiveUp
    BY <1>4 DEF GiveUp, Early, At
  <1>5. CASE Get
    BY <1>5, ForFact, <1>0 DEF Get, Early, At
  <1>6. CASE Lock
    <2>1. Timestamp(now) \in Nat /\ now < Timestamp(now) + Second
      BY TimestampFact, <1>0
    <2>2. attempt["users"] = 0
      BY <1>0, <1>6 DEF Lock, Attempts
    <2>. QED
      BY <1>0, <1>6, <2>1, <2>2 DEF Lock, Early, At, Call, End
  <1>7. CASE Attempt
    <2>1. due' \in Nat /\ due' <= now + CallTimeout
      BY <1>0, <1>7, DurationsAssumption DEF Attempt
    <2>2. pc = "loop" /\ pc' = "exchange" /\ UNCHANGED <<stamp, callVars>>
      BY <1>7 DEF Attempt
    <2>3. now <= due
      BY <1>0, <2>2 DEF Clock
    <2>. QED
      BY <1>0, <2>1, <2>2, <2>3 DEF Early, callVars
  <1>8. CASE WakeUp
    BY <1>0, <1>8 DEF WakeUp, Through, Early, At, callVars
  <1>9. CASE UsersAnswer
    <2>1. PICK p \in UsersReply : UsersOutcome(p)
      BY <1>9, UsersFact
    <2>2. pc = "exchange" /\ callee = "users" /\ now = due /\ UNCHANGED <<now, stamp>>
      BY <1>9, <2>1, UsersFact DEF UsersOutcome, Through
    <2>3. attempt'["users"] = attempt["users"] + 1 /\ attempt["users"] \in Nat
      BY <1>0, <2>1, <2>2, CountFact DEF UsersOutcome, TypeOK
    <2>4. CASE Call("provider")
      BY <2>4 DEF Early, Call
    <2>5. CASE Again /\ UNCHANGED callee
      BY <1>0, <2>2, <2>3, <2>5 DEF Early, Again
    <2>6. CASE For("unlock", Grace)
      BY <1>0, <2>6, ForFact DEF Early
    <2>. QED
      BY <2>1, <2>4, <2>5, <2>6 DEF UsersOutcome
  <1>10. CASE ProviderAnswer
    BY <1>10 DEF ProviderAnswer, Early
  <1>11. CASE Interrupted
    BY <1>0, <1>11, ForFact DEF Interrupted, Early
  <1>12. CASE Save
    BY <1>0, <1>12, ForFact DEF Save, Early
  <1>13. CASE CacheResponse
    BY <1>0, <1>13, ForFact DEF CacheResponse, Early
  <1>14. CASE Unlock
    BY <1>14 DEF Unlock, Early, End
  <1>15. CASE UNCHANGED vars
    BY <1>15 DEF Early, vars, callVars
  <1>. QED
    BY <1>1, <1>2, <1>3, <1>4, <1>5, <1>6, <1>7, <1>8, <1>9, <1>10, <1>11, <1>12,
       <1>13, <1>14, <1>15 DEF Next

LEMMA NextExpiry ==
    Timely /\ Early /\ ExpiryComesLast /\ [Next]_vars => ExpiryComesLast'
  <1>. SUFFICES ASSUME Timely, Early, ExpiryComesLast, [Next]_vars PROVE ExpiryComesLast'
    OBVIOUS
  <1>. USE TimesFact
  <1>0. TypeOK /\ Attempts /\ Clock
    BY DEF Timely
  \* Whoever refuses now does so when the caller has less than a second left.
  <1>1. ~Fresh(now) /\ Patience <= Tolerance => gone < now + Second
    BY <1>0 DEF Fresh, Clock
  <1>2. CASE Deliver
    <2>1. UNCHANGED <<attempt, gone>>
      BY <1>2 DEF Deliver, callVars
    <2>2. expired' = expired \/ (~Fresh(now) /\ Expire("transactions"))
      BY <1>2 DEF Deliver
    <2>. QED
      BY <1>0, <1>1, <2>1, <2>2 DEF ExpiryComesLast, Expire
  <1>3. CASE UsersAnswer
    <2>1. PICK p \in UsersReply : UsersOutcome(p)
      BY <1>3, UsersFact
    <2>2. pc = "exchange" /\ callee = "users" /\ now = due /\ UNCHANGED gone
      BY <1>3, <2>1, UsersFact DEF UsersOutcome, Through
    <2>3. attempt'["users"] = attempt["users"] + 1 /\ attempt["users"] \in Nat
      BY <1>0, <2>1, <2>2, CountFact DEF UsersOutcome, TypeOK
    <2>4. CASE p = "refused"
      <3>1. ~Fresh(now) /\ Expire("users")
        BY <2>1, <2>4 DEF UsersOutcome
      <3>2. 2 * CallTimeout + Backoff + Second <= Tolerance => attempt["users"] > 1
        <4>1. ASSUME 2 * CallTimeout + Backoff + Second <= Tolerance
              PROVE  attempt["users"] # 0 /\ attempt["users"] # 1
          BY <4>1, <1>0, <2>2, <3>1 DEF Early, Fresh
        <4>. QED
          BY <2>3, <4>1
      <3>. QED
        BY <1>1, <2>2, <2>3, <3>1, <3>2 DEF ExpiryComesLast, Expire
    <2>5. CASE p # "refused"
      BY <2>1, <2>2, <2>3, <2>5 DEF UsersOutcome, ExpiryComesLast
    <2>. QED
      BY <2>4, <2>5
  <1>4. CASE ProviderAnswer
    <2>1. PICK p \in Reply : ProviderOutcome(p)
      BY <1>4, ProviderFact
    <2>. QED
      BY <1>0, <1>4, <2>1, ProviderFact, CountFact DEF ProviderOutcome, ExpiryComesLast
  <1>5. CASE Pass \/ Notice \/ GiveUp \/ Get \/ Lock \/ Attempt \/ WakeUp \/ Interrupted
              \/ Save \/ CacheResponse \/ Unlock \/ UNCHANGED vars
    <2>1. UNCHANGED <<expired, attempt, gone>>
      BY <1>5 DEF Pass, Notice, GiveUp, Get, Lock, Attempt, WakeUp, Interrupted,
                  Save, CacheResponse, Unlock, vars, callVars
    <2>. QED
      BY <2>1 DEF ExpiryComesLast
  <1>. QED
    BY <1>2, <1>3, <1>4, <1>5 DEF Next

(***************************************************************************)
(* Sigil's window, the truncated timestamp and signatures that are reused  *)
(* by retries: a refusal for age comes in the last second of the caller's  *)
(* patience and never in the first two attempts.                           *)
(***************************************************************************)
THEOREM SignaturesLast == Spec => []ExpiryComesLast
  <1>1. Init => Timely /\ Early /\ ExpiryComesLast
    BY TimelyHolds DEF Init, Early, ExpiryComesLast
  <1>2. Timely /\ Early /\ ExpiryComesLast /\ [Next]_vars
            => (Timely /\ Early /\ ExpiryComesLast)'
    BY TimelyHolds, NextEarly, NextExpiry
  <1>. QED
    BY <1>1, <1>2, PTL DEF Spec

-----------------------------------------------------------------------------
(***************************************************************************)
(* Attempts that hang use up the caller's patience.                        *)
(***************************************************************************)
HungFits ==
    /\ pc \in Calling /\ callee = "provider" =>
            sent + hung["provider"] * CallTimeout <= started
    /\ pc = "save" => sent + hung["provider"] * CallTimeout <= started
    /\ row # None => pc \in {"cache", "unlock", "done"}

LEMMA NoHang == TypeOK /\ Attempts /\ callee = "users" => hung["provider"] * CallTimeout = 0
  <1>. SUFFICES ASSUME TypeOK, Attempts, callee = "users"
                PROVE  hung["provider"] * CallTimeout = 0
    OBVIOUS
  <1>1. hung["provider"] = 0
    BY DEF TypeOK, Attempts
  <1>. QED
    BY <1>1, TimesFact

LEMMA OneMoreHang == \A h, t \in Nat : (h + 1) * t = h * t + t
  OBVIOUS

LEMMA NextHung ==
    Timely /\ HungFits /\ PendingFitsPatience /\ [Next]_vars
        => HungFits' /\ PendingFitsPatience'
  <1>. SUFFICES ASSUME Timely, HungFits, PendingFitsPatience, [Next]_vars
                PROVE  HungFits' /\ PendingFitsPatience'
    OBVIOUS
  <1>0. TypeOK /\ Attempts /\ Clock
    BY DEF Timely
  <1>. None # "PENDING"
    BY NoneAssumption DEF Status
  <1>. DEFINE spent == hung["provider"] * CallTimeout
  <1>1. spent \in Nat /\ hung["provider"] \in Nat
    BY <1>0, TimesFact DEF TypeOK
  <1>2. CASE Attempt \/ WakeUp
    <2>1. UNCHANGED <<sent, hung, callee, row>> /\ started' = now /\ pc \in Calling /\ pc' \in Calling
      BY <1>2 DEF Attempt, WakeUp, callVars, At
    <2>. QED
      BY <1>0, <1>1, <2>1, TimesFact DEF HungFits, PendingFitsPatience, Clock
  <1>3. CASE UsersAnswer
    <2>1. PICK p \in UsersReply : UsersOutcome(p)
      BY <1>3, UsersFact
    <2>2. pc = "exchange" /\ callee = "users" /\ UNCHANGED <<now, sent, row>>
      BY <1>3, <2>1, UsersFact DEF UsersOutcome
    <2>3. hung'["provider"] = hung["provider"] /\ spent = 0
      BY <1>0, <2>1, <2>2, CountFact, NoHang DEF UsersOutcome
    <2>4. row = None /\ sent <= now
      BY <1>0, <2>2, TimesFact DEF HungFits, Clock
    <2>5. CASE Call("provider")
      BY <1>0, <2>2, <2>3, <2>4, <2>5, TimesFact DEF HungFits, PendingFitsPatience, Call, At
    <2>6. CASE Again /\ UNCHANGED callee
      BY <2>2, <2>4, <2>6 DEF HungFits, PendingFitsPatience, Again
    <2>7. CASE For("unlock", Grace)
      BY <1>0, <2>2, <2>4, <2>7, ForFact, TimesFact DEF HungFits, PendingFitsPatience
    <2>. QED
      BY <2>1, <2>5, <2>6, <2>7 DEF UsersOutcome
  <1>4. CASE ProviderAnswer
    <2>1. PICK p \in Reply : ProviderOutcome(p)
      BY <1>4, ProviderFact
    <2>2. /\ pc = "exchange" /\ callee = "provider" /\ now = due
          /\ UNCHANGED <<now, sent, callee, row>>
      BY <1>4, <2>1, ProviderFact DEF ProviderOutcome, Through
    <2>3. row = None /\ sent + spent <= started /\ started <= now
      BY <1>0, <2>2 DEF HungFits, Clock
    <2>4. sent' + hung'["provider"] * CallTimeout <= now
      <3>1. CASE p = "timeout"
        <4>1. hung'["provider"] = hung["provider"] + 1
          BY <1>0, <2>1, <2>2, <3>1, CountFact DEF ProviderOutcome
        <4>2. now = started + CallTimeout
          BY <1>0, <2>1, <2>2, <3>1, TimesFact DEF ProviderOutcome, MayBe, Lasted
        <4>3. hung'["provider"] * CallTimeout = spent + CallTimeout
          BY <1>0, <1>1, <4>1, OneMoreHang, TimesFact
        <4>. HIDE DEF spent
        <4>. QED
          BY <1>0, <1>1, <2>2, <2>3, <4>2, <4>3, TimesFact
      <3>2. CASE p # "timeout"
        <4>1. hung'["provider"] = hung["provider"]
          BY <1>0, <1>1, <2>1, <2>2, <3>2, CountFact DEF ProviderOutcome
        <4>. QED
          BY <1>0, <1>1, <2>2, <2>3, <4>1, TimesFact
      <3>. QED
        BY <3>1, <3>2
    <2>5. started' = now /\ pc' \in {"sleep", "save"}
      BY <1>0, <2>1, ForFact, TimesFact DEF ProviderOutcome, Again
    <2>. QED
      BY <2>2, <2>3, <2>4, <2>5 DEF HungFits, PendingFitsPatience
  <1>5. CASE Interrupted
    <2>1. UNCHANGED <<now, sent, hung, callee, row>> /\ pc \in Calling
      BY <1>5 DEF Interrupted, callVars
    <2>2. row = None /\ sent <= started /\ started <= now
      BY <1>0, <2>1 DEF HungFits, Clock
    <2>3. CASE callee = "users"
      <3>1. pc' = "unlock"
        BY <1>0, <1>5, <2>3, ForFact, TimesFact DEF Interrupted
      <3>. QED
        BY <2>1, <2>2, <3>1 DEF HungFits, PendingFitsPatience
    <2>4. CASE callee # "users"
      <3>1. callee = "provider" /\ pc' = "save" /\ started' = now
        BY <1>0, <1>5, <2>4, ForFact, TimesFact DEF Interrupted, TypeOK
      <3>2. sent + spent <= now
        BY <1>0, <1>1, <2>1, <2>2, <3>1, TimesFact DEF HungFits
      <3>. QED
        BY <2>1, <2>2, <3>1, <3>2 DEF HungFits, PendingFitsPatience
    <2>. QED
      BY <2>3, <2>4
  <1>6. CASE Save
    <2>1. UNCHANGED <<sent, hung>> /\ pc = "save" /\ pc' \in {"cache", "unlock"}
      BY <1>0, <1>6, ForFact, TimesFact DEF Save, callVars
    <2>2. row' = row \/ ~ContextDone
      BY <1>6 DEF Save, Through
    <2>3. row = None /\ sent + spent <= started
      BY <2>1 DEF HungFits
    <2>4. ~ContextDone => spent < Patience
      <3>1. ~ContextDone => started < gone
        BY <1>0, <2>1, TimesFact DEF ContextDone
      <3>2. gone <= sent + Patience
        BY <1>0 DEF Clock
      <3>. QED
        BY <1>0, <1>1, <2>3, <3>1, <3>2, TimesFact
    <2>. QED
      BY <2>1, <2>2, <2>3, <2>4 DEF HungFits, PendingFitsPatience
  <1>7. CASE Pass \/ Notice \/ UNCHANGED vars
    <2>1. UNCHANGED <<pc, callee, sent, hung, started, row>>
      BY <1>7 DEF Pass, Notice, vars, callVars
    <2>. QED
      BY <2>1 DEF HungFits, PendingFitsPatience
  <1>8. CASE Deliver \/ GiveUp \/ Get
    <2>1. UNCHANGED <<callee, sent, hung, row>> /\ pc' \in {"get", "lock", "refused", "lost", "done"}
      BY <1>0, <1>8, ForFact, TimesFact DEF Deliver, GiveUp, Get, callVars, At
    <2>2. row = None
      BY <1>8 DEF Deliver, GiveUp, Get, HungFits
    <2>. QED
      BY <2>1, <2>2 DEF HungFits, PendingFitsPatience
  <1>9. CASE Lock
    <2>1. row' = row /\ pc = "lock"
      BY <1>9 DEF Lock
    <2>2. row = None
      BY <2>1 DEF HungFits
    <2>3. pc' = "done" \/ (pc' = "loop" /\ callee' = "users")
      BY <1>9 DEF Lock, Call, At, End
    <2>. QED
      BY <2>1, <2>2, <2>3 DEF HungFits, PendingFitsPatience
  <1>10. CASE CacheResponse \/ Unlock
    <2>1. UNCHANGED <<row, hung>> /\ pc' \in {"unlock", "done"}
      BY <1>0, <1>10, ForFact, TimesFact DEF CacheResponse, Unlock, End, callVars
    <2>. QED
      BY <2>1 DEF HungFits, PendingFitsPatience
  <1>. QED
    BY <1>2, <1>3, <1>4, <1>5, <1>6, <1>7, <1>8, <1>9, <1>10 DEF Next

(***************************************************************************)
(* PENDING is given only to purchases whose hung attempts fit into the     *)
(* caller's patience: for all timeouts and numbers of retries.             *)
(***************************************************************************)
THEOREM HangsAreSeldomPending == Spec => []PendingFitsPatience
  <1>1. Init => Timely /\ HungFits /\ PendingFitsPatience
    <2>. SUFFICES ASSUME Init PROVE HungFits /\ PendingFitsPatience
      BY TimelyHolds
    <2>1. pc = "sent" /\ row = None
      BY DEF Init
    <2>. QED
      BY <2>1, NoneAssumption DEF HungFits, PendingFitsPatience, Status
  <1>2. Timely /\ HungFits /\ PendingFitsPatience /\ [Next]_vars
            => (Timely /\ HungFits /\ PendingFitsPatience)'
    BY TimelyHolds, NextHung
  <1>. QED
    BY <1>1, <1>2, PTL DEF Spec

-----------------------------------------------------------------------------
(***************************************************************************)
(* The refinement of Purchase.  What relates the clocked chain to it:      *)
(* before the row is saved nothing has been answered or left behind, no    *)
(* call that is still going on has been approved, and a handler that has   *)
(* found its context done finds it so from then on.                        *)
(***************************************************************************)
Arriving == {"sent", "lost", "refused", "get", "lock"}

Related ==
    /\ pc \in Arriving \cup Calling \cup {"save"} => left = {} /\ answer \in {None, 401}
    /\ pc \in Arriving \cup Calling => reply # "approved"
    /\ pc \in {"sent", "get", "lock"} => lockedAt = None
    /\ pc = "sent" => ~noticed
    /\ noticed /\ pc \in Stores \cup Calling => ContextDone

LEMMA InitRelated == Init => Related
  BY NoneAssumption DEF Init, Related, Arriving, Reply

\* Only a handler that has not noticed the end of its context goes on as planned.
LEMMA ThroughFact ==
    ASSUME Related, pc \in Stores \cup Calling, Through
    PROVE  ~noticed
  BY DEF Related, Through

LEMMA NextRelated == Timely /\ Related /\ [Next]_vars => Related'
  <1>. SUFFICES ASSUME Timely, Related, [Next]_vars PROVE Related'
    OBVIOUS
  <1>. USE TimesFact
  <1>0. TypeOK /\ Attempts /\ Clock
    BY DEF Timely
  <1>1. CASE Pass
    <2>1. ~ContextDone /\ UNCHANGED <<pc, left, answer, reply, lockedAt, noticed>>
      BY <1>1 DEF Pass
    <2>. QED
      BY <2>1 DEF Related
  <1>2. CASE Notice
    <2>1. ContextDone /\ UNCHANGED <<now, pc, started, gone, left, answer, reply, lockedAt>>
      BY <1>2 DEF Notice
    <2>2. ContextDone' = ContextDone /\ pc # "sent"
      BY <2>1 DEF ContextDone
    <2>. QED
      BY <2>1, <2>2 DEF Related
  <1>3. CASE Deliver
    <2>1. ~noticed /\ UNCHANGED <<left, reply, lockedAt, noticed>> /\ pc = "sent"
      BY <1>3 DEF Deliver, Related
    <2>2. \/ pc' = "get" /\ UNCHANGED answer
          \/ pc' = "refused" /\ answer' = 401
      BY <1>0, <1>3, ForFact DEF Deliver, At, Answer
    <2>. QED
      BY <2>1, <2>2 DEF Related, Arriving
  <1>4. CASE GiveUp
    BY <1>4 DEF GiveUp, Related, Arriving, At
  <1>5. CASE Get
    <2>1. UNCHANGED <<left, reply, lockedAt, noticed>> /\ pc = "get"
      BY <1>5 DEF Get
    <2>2. \/ Through /\ pc' = "lock" /\ UNCHANGED answer
          \/ pc' = "done"
      BY <1>0, <1>5, ForFact DEF Get, At
    <2>. QED
      BY <2>1, <2>2, ThroughFact DEF Related, Arriving
  <1>6. CASE Lock
    <2>1. UNCHANGED <<left, reply, noticed>> /\ pc = "lock"
      BY <1>6 DEF Lock
    <2>2. \/ Through /\ pc' = "loop" /\ UNCHANGED answer
          \/ pc' = "done"
      BY <1>6 DEF Lock, Call, At, End
    <2>. QED
      BY <2>1, <2>2, ThroughFact DEF Related, Arriving
  <1>7. CASE Attempt
    <2>1. /\ ~ContextDone /\ pc = "loop" /\ pc' = "exchange"
          /\ UNCHANGED <<left, answer, reply, lockedAt, noticed>>
      BY <1>7 DEF Attempt
    <2>. QED
      BY <2>1 DEF Related, Arriving
  <1>8. CASE WakeUp
    <2>1. /\ Through /\ pc = "sleep" /\ pc' = "loop"
          /\ UNCHANGED <<left, answer, reply, lockedAt, noticed>>
      BY <1>8 DEF WakeUp, At
    <2>. QED
      BY <2>1, ThroughFact DEF Related, Arriving
  <1>9. CASE UsersAnswer
    <2>1. PICK p \in UsersReply : UsersOutcome(p)
      BY <1>9, UsersFact
    <2>2. pc = "exchange" /\ ~noticed /\ UNCHANGED <<left, reply, noticed>>
      BY <1>9, <2>1, UsersFact, ThroughFact DEF UsersOutcome
    <2>3. \/ pc' \in {"loop", "sleep"} /\ UNCHANGED answer
          \/ pc' = "unlock"
      BY <1>0, <2>1, ForFact DEF UsersOutcome, Call, At, Again
    <2>. QED
      BY <2>2, <2>3 DEF Related, Arriving
  <1>10. CASE ProviderAnswer
    <2>1. /\ pc = "exchange" /\ ~noticed /\ UNCHANGED <<left, answer, noticed>>
          /\ \/ pc' = "sleep" /\ Retryable(reply')
             \/ pc' = "save"
      <3>1. PICK p \in Replies :
               /\ reply' = p
               /\ IF Retryable(p) /\ MayRetry THEN Again
                                              ELSE For("save", Grace) /\ UNCHANGED pause
        BY <1>10 DEF ProviderAnswer
      <3>2. (pc' = "sleep" /\ Retryable(reply')) \/ pc' = "save"
        BY <1>0, <3>1, ForFact DEF Again
      <3>. QED
        BY <1>10, <3>2, ThroughFact DEF ProviderAnswer
    <2>. QED
      BY <2>1 DEF Related, Arriving, Retryable
  <1>11. CASE Interrupted
    <2>1. pc \in Calling /\ noticed /\ UNCHANGED <<now, gone, left, noticed>>
      BY <1>11 DEF Interrupted
    <2>2. \/ pc' = "unlock"
          \/ pc' = "save" /\ started' = now /\ UNCHANGED answer
      BY <1>0, <1>11, ForFact DEF Interrupted
    <2>3. gone <= now
      BY <2>1 DEF Related, ContextDone
    <2>. QED
      BY <2>1, <2>2, <2>3 DEF Related, Arriving, ContextDone
  <1>12. CASE Save
    <2>1. \/ Through /\ pc' = "cache"
          \/ pc' = "unlock"
      BY <1>0, <1>12, ForFact DEF Save
    <2>2. pc = "save" /\ UNCHANGED noticed
      BY <1>12 DEF Save
    <2>. QED
      BY <2>1, <2>2, ThroughFact DEF Related, Arriving
  <1>13. CASE CacheResponse \/ Unlock
    <2>1. pc' \in {"unlock", "done"}
      BY <1>0, <1>13, ForFact DEF CacheResponse, Unlock, End
    <2>. QED
      BY <2>1 DEF Related, Arriving
  <1>14. CASE UNCHANGED vars
    BY <1>14 DEF vars, Related, ContextDone
  <1>. QED
    BY <1>1, <1>2, <1>3, <1>4, <1>5, <1>6, <1>7, <1>8, <1>9, <1>10, <1>11, <1>12,
       <1>13, <1>14 DEF Next

(***************************************************************************)
(* What Purchase sees of the lock and of the answer stays what it is while *)
(* the clock and Redis, or the answer and the reply, do.                   *)
(***************************************************************************)
LEMMA LeakedFact ==
    /\ Leaked <=> Locked /\ PurchasePc = "done"
    /\ Leaked' <=> Locked' /\ PurchasePc' = "done"
  BY DEF Leaked, PurchasePc, Calling

LEMMA SameLock ==
    UNCHANGED <<now, lockedAt>> =>
        /\ Locked' = Locked
        /\ (PurchasePc = "done" <=> PurchasePc' = "done") => Leaked' = Leaked
  BY LeakedFact DEF Locked, Leaked

LEMMA SameAnswer == UNCHANGED <<answer, reply>> => PurchaseAnswer' = PurchaseAnswer
  BY DEF PurchaseAnswer

LEMMA Goes ==
    ASSUME NEW l, PurchasePc' = l
    PROVE  Untimed!GoTo(Me, l)
  BY DEF Untimed!GoTo, Of

LEMMA Failing ==
    ASSUME NEW code \in {400, 409, 500, 503}, Answer(code)
    PROVE  Untimed!Respond(Me, Untimed!Failure(code))
  <1>1. PurchaseAnswer' = Untimed!Failure(code)
    BY NoneAssumption DEF Answer, PurchaseAnswer, Untimed!Failure
  <1>. QED
    BY <1>1 DEF Untimed!Respond, Of

LEMMA Unanswered ==
    ASSUME answer \in {None, 401}, UNCHANGED answer
    PROVE  PurchaseAnswer = None /\ PurchaseAnswer' = None
  BY NoneAssumption DEF PurchaseAnswer

LEMMA SameWords ==
    ASSUME NEW p
    PROVE  /\ Untimed!RowStatus(p) = RowStatus(p)
           /\ Untimed!PostSucceeds(p) <=> PostSucceeds(p)
           /\ Untimed!Retryable(p) <=> Retryable(p)
  BY DEF Untimed!RowStatus, Untimed!MapProviderStatus, Untimed!PostSucceeds,
         Untimed!Retryable, RowStatus, MapProviderStatus, PostSucceeds, Retryable

LEMMA Succeeding ==
    ASSUME Answer(201), UNCHANGED reply
    PROVE  Untimed!Respond(Me, Untimed!Response(Me))
  <1>1. PurchaseAnswer' = Untimed!Response(Me)
    BY NoneAssumption, SameWords
       DEF Answer, PurchaseAnswer, Untimed!Response, Untimed!Created, Of
  <1>. QED
    BY <1>1 DEF Untimed!Respond, Of

(***************************************************************************)
(* The simulation, one lemma for each action.  Steps before the request is *)
(* delivered, and between the attempts of one call, are stutters.          *)
(***************************************************************************)
LEMMA PassSimulated ==
    ASSUME TypeOK, Clock', TypeOK', LockCoversRequest', Pass, Patience + 2 * Grace < LockTTL
    PROVE  Untimed!LockExpires(Me) \/ UNCHANGED Untimed!vars
  <1>1. UNCHANGED <<pc, callee, noticed, attempt, reply, row, left, answer, lockedAt>>
    BY DEF Pass, callVars
  <1>2. PurchasePc' = PurchasePc /\ PurchaseAnswer' = PurchaseAnswer
    BY <1>1, SameAnswer DEF PurchasePc
  <1>3. CASE Locked' = Locked
    <2>1. Leaked' = Leaked
      BY <1>2, <1>3, LeakedFact DEF Leaked
    <2>. QED
      BY <1>1, <1>2, <1>3, <2>1 DEF Untimed!vars
  <1>4. CASE Locked' # Locked
    <2>1. Locked /\ ~Locked'
      <3>1. now < now' /\ now \in Nat /\ now' \in Nat
        BY DEF Pass, Upcoming, TypeOK
      <3>. QED
        BY <1>1, <1>4, <3>1, TimesFact DEF Locked
    <2>2. pc \notin Critical
      BY <1>1, <2>1 DEF LockCoversRequest
    <2>3. PurchasePc \notin Untimed!Critical
      BY <2>2 DEF PurchasePc, Untimed!Critical, TypeOK
    <2>. QED
      BY <1>1, <1>2, <2>1, <2>3, LeakedFact
         DEF Untimed!LockExpires, Untimed!providerVars, Untimed!IdemKey, Of
  <1>. QED
    BY <1>3, <1>4

LEMMA NoticeSimulated ==
    ASSUME TypeOK, Notice
    PROVE  Untimed!Cancel(Me)
  <1>1. PurchasePc \in Untimed!InFlight /\ PurchasePc' = PurchasePc
    BY DEF Notice, PurchasePc, ContextDone, Untimed!InFlight, Untimed!Critical, TypeOK, callVars
  <1>2. /\ ~noticed /\ noticed'
        /\ UNCHANGED <<reply, answer, left, row, attempt, now, lockedAt>>
    BY DEF Notice, callVars
  <1>. QED
    BY <1>1, <1>2, SameLock, SameAnswer
       DEF Untimed!Cancel, Untimed!providerVars, Untimed!redisVars, Of

LEMMA DeliverSimulated ==
    ASSUME TypeOK, Related, Deliver
    PROVE  Untimed!Create(Me) \/ UNCHANGED Untimed!vars
  <1>1. /\ pc = "sent" /\ PurchasePc = "idle" /\ answer \in {None, 401}
        /\ UNCHANGED <<now, noticed, lockedAt, attempt, reply, row, left>>
    BY DEF Deliver, PurchasePc, callVars, Related, Arriving
  <1>2. CASE For("get", Grace) /\ UNCHANGED answer
    <2>1. PurchasePc' = "get" /\ PurchaseAnswer' = PurchaseAnswer
      BY <1>1, <1>2, SameAnswer DEF For, PurchasePc
    <2>2. Deposit # None
      BY NoneAssumption
    <2>. QED
      BY <1>1, <2>1, <2>2, SameLock
         DEF Untimed!Create, Untimed!GoTo, Untimed!AnsweredExecuted,
             Untimed!providerVars, Untimed!redisVars, Of
  <1>3. CASE Answer(401) /\ At("refused")
    <2>1. PurchasePc' = "idle"
      BY <1>3 DEF At, PurchasePc
    <2>2. PurchaseAnswer' = None /\ PurchaseAnswer = None
      BY <1>1, <1>3, NoneAssumption DEF Answer, PurchaseAnswer
    <2>. QED
      BY <1>1, <2>1, <2>2, SameLock DEF Untimed!vars
  <1>. QED
    BY <1>2, <1>3 DEF Deliver

LEMMA GiveUpSimulated ==
    ASSUME GiveUp
    PROVE  UNCHANGED Untimed!vars
  <1>1. PurchasePc = "idle" /\ PurchasePc' = "idle"
    BY DEF GiveUp, PurchasePc, At
  <1>2. UNCHANGED <<reply, answer, left, row, noticed, attempt, now, lockedAt>>
    BY DEF GiveUp, callVars
  <1>. QED
    BY <1>1, <1>2, SameLock, SameAnswer DEF Untimed!vars

LEMMA GetSimulated ==
    ASSUME TypeOK, Related, Get
    PROVE  Untimed!GetIdempotency(Me)
  <1>1. /\ pc = "get" /\ PurchasePc = "get" /\ left = {}
        /\ UNCHANGED <<now, noticed, lockedAt, attempt, reply, row, left>>
    BY DEF Get, PurchasePc, callVars, Related, Arriving
  <1>2. CASE Through /\ For("lock", Grace) /\ UNCHANGED answer
    <2>1. PurchasePc' = "lock" /\ PurchaseAnswer' = PurchaseAnswer
      BY <1>1, <1>2, SameAnswer DEF For, PurchasePc
    <2>2. ~noticed
      BY <1>1, <1>2, ThroughFact
    <2>3. Untimed!Miss(Me)
      BY <1>1, <2>2 DEF Untimed!Miss, Untimed!IdemKey, Of
    <2>. QED
      BY <1>1, <2>1, <2>3, SameLock
         DEF Untimed!GetIdempotency, Untimed!GoTo, Untimed!providerVars,
             Untimed!redisVars, Of
  <1>3. CASE Answer(500) /\ At("done")
    <2>1. PurchasePc' = "done"
      BY <1>3 DEF At, PurchasePc
    <2>2. Untimed!GoTo(Me, "done") /\ Untimed!Respond(Me, Untimed!Failure(500))
      BY <1>3, <2>1, Goes, Failing
    <2>3. ~Locked /\ ~Leaked /\ ~Locked' /\ ~Leaked'
      BY <1>1, LeakedFact DEF Locked, Related
    <2>. QED
      BY <1>1, <2>2, <2>3
         DEF Untimed!GetIdempotency, Untimed!providerVars, Untimed!redisVars, Of
  <1>. QED
    BY <1>2, <1>3 DEF Get

LEMMA LockSimulated ==
    ASSUME TypeOK, Clock, Related, Lock, Patience + 2 * Grace < LockTTL
    PROVE  Untimed!Lock(Me)
  <1>1. /\ pc = "lock" /\ PurchasePc = "lock" /\ lockedAt = None
        /\ UNCHANGED <<now, noticed, attempt, reply, row, left>>
    BY DEF Lock, PurchasePc, Related
  <1>2. ~Locked /\ ~Leaked
    BY <1>1, LeakedFact DEF Locked
  <1>3. CASE /\ Through /\ lockedAt' = started
             /\ \/ Call("users") /\ UNCHANGED answer
                \/ \E code \in {409, 500} : Answer(code) /\ End
    <2>1. ~noticed
      BY <1>1, <1>3, ThroughFact
    <2>2. Locked'
      <3>1. now <= started + Grace
        BY <1>1, TimesFact DEF Clock
      <3>2. started # None
        BY NoneAssumption, TimesFact
      <3>. QED
        BY <1>1, <1>3, <3>1, <3>2, TimesFact DEF Locked
    <2>3. CASE Call("users") /\ UNCHANGED answer
      <3>1. PurchasePc' = "validate" /\ PurchaseAnswer' = PurchaseAnswer
        BY <1>1, <2>3, SameAnswer DEF Call, At, PurchasePc
      <3>. QED
        BY <1>1, <1>2, <2>1, <2>2, <3>1, LeakedFact
           DEF Untimed!Lock, Untimed!LockFree, Untimed!IdemKey, Untimed!GoTo,
               Untimed!providerVars, Of
    <2>4. ASSUME NEW code \in {409, 500}, Answer(code), End
          PROVE  Untimed!Lock(Me)
      <3>1. PurchasePc' = "done"
        BY <2>4 DEF End, PurchasePc
      <3>2. Untimed!GoTo(Me, "done") /\ Untimed!Respond(Me, Untimed!Failure(code))
        BY <2>4, <3>1, Goes, Failing
      <3>. QED
        BY <1>1, <1>2, <2>1, <2>2, <3>1, <3>2, LeakedFact
           DEF Untimed!Lock, Untimed!LockFree, Untimed!IdemKey, Untimed!providerVars, Of
    <2>. QED
      BY <1>3, <2>3, <2>4
  <1>4. CASE Answer(500) /\ At("done") /\ UNCHANGED lockedAt
    <2>1. PurchasePc' = "done"
      BY <1>4 DEF At, PurchasePc
    <2>2. Untimed!GoTo(Me, "done") /\ Untimed!Respond(Me, Untimed!Failure(500))
      BY <1>4, <2>1, Goes, Failing
    <2>. QED
      BY <1>1, <1>2, <1>4, <2>2, SameLock, LeakedFact
         DEF Untimed!Lock, Untimed!providerVars, Of
  <1>. QED
    BY <1>3, <1>4 DEF Lock

LEMMA AttemptSimulated ==
    ASSUME TypeOK, Attempt \/ WakeUp
    PROVE  UNCHANGED Untimed!vars
  <1>1. /\ pc \in Calling /\ pc' \in Calling
        /\ UNCHANGED <<callee, reply, answer, left, row, noticed, attempt, now, lockedAt>>
    BY DEF Attempt, WakeUp, At, callVars
  <1>2. PurchasePc' = PurchasePc
    BY <1>1 DEF PurchasePc, TypeOK
  <1>3. Locked' = Locked /\ Leaked' = Leaked /\ PurchaseAnswer' = PurchaseAnswer
    BY <1>1, <1>2, SameLock, SameAnswer
  <1>. QED
    BY <1>1, <1>2, <1>3 DEF Untimed!vars

LEMMA UsersAnswerSimulated ==
    ASSUME TypeOK, Related, UsersAnswer
    PROVE  Untimed!ValidateUser(Me) \/ UNCHANGED Untimed!vars
  <1>1. PICK p \in UsersReply :
           /\ Count(p)
           /\ \/ p = "known" /\ Call("provider") /\ UNCHANGED answer
              \/ Again /\ UNCHANGED <<callee, answer>>
              \/ Answer(UsersRefusal(p)) /\ For("unlock", Grace) /\ UNCHANGED callee
    BY DEF UsersAnswer
  <1>2. /\ pc = "exchange" /\ callee = "users" /\ PurchasePc = "validate" /\ ~noticed
        /\ UNCHANGED <<now, noticed, lockedAt, reply, row, left>>
    BY ThroughFact DEF UsersAnswer, PurchasePc
  <1>3. attempt'["provider"] = attempt["provider"]
    BY <1>1, <1>2 DEF Count, TypeOK
  <1>4. CASE Call("provider") /\ UNCHANGED answer
    <2>1. PurchasePc' = "post" /\ PurchaseAnswer' = PurchaseAnswer
      BY <1>2, <1>4, SameAnswer DEF Call, At, PurchasePc
    <2>2. Untimed!GoTo(Me, "post")
      BY <2>1, Goes
    <2>3. Untimed!BusinessRules(Deposit)
      BY DEF Untimed!BusinessRules, Deposit
    <2>. QED
      BY <1>2, <1>3, <2>1, <2>2, <2>3, SameLock
         DEF Untimed!ValidateUser, Untimed!EarlyReturn, Untimed!providerVars,
             Untimed!redisVars, Of
  <1>5. CASE Again /\ UNCHANGED <<callee, answer>>
    <2>1. PurchasePc' = PurchasePc /\ PurchaseAnswer' = PurchaseAnswer
      BY <1>2, <1>5, SameAnswer DEF Again, PurchasePc
    <2>. QED
      BY <1>2, <1>3, <2>1, SameLock DEF Untimed!vars
  <1>6. CASE Answer(UsersRefusal(p)) /\ For("unlock", Grace)
    <2>1. PICK code \in {400, 500, 503} : Answer(code)
      BY <1>6 DEF UsersRefusal, Answer
    <2>2. PurchasePc' = "unlock"
      BY <1>6 DEF For, PurchasePc
    <2>3. Untimed!GoTo(Me, "unlock") /\ Untimed!Respond(Me, Untimed!Failure(code))
      BY <2>1, <2>2, Goes, Failing
    <2>. QED
      BY <1>2, <1>3, <2>2, <2>3, SameLock
         DEF Untimed!ValidateUser, Untimed!EarlyReturn, Untimed!providerVars,
             Untimed!redisVars, Of
  <1>. QED
    BY <1>1, <1>4, <1>5, <1>6

LEMMA ProviderAnswerSimulated ==
    ASSUME TypeOK, Related, ProviderAnswer
    PROVE  Untimed!Attempt(Me)
  <1>1. PICK p \in Replies :
           /\ Count(p) /\ reply' = p
           /\ IF Retryable(p) /\ MayRetry THEN Again
                                          ELSE For("save", Grace) /\ UNCHANGED pause
    BY DEF ProviderAnswer
  <1>2. /\ pc = "exchange" /\ callee = "provider" /\ PurchasePc = "post" /\ ~noticed
        /\ left = {} /\ answer \in {None, 401} /\ reply # "approved"
        /\ UNCHANGED <<now, noticed, lockedAt, callee, row, left, answer>>
    BY ThroughFact DEF ProviderAnswer, PurchasePc, Related
  <1>3. attempt'["provider"] = attempt["provider"] + 1
    BY <1>1, <1>2 DEF Count, TypeOK
  <1>4. PurchasePc' = IF Retryable(p) /\ MayRetry THEN "post" ELSE "save"
    BY <1>1, <1>2 DEF Again, For, PurchasePc
  <1>5. Untimed!GoTo(Me, IF Untimed!Retryable(p) /\ Untimed!MayRetry(Me)
                         THEN "post" ELSE "save")
    <2>1. Untimed!MayRetry(Me) <=> MayRetry
      BY <1>2 DEF Untimed!MayRetry, MayRetry, Of
    <2>. QED
      BY <1>4, <2>1, SameWords DEF Untimed!GoTo, Of
  <1>6. (IF p = "approved" THEN 1 ELSE 0) \in Untimed!Charged(p)
    BY DEF Untimed!Charged
  <1>7. PurchaseAnswer = None /\ PurchaseAnswer' = None
    BY <1>2, Unanswered
  <1>. QED
    BY <1>1, <1>2, <1>3, <1>4, <1>5, <1>6, <1>7, SameLock
       DEF Untimed!Attempt, Untimed!NextAttempt, Untimed!redisVars, Of

LEMMA InterruptedSimulated ==
    ASSUME TypeOK, Related, Interrupted
    PROVE  Untimed!ValidateUser(Me) \/ Untimed!AttemptCancelled(Me)
  <1>1. /\ pc \in Calling /\ noticed /\ left = {} /\ answer \in {None, 401}
        /\ reply # "approved"
        /\ UNCHANGED <<now, noticed, lockedAt, attempt, callee, row, left>>
    BY DEF Interrupted, Related, callVars
  <1>2. CASE callee = "users"
    <2>1. PICK code \in {500, 503} : Answer(code)
      BY <1>2 DEF Interrupted
    <2>2. PurchasePc = "validate" /\ PurchasePc' = "unlock" /\ UNCHANGED reply
      BY <1>1, <1>2 DEF Interrupted, For, PurchasePc
    <2>3. Untimed!GoTo(Me, "unlock") /\ Untimed!Respond(Me, Untimed!Failure(code))
      BY <2>1, <2>2, Goes, Failing
    <2>. QED
      BY <1>1, <2>2, <2>3, SameLock
         DEF Untimed!ValidateUser, Untimed!EarlyReturn, Untimed!providerVars,
             Untimed!redisVars, Of
  <1>3. CASE callee # "users"
    <2>1. PurchasePc = "post" /\ PurchasePc' = "save"
      BY <1>1, <1>3 DEF Interrupted, For, PurchasePc, TypeOK
    <2>2. Untimed!GoTo(Me, "save")
      BY <2>1, Goes
    <2>3. reply' = "neterr" /\ UNCHANGED answer
      BY <1>3 DEF Interrupted
    <2>4. PurchaseAnswer = None /\ PurchaseAnswer' = None
      BY <1>1, <2>3, Unanswered
    <2>. QED
      BY <1>1, <2>1, <2>2, <2>3, <2>4, SameLock
         DEF Untimed!AttemptCancelled, Untimed!redisVars, Of
  <1>. QED
    BY <1>2, <1>3

LEMMA SaveSimulated ==
    ASSUME TypeOK, Related, Save
    PROVE  Untimed!Save(Me) \/ Untimed!SaveFails(Me)
  <1>1. /\ pc = "save" /\ PurchasePc = "save" /\ left = {} /\ answer \in {None, 401}
        /\ UNCHANGED <<now, noticed, lockedAt, attempt, reply>>
    BY DEF Save, PurchasePc, Related, callVars
  <1>2. row' = RowStatus(reply) => Untimed!InsertRow(Me)
    BY SameWords DEF Untimed!InsertRow, Of
  <1>3. CASE /\ Through /\ row' = RowStatus(reply) /\ PostSucceeds(reply)
             /\ For("cache", Grace) /\ left' = {"tasks"} /\ UNCHANGED answer
    <2>1. PurchasePc' = "cache" /\ ~noticed
      BY <1>1, <1>3, ThroughFact DEF For, PurchasePc
    <2>2. Untimed!GoTo(Me, "cache")
      BY <2>1, Goes
    <2>3. PurchaseAnswer' = PurchaseAnswer
      BY <1>1, <1>3, SameAnswer
    <2>4. Untimed!Spawned(Me) = {<<"bump", Me>>}
                                  \cup (IF reply = "approved" THEN {<<"publish", Me>>} ELSE {})
      <3>1. Deposit.account # None
        BY NoneAssumption
      <3>2. Untimed!RowStatus(reply) = "EXECUTED" <=> reply = "approved"
        BY SameWords DEF RowStatus, MapProviderStatus, PostSucceeds
      <3>. QED
        BY <3>1, <3>2 DEF Untimed!Spawned, Of
    <2>. QED
      BY <1>1, <1>2, <1>3, <2>1, <2>2, <2>3, <2>4, SameLock, SameWords
         DEF Untimed!Save, Untimed!EarlyReturn, Untimed!providerVars, Untimed!redisVars, Of
  <1>4. CASE /\ Through /\ row' = RowStatus(reply) /\ ~PostSucceeds(reply)
             /\ Answer(IF RowStatus(reply) = "REJECTED" THEN 201 ELSE 503)
             /\ For("unlock", Grace) /\ UNCHANGED left
    <2>1. PurchasePc' = "unlock" /\ ~noticed
      BY <1>1, <1>4, ThroughFact DEF For, PurchasePc
    <2>2. Untimed!GoTo(Me, "unlock")
      BY <2>1, Goes
    <2>3. Untimed!Respond(Me, IF RowStatus(reply) = "REJECTED" THEN Untimed!Response(Me)
                                                               ELSE Untimed!Failure(503))
      BY <1>1, <1>4, Succeeding, Failing
    <2>. QED
      BY <1>1, <1>2, <1>4, <2>1, <2>2, <2>3, SameLock, SameWords
         DEF Untimed!Save, Untimed!EarlyReturn, Untimed!providerVars, Untimed!redisVars, Of
  <1>5. CASE /\ Through \/ noticed
             /\ UNCHANGED row \/ (Through /\ row' = RowStatus(reply))
             /\ Answer(500) /\ For("unlock", Grace) /\ UNCHANGED left
    <2>1. PurchasePc' = "unlock" /\ (Through => ~noticed)
      BY <1>1, <1>5, ThroughFact DEF For, PurchasePc
    <2>2. Untimed!GoTo(Me, "unlock") /\ Untimed!Respond(Me, Untimed!Failure(500))
      BY <1>5, <2>1, Goes, Failing
    <2>3. UNCHANGED Of(row) \/ (~noticed /\ Untimed!InsertRow(Me))
      BY <1>2, <1>5, <2>1 DEF Of
    <2>. QED
      BY <1>1, <1>5, <2>1, <2>2, <2>3, SameLock
         DEF Untimed!SaveFails, Untimed!SaveError, Untimed!EarlyReturn, Untimed!providerVars, Untimed!redisVars, Of
  <1>. QED
    BY <1>3, <1>4, <1>5 DEF Save

LEMMA CacheSimulated ==
    ASSUME TypeOK, Related, CacheResponse
    PROVE  Untimed!CacheResponse(Me)
  <1>1. /\ pc = "cache" /\ PurchasePc = "cache" /\ PurchasePc' = "unlock"
        /\ "tasks" \in left' <=> "tasks" \in left
        /\ UNCHANGED <<now, noticed, lockedAt, attempt, reply, row>>
    BY DEF CacheResponse, For, PurchasePc, callVars
  <1>2. Untimed!GoTo(Me, "unlock")
    BY <1>1, Goes
  <1>3. Through => ~noticed
    BY <1>1, ThroughFact
  <1>4. "answer" \in left' => Untimed!StoreAnswer(Me)
    BY <1>1, SameWords
       DEF Untimed!StoreAnswer, Untimed!IdemKey, Untimed!Response, Untimed!Created, Of
  <1>5. CASE Through /\ left' = left \cup {"answer"} /\ Answer(201)
    <2>1. Untimed!Respond(Me, Untimed!Response(Me))
      BY <1>1, <1>5, Succeeding
    <2>. QED
      BY <1>1, <1>2, <1>3, <1>4, <1>5, <2>1, SameLock
         DEF Untimed!CacheResponse, Untimed!providerVars, Of
  <1>6. CASE /\ left' = left \/ (Through /\ left' = left \cup {"answer"})
             /\ Answer(500)
    <2>1. Untimed!Respond(Me, Untimed!Failure(500))
      BY <1>6, Failing
    <2>. QED
      BY <1>1, <1>2, <1>3, <1>4, <1>6, <2>1, SameLock
         DEF Untimed!CacheResponse, Untimed!providerVars, Of
  <1>. QED
    BY <1>5, <1>6 DEF CacheResponse

LEMMA UnlockSimulated ==
    ASSUME TypeOK, Unlock
    PROVE  Untimed!Unlock(Me)
  <1>1. /\ PurchasePc = "unlock" /\ PurchasePc' = "done" /\ lockedAt' \in {None, lockedAt}
        /\ UNCHANGED <<now, noticed, attempt, reply, row, left, answer>>
    BY DEF Unlock, End, PurchasePc, callVars
  <1>2. Untimed!GoTo(Me, "done") /\ PurchaseAnswer' = PurchaseAnswer
    BY <1>1, Goes, SameAnswer
  <1>3. Locked' = Locked \/ ~Locked'
    BY <1>1 DEF Locked
  <1>4. ~Leaked /\ (Leaked' <=> Locked')
    BY <1>1, LeakedFact
  <1>. QED
    BY <1>1, <1>2, <1>3, <1>4 DEF Untimed!Unlock, Untimed!IdemKey, Untimed!providerVars, Of

(***************************************************************************)
(* The first states, and every step, seen from Purchase.                   *)
(***************************************************************************)
LEMMA InitSimulated == Init => Untimed!Init
  <1>. SUFFICES ASSUME Init PROVE Untimed!Init
    OBVIOUS
  <1>1. PurchasePc = "idle" /\ PurchaseAnswer = None /\ ~Locked /\ reply # "approved"
    BY NoneAssumption DEF Init, PurchasePc, PurchaseAnswer, Locked, Reply
  <1>2. ~Leaked
    BY <1>1 DEF Leaked
  <1>. QED
    BY <1>1, <1>2 DEF Init, Untimed!Init, Untimed!AnyKey, Of

LEMMA NextSimulated ==
    ASSUME Timely, Timely', Related, LockCoversRequest', [Next]_vars,
           Patience + 2 * Grace < LockTTL
    PROVE  [Untimed!Next]_(Untimed!vars)
  <1>0. TypeOK /\ Clock /\ TypeOK' /\ Clock'
    BY DEF Timely
  <1>1. CASE Pass
    BY <1>0, <1>1, PassSimulated DEF Untimed!Next, Untimed!AnyKey
  <1>2. CASE Notice
    BY <1>0, <1>2, NoticeSimulated DEF Untimed!Next
  <1>3. CASE Deliver
    BY <1>0, <1>3, DeliverSimulated DEF Untimed!Next
  <1>4. CASE GiveUp
    BY <1>4, GiveUpSimulated
  <1>5. CASE Get
    BY <1>0, <1>5, GetSimulated DEF Untimed!Next, Untimed!Handler
  <1>6. CASE Lock
    BY <1>0, <1>6, LockSimulated DEF Untimed!Next, Untimed!Handler
  <1>7. CASE Attempt \/ WakeUp
    BY <1>0, <1>7, AttemptSimulated
  <1>8. CASE UsersAnswer
    BY <1>0, <1>8, UsersAnswerSimulated DEF Untimed!Next, Untimed!Handler
  <1>9. CASE ProviderAnswer
    BY <1>0, <1>9, ProviderAnswerSimulated DEF Untimed!Next, Untimed!Handler
  <1>10. CASE Interrupted
    BY <1>0, <1>10, InterruptedSimulated DEF Untimed!Next, Untimed!Handler
  <1>11. CASE Save
    BY <1>0, <1>11, SaveSimulated DEF Untimed!Next, Untimed!Handler
  <1>12. CASE CacheResponse
    BY <1>0, <1>12, CacheSimulated DEF Untimed!Next, Untimed!Handler
  <1>13. CASE Unlock
    BY <1>0, <1>13, UnlockSimulated DEF Untimed!Next, Untimed!Handler
  <1>14. CASE UNCHANGED vars
    <2>1. UNCHANGED <<now, pc, callee, noticed, attempt, reply, row, left, answer, lockedAt>>
      BY <1>14 DEF vars, callVars
    <2>2. PurchasePc' = PurchasePc /\ PurchaseAnswer' = PurchaseAnswer
      BY <2>1, SameAnswer DEF PurchasePc
    <2>3. Locked' = Locked /\ Leaked' = Leaked
      BY <2>1, <2>2, SameLock
    <2>. QED
      BY <2>1, <2>2, <2>3 DEF Untimed!vars
  <1>. QED
    BY <1>1, <1>2, <1>3, <1>4, <1>5, <1>6, <1>7, <1>8, <1>9, <1>10, <1>11, <1>12,
       <1>13, <1>14 DEF Next

(***************************************************************************)
(* The clocked chain implements Purchase without slow requests, for all    *)
(* timeouts, numbers of retries and answers of the provider, as long as    *)
(* callers leave two commands' time before the lock's minute is over       *)
(* (proxy.go:32 and client.go:68 against cache.go:46).                     *)
(***************************************************************************)
THEOREM ChainImplementsPurchase ==
    ASSUME Patience + 2 * Grace < LockTTL
    PROVE  Spec => ImplementsPurchase
  <1>1. Init => Untimed!Init /\ Timely /\ Related
    BY InitSimulated, TimelyHolds, InitRelated
  <1>2. Timely /\ Related /\ [Next]_vars => Timely' /\ Related'
    BY TimelyHolds, NextRelated
  <1>3. Timely => LockCoversRequest
    BY CoversFact DEF Timely
  <1>4. Timely /\ Timely' /\ Related /\ LockCoversRequest' /\ [Next]_vars
            => [Untimed!Next]_(Untimed!vars)
    BY NextSimulated
  <1>. QED
    BY <1>1, <1>2, <1>3, <1>4, PTL DEF Spec, ImplementsPurchase, Untimed!Spec
=============================================================================
