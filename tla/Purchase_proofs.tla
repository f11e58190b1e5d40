--------------------------- MODULE Purchase_proofs ---------------------------
(***************************************************************************)
(* The safety of Purchase, for any number of requests, keys, retries and   *)
(* crashes.  The invariant is built in layers, each inductive relative to  *)
(* the ones before it.                                                     *)
(***************************************************************************)
EXTENDS Purchase, TLAPS

Before == {"idle", "get", "lock", "validate"}  \* no provider call yet
Saved  == {"cache", "unlock", "done", "crashed"}

(***************************************************************************)
(* What the program counter says of a request's own data.                  *)
(***************************************************************************)
Control(r) ==
    /\ pc[r] = "post" => attempt[r] <= MaxRetries
    /\ pc[r] \in {"save", "cache"} => reply[r] \in Reply
    /\ pc[r] = "cache" => PostSucceeds(reply[r])
    /\ pc[r] \in {"unlock", "done"} => answer[r] # None
    /\ pc[r] \in Before => attempt[r] = 0 /\ charges[r] = 0 /\ answer[r] = None
    /\ pc[r] \in InFlight => Body[r] # Malformed
    /\ <<"bump", r>> \in tasks => Body[r].account \in Account

TypeInv == TypeOK /\ \A r \in Req : Control(r)

(***************************************************************************)
(* Rows, and the events about them, say what the provider last answered.   *)
(***************************************************************************)
RowSound(r) ==
    /\ rows[r] # None => pc[r] \in Saved /\ reply[r] \in Reply /\ rows[r] = RowStatus(reply[r])
    /\ pc[r] = "cache" => rows[r] # None
    /\ reply[r] = "approved" => charges[r] > 0
    /\ <<"publish", r>> \in tasks => rows[r] = "EXECUTED"
    /\ r \in events => rows[r] = "EXECUTED"

RowInv == \A r \in Req : RowSound(r)

\* An answer a is about a row under key k.
Backed(a, k) == rows[a.tx] = a.status /\ IdemKey(a.tx) = k

(***************************************************************************)
(* Answers, given or stored, are backed; an answered charge has its row;   *)
(* and an EXECUTED answer is in the idempotency store.                     *)
(***************************************************************************)
Stored(k) == idem[k] # None => idem[k].code = 201 /\ Backed(idem[k], k)

AnswerSound(r) ==
    answer[r] # None =>
        /\ pc[r] \in {"unlock", "done", "crashed"}
        /\ answer[r].code = 201 => Backed(answer[r], IdemKey(r))
        /\ answer[r].code # 201 => answer[r].status = None
        /\ charges[r] > 0 /\ rows[r] = None => answer[r].code = 500
        /\ answer[r].status = "EXECUTED" => idem[IdemKey(r)] # None

AnswerInv ==
    /\ \A k \in AnyKey : Stored(k)
    /\ \A r \in Req : AnswerSound(r)

(***************************************************************************)
(* A request in the critical section holds its lock, and holds it alone.   *)
(***************************************************************************)
LockInv ==
    /\ MutualExclusion
    /\ ~SlowRequests => \A r \in Req : pc[r] \in Critical => IdemKey(r) \in lock

(***************************************************************************)
(* A late request never gets past the idempotency lookup.                  *)
(***************************************************************************)
Harmless(r) ==
    /\ charges[r] = 0
    /\ pc[r] \in {"get", "done", "crashed"}
    /\ pc[r] = "get" => idem[IdemKey(r)] # None

LateInv == \A r \in late : Harmless(r)

-----------------------------------------------------------------------------
LEMMA KeyType == \A r \in Req : IdemKey(r) \in AnyKey
  BY HeaderAssumption DEF IdemKey, AnyKey

\* Types of the classification of provider answers, and what EXECUTED implies.
LEMMA RowStatusFacts ==
  ASSUME NEW p \in Reply
  PROVE  /\ RowStatus(p) \in Status
         /\ PostSucceeds(p) => RowStatus(p) \in {"EXECUTED", "REJECTED"}
         /\ RowStatus(p) = "EXECUTED" <=> p = "approved"
         /\ RowStatus(p) # None
  BY NoneAssumption DEF Reply, RowStatus, Status, PostSucceeds, MapProviderStatus

LEMMA NotExecuted == None # "EXECUTED"
  BY NoneAssumption DEF Status

LEMMA ChargedFacts ==
  ASSUME NEW p \in Reply
  PROVE  Charged(p) \subseteq {0, 1} /\ (p = "approved" => Charged(p) = {1})
  BY DEF Reply, Charged

LEMMA AnswerFacts ==
  /\ \A code \in {400, 409, 500, 503} :
        /\ Failure(code) \in Answer
        /\ Failure(code) # None
        /\ Failure(code).code = code
        /\ Failure(code).status = None
  /\ \A r \in Req, s \in {"EXECUTED", "REJECTED"} :
        /\ Created(r, s) \in Answer
        /\ Created(r, s) # None
        /\ Created(r, s).code = 201
        /\ Created(r, s).tx = r
        /\ Created(r, s).status = s
  BY NoneAssumption DEF Answer, Failure, Created

LEMMA TypeInit == Init => TypeInv
  BY BoundsAssumption, NoneAssumption
  DEF Init, TypeInv, TypeOK, Control, InFlight, Critical, Finished, Before

(***************************************************************************)
(* A step of one request keeps the types.                                  *)
(***************************************************************************)
LEMMA TypeStep ==
  ASSUME TypeInv, [Next]_vars
  PROVE  TypeOK'
  <1> USE DEF TypeInv, TypeOK, GoTo, EarlyReturn, Respond
  <1>1. ASSUME NEW r \in Req, Create(r) PROVE TypeOK'
    BY <1>1, AnswerFacts DEF Create, InFlight, Finished, redisVars, providerVars
  <1>2. ASSUME NEW r \in Req, GetIdempotency(r) PROVE TypeOK'
    BY <1>2, AnswerFacts, KeyType
    DEF GetIdempotency, InFlight, Finished, redisVars, providerVars
  <1>3. ASSUME NEW r \in Req, Lock(r) PROVE TypeOK'
    <2>1. \/ answer' = answer
          \/ \E code \in {409, 500} : answer' = [answer EXCEPT ![r] = Failure(code)]
      BY <1>3 DEF Lock
    <2>2. answer' \in [Req -> Answer \cup {None}]
      BY <2>1, AnswerFacts
    <2> QED
      BY <1>3, <2>2, KeyType DEF Lock, InFlight, Critical, Finished, providerVars
  <1>4. ASSUME NEW r \in Req, ValidateUser(r) PROVE TypeOK'
    <2>1. \/ answer' = answer
          \/ \E code \in {400, 500, 503} : answer' = [answer EXCEPT ![r] = Failure(code)]
      BY <1>4 DEF ValidateUser
    <2>2. answer' \in [Req -> Answer \cup {None}]
      BY <2>1, AnswerFacts
    <2> QED
      BY <1>4, <2>2 DEF ValidateUser, InFlight, Critical, redisVars, providerVars
  <1>5. ASSUME NEW r \in Req, Attempt(r) PROVE TypeOK'
    <2>1. attempt[r] + 1 \in 0 .. MaxRetries + 1
      <3>1. attempt[r] \in 0 .. MaxRetries + 1 /\ pc[r] = "post" /\ Control(r)
        BY <1>5 DEF Attempt
      <3>2. attempt[r] <= MaxRetries
        BY <3>1 DEF Control
      <3> QED
        BY <3>1, <3>2, BoundsAssumption
    <2>2. PICK p \in Replies : \E c \in Charged(p) :
            /\ reply' = [reply EXCEPT ![r] = p]
            /\ charges' = [charges EXCEPT ![r] = @ + c]
      BY <1>5 DEF Attempt
    <2>3. p \in Reply /\ Charged(p) \subseteq Nat
      BY ChargedFacts, RepliesAssumption
    <2>4. charges' \in [Req -> Nat] /\ reply' \in [Req -> Reply \cup {None}]
      BY <2>2, <2>3
    <2> QED
      BY <1>5, <2>1, <2>4 DEF Attempt, NextAttempt, MayRetry, InFlight, Critical, redisVars
  <1>6. ASSUME NEW r \in Req, AttemptCancelled(r) PROVE TypeOK'
    BY <1>6 DEF AttemptCancelled, Reply, InFlight, Critical, redisVars
  <1>7. ASSUME NEW r \in Req, Save(r) PROVE TypeOK'
    <2>1. reply[r] \in Reply
      BY <1>7 DEF Save, Control
    <2>2. /\ RowStatus(reply[r]) \in Status
          /\ RowStatus(reply[r]) = "REJECTED" => Response(r) \in Answer
      BY <2>1, RowStatusFacts, AnswerFacts DEF Response
    <2>3. Spawned(r) \subseteq {"bump", "publish"} \X Req
      BY DEF Spawned
    <2>4. answer' = answer \/ \E a \in Answer : answer' = [answer EXCEPT ![r] = a]
      BY <1>7, <2>2, AnswerFacts DEF Save
    <2>5. answer' \in [Req -> Answer \cup {None}]
      BY <2>4
    <2>6. \E l \in {"cache", "unlock"} : pc' = [pc EXCEPT ![r] = l]
      BY <1>7 DEF Save
    <2>7. tasks' \subseteq {"bump", "publish"} \X Req
      BY <1>7, <2>3 DEF Save
    <2>8. /\ rows' = [rows EXCEPT ![r] = RowStatus(reply[r])]
          /\ UNCHANGED <<cancelled, providerVars, redisVars, events, late, crashes>>
      BY <1>7 DEF Save, InsertRow
    <2> QED
      BY <2>2, <2>5, <2>6, <2>7, <2>8 DEF InFlight, Critical, redisVars, providerVars
  <1>8. ASSUME NEW r \in Req, SaveFails(r) PROVE TypeOK'
    <2>1. RowStatus(reply[r]) \in Status
      BY <1>8, RowStatusFacts DEF SaveFails, Control
    <2> QED
      BY <1>8, <2>1, AnswerFacts
      DEF SaveFails, SaveError, InsertRow, InFlight, Critical, redisVars, providerVars
  <1>9. ASSUME NEW r \in Req, CacheResponse(r) PROVE TypeOK'
    <2>1. reply[r] \in Reply /\ PostSucceeds(reply[r])
      BY <1>9 DEF CacheResponse, Control
    <2>2. Response(r) \in Answer
      BY <2>1, RowStatusFacts, AnswerFacts DEF Response
    <2>3. idem' = idem \/ idem' = [idem EXCEPT ![IdemKey(r)] = Response(r)]
      BY <1>9 DEF CacheResponse, StoreAnswer
    <2>4. \E a \in Answer : answer' = [answer EXCEPT ![r] = a]
      BY <1>9, <2>2, AnswerFacts DEF CacheResponse
    <2>5. /\ idem' \in [AnyKey -> Answer \cup {None}]
          /\ answer' \in [Req -> Answer \cup {None}]
      BY <2>2, <2>3, <2>4
    <2>6. /\ pc' = [pc EXCEPT ![r] = "unlock"]
          /\ UNCHANGED <<cancelled, providerVars, rows, lock, leaked, versioned, tasks,
                         events, late, crashes>>
      BY <1>9 DEF CacheResponse
    <2> QED
      BY <2>5, <2>6 DEF InFlight, Critical, providerVars
  <1>10. ASSUME NEW r \in Req, Unlock(r) PROVE TypeOK'
    BY <1>10 DEF Unlock, Finished, providerVars
  <1>11. ASSUME NEW r \in Req, BumpVersion(r) PROVE TypeOK'
    <2>1. Body[r].account \in Account
      BY <1>11 DEF BumpVersion, Control
    <2> QED
      BY <1>11, <2>1 DEF BumpVersion, providerVars
  <1>12. ASSUME NEW r \in Req, PublishEvent(r) PROVE TypeOK'
    BY <1>12 DEF PublishEvent, redisVars, providerVars
  <1>13. ASSUME NEW r \in Req, Cancel(r) PROVE TypeOK'
    BY <1>13 DEF Cancel, redisVars, providerVars
  <1>14. ASSUME NEW k \in AnyKey, LockExpires(k) PROVE TypeOK'
    BY <1>14 DEF LockExpires, providerVars
  <1>15. ASSUME Crash PROVE TypeOK'
    BY <1>15, BoundsAssumption DEF Crash, Finished, redisVars, providerVars
  <1>16. CASE UNCHANGED vars
    BY <1>16 DEF vars
  <1> QED
    BY <1>1, <1>2, <1>3, <1>4, <1>5, <1>6, <1>7, <1>8, <1>9, <1>10, <1>11, <1>12,
       <1>13, <1>14, <1>15, <1>16 DEF Next, Handler, Background

(***************************************************************************)
(* A request that a step does not touch stays as it was.                   *)
(***************************************************************************)
Untouched(q) ==
    /\ pc'[q] = pc[q]
    /\ attempt'[q] = attempt[q]
    /\ reply'[q] = reply[q]
    /\ charges'[q] = charges[q]
    /\ rows'[q] = rows[q]
    /\ answer'[q] = answer[q]
    /\ \A kind \in {"bump", "publish"} : <<kind, q>> \in tasks' => <<kind, q>> \in tasks
    /\ q \in events' => q \in events \/ <<"publish", q>> \in tasks

\* The requests a step may touch: none, one, or by a crash all.
LEMMA Frame ==
  ASSUME TypeOK, [Next]_vars
  PROVE  \/ \A q \in Req : Untouched(q)
         \/ \E r \in Req :
               /\ Create(r) \/ Handler(r)
               /\ \A q \in Req \ {r} : Untouched(q)
         \/ Crash
  <1> USE DEF TypeOK, GoTo, EarlyReturn, Respond, Untouched
  <1>1. ASSUME NEW r \in Req, Create(r) \/ GetIdempotency(r) \/ Lock(r) \/ ValidateUser(r)
        PROVE  \A q \in Req \ {r} : Untouched(q)
    BY <1>1 DEF Create, GetIdempotency, Lock, ValidateUser, redisVars, providerVars
  <1>2. ASSUME NEW r \in Req, Attempt(r) \/ AttemptCancelled(r)
        PROVE  \A q \in Req \ {r} : Untouched(q)
    BY <1>2 DEF Attempt, AttemptCancelled, redisVars, providerVars
  <1>3. ASSUME NEW r \in Req, Save(r)
        PROVE  \A q \in Req \ {r} : Untouched(q)
    BY <1>3 DEF Save, InsertRow, Spawned, redisVars, providerVars
  <1>4. ASSUME NEW r \in Req, SaveFails(r) \/ CacheResponse(r) \/ Unlock(r)
        PROVE  \A q \in Req \ {r} : Untouched(q)
    BY <1>4 DEF SaveFails, InsertRow, CacheResponse, Unlock, redisVars, providerVars
  <1>5. ASSUME NEW r \in Req, Background(r) \/ Cancel(r)
        PROVE  \A q \in Req : Untouched(q)
    BY <1>5 DEF Background, BumpVersion, PublishEvent, Cancel, redisVars, providerVars
  <1>6. ASSUME NEW k \in AnyKey, LockExpires(k)
        PROVE  \A q \in Req : Untouched(q)
    BY <1>6 DEF LockExpires, providerVars
  <1>7. ASSUME UNCHANGED vars
        PROVE  \A q \in Req : Untouched(q)
    BY <1>7 DEF vars
  <1> QED
    BY <1>1, <1>2, <1>3, <1>4, <1>5, <1>6, <1>7 DEF Next, Handler

LEMMA ControlStep ==
  ASSUME TypeInv, [Next]_vars
  PROVE  \A r \in Req : Control(r)'
  <1> USE DEF TypeInv
  <1>1. ASSUME NEW q \in Req, Untouched(q) PROVE Control(q)'
    BY <1>1 DEF Untouched, Control
  <1>2. ASSUME NEW r \in Req, Create(r) \/ Handler(r) PROVE Control(r)'
    <2> USE DEF TypeOK, Control, GoTo, EarlyReturn, Respond, InFlight, Critical, Before
    <2>1. CASE Create(r)
      BY <2>1, AnswerFacts DEF Create, redisVars, providerVars
    <2>2. CASE GetIdempotency(r)
      BY <2>2, AnswerFacts DEF GetIdempotency, Miss, redisVars, providerVars
    <2>3. CASE Lock(r)
      BY <2>3, AnswerFacts DEF Lock, redisVars, providerVars
    <2>4. CASE ValidateUser(r)
      BY <2>4, AnswerFacts, BoundsAssumption DEF ValidateUser, redisVars, providerVars
    <2>5. CASE Attempt(r)
      BY <2>5, RepliesAssumption, BoundsAssumption DEF Attempt, NextAttempt, MayRetry, redisVars
    <2>6. CASE AttemptCancelled(r)
      BY <2>6 DEF AttemptCancelled, Reply, redisVars
    <2>7. CASE Save(r)
      BY <2>7, AnswerFacts, RowStatusFacts, BodyAssumption
      DEF Save, Response, Spawned, redisVars, providerVars
    <2>8. CASE SaveFails(r)
      BY <2>8, AnswerFacts DEF SaveFails, SaveError, redisVars, providerVars
    <2>9. CASE CacheResponse(r)
      BY <2>9, AnswerFacts, RowStatusFacts DEF CacheResponse, Response, providerVars
    <2>10. CASE Unlock(r)
      BY <2>10 DEF Unlock, providerVars
    <2> QED
      BY <1>2, <2>1, <2>2, <2>3, <2>4, <2>5, <2>6, <2>7, <2>8, <2>9, <2>10 DEF Handler
  <1>3. ASSUME Crash, NEW r \in Req PROVE Control(r)'
    BY <1>3 DEF Crash, TypeOK, Control, InFlight, Critical, Before, redisVars, providerVars
  <1> QED
    BY <1>1, <1>2, <1>3, Frame

LEMMA TypeInvariant == Spec => []TypeInv
  <1>1. TypeInv /\ [Next]_vars => TypeInv'
    BY TypeStep, ControlStep DEF TypeInv
  <1> QED
    BY <1>1, TypeInit, PTL DEF Spec

(***************************************************************************)
(* Every variable keeps its type.                                          *)
(***************************************************************************)
THEOREM TypeCorrect == Spec => []TypeOK
  <1>1. TypeInv => TypeOK
    BY DEF TypeInv
  <1> QED
    BY <1>1, TypeInvariant, PTL

-----------------------------------------------------------------------------
LEMMA RowInit == Init => RowInv
  BY NoneAssumption DEF Init, RowInv, RowSound, Reply

LEMMA RowStep ==
  ASSUME TypeInv, RowInv, [Next]_vars
  PROVE  RowInv'
  <1> USE DEF TypeInv, RowInv
  <1>1. ASSUME NEW q \in Req, Untouched(q) PROVE RowSound(q)'
    BY <1>1 DEF Untouched, RowSound
  <1>2. ASSUME NEW r \in Req, Create(r) \/ Handler(r) PROVE RowSound(r)'
    <2>0. RowSound(r) /\ Control(r)
      OBVIOUS
    <2> USE <2>0 DEF TypeOK, Control, RowSound, GoTo, EarlyReturn, Respond, Saved
    <2>1. CASE Create(r) \/ GetIdempotency(r) \/ Lock(r) \/ ValidateUser(r)
      BY <2>1 DEF Create, GetIdempotency, Lock, ValidateUser, redisVars, providerVars
    <2>2. CASE Attempt(r)
      <3>1. PICK p \in Replies : \E c \in Charged(p) :
              /\ reply' = [reply EXCEPT ![r] = p]
              /\ charges' = [charges EXCEPT ![r] = @ + c]
        BY <2>2 DEF Attempt
      <3>2. p = "approved" => charges'[r] = charges[r] + 1
        BY <3>1, ChargedFacts, RepliesAssumption
      <3>3. reply'[r] = "approved" => charges'[r] > 0
        BY <3>1, <3>2
      <3> QED
        BY <2>2, <3>3 DEF Attempt, redisVars
    <2>3. CASE AttemptCancelled(r)
      BY <2>3 DEF AttemptCancelled, redisVars
    <2>4. CASE Save(r)
      BY <2>4, RowStatusFacts, NotExecuted DEF Save, InsertRow, Spawned, redisVars, providerVars
    <2>5. CASE SaveFails(r)
      BY <2>5, RowStatusFacts, NotExecuted DEF SaveFails, InsertRow, redisVars, providerVars
    <2>6. CASE CacheResponse(r) \/ Unlock(r)
      BY <2>6 DEF CacheResponse, Unlock, redisVars, providerVars
    <2> QED
      BY <1>2, <2>1, <2>2, <2>3, <2>4, <2>5, <2>6 DEF Handler
  <1>3. ASSUME Crash, NEW r \in Req PROVE RowSound(r)'
    BY <1>3 DEF Crash, TypeOK, RowSound, Saved, InFlight, Critical, redisVars, providerVars
  <1> QED
    BY <1>1, <1>2, <1>3, Frame

LEMMA RowInvariant == Spec => []RowInv
  <1>1. RowInv /\ TypeInv /\ [Next]_vars => RowInv'
    BY RowStep
  <1> QED
    BY <1>1, RowInit, TypeInvariant, PTL DEF Spec

(***************************************************************************)
(* What the bank reports as EXECUTED, in a row or in an event, the         *)
(* provider executed.                                                      *)
(***************************************************************************)
THEOREM ExecutedIsReal == Spec => []ExecutedWasCharged
  <1>1. RowInv /\ TypeInv => ExecutedWasCharged
    BY RowStatusFacts, NotExecuted
    DEF RowInv, RowSound, TypeInv, TypeOK, ExecutedWasCharged, Status
  <1> QED
    BY <1>1, RowInvariant, TypeInvariant, PTL

(***************************************************************************)
(* An event never precedes its row, and is about an EXECUTED one, although *)
(* the goroutine that publishes it outlives the request.                   *)
(***************************************************************************)
THEOREM EventsFollowRows == Spec => []EventBackedByRow
  <1>1. RowInv /\ TypeInv => EventBackedByRow
    BY RowStatusFacts, NotExecuted
    DEF RowInv, RowSound, TypeInv, TypeOK, EventBackedByRow, Status
  <1> QED
    BY <1>1, RowInvariant, TypeInvariant, PTL

-----------------------------------------------------------------------------
LEMMA LockInit == Init => LockInv
  BY DEF Init, LockInv, MutualExclusion, Critical

(***************************************************************************)
(* Only the holder's own unlock, or an expiry with nobody inside, removes  *)
(* a key; only a request that finds the key absent enters.                 *)
(***************************************************************************)
LEMMA LockStep ==
  ASSUME TypeOK, LockInv, [Next]_vars
  PROVE  LockInv'
  <1> USE DEF TypeOK, LockInv, MutualExclusion, GoTo, EarlyReturn, Respond
  <1>1. ASSUME NEW r \in Req, Create(r) PROVE LockInv'
    BY <1>1 DEF Create, redisVars, Critical
  <1>2. ASSUME NEW r \in Req, GetIdempotency(r) PROVE LockInv'
    BY <1>2 DEF GetIdempotency, redisVars, Critical
  <1>3. ASSUME NEW r \in Req, Lock(r) PROVE LockInv'
    BY <1>3 DEF Lock, LockFree, Critical
  <1>4. ASSUME NEW r \in Req,
               \/ ValidateUser(r) \/ Attempt(r) \/ AttemptCancelled(r)
               \/ Save(r) \/ SaveFails(r) \/ CacheResponse(r)
        PROVE  LockInv'
    <2>1. pc[r] \in Critical
      BY <1>4 DEF ValidateUser, Attempt, AttemptCancelled, Save, SaveFails, CacheResponse, Critical
    <2>2. lock' = lock
      BY <1>4 DEF ValidateUser, Attempt, AttemptCancelled, Save, SaveFails, CacheResponse, redisVars
    <2>3. \E l : pc' = [pc EXCEPT ![r] = l]
      BY <1>4 DEF ValidateUser, Attempt, AttemptCancelled, Save, SaveFails, CacheResponse
    <2>4. \A q \in Req : pc'[q] \in Critical => pc[q] \in Critical
      BY <2>1, <2>3
    <2>5. MutualExclusion'
      BY <2>4
    <2> QED
      BY <2>2, <2>4, <2>5
  <1>5. ASSUME NEW r \in Req, Unlock(r) PROVE LockInv'
    BY <1>5 DEF Unlock, Critical
  <1>6. ASSUME NEW r \in Req, Background(r) \/ Cancel(r) PROVE LockInv'
    BY <1>6 DEF Background, BumpVersion, PublishEvent, Cancel, redisVars
  <1>7. ASSUME NEW k \in AnyKey, LockExpires(k) PROVE LockInv'
    BY <1>7 DEF LockExpires
  <1>8. ASSUME Crash PROVE LockInv'
    BY <1>8 DEF Crash, redisVars, InFlight, Critical
  <1>9. CASE UNCHANGED vars
    BY <1>9 DEF vars
  <1> QED
    BY <1>1, <1>2, <1>3, <1>4, <1>5, <1>6, <1>7, <1>8, <1>9 DEF Next, Handler

(***************************************************************************)
(* While no request outlives its lock, two requests under one key are      *)
(* never both between lock and unlock.                                     *)
(***************************************************************************)
THEOREM LockIsExclusive == Spec => []MutualExclusion
  <1>1. LockInv /\ TypeOK /\ [Next]_vars => LockInv'
    BY LockStep
  <1>2. LockInv => MutualExclusion
    BY DEF LockInv
  <1> QED
    BY <1>1, <1>2, LockInit, TypeCorrect, PTL DEF Spec

(***************************************************************************)
(* Whoever locks unlocks, on every path: a lock is its handler's, or one   *)
(* that a fault has left behind.                                           *)
(***************************************************************************)
LEMMA ReasonInit == Init => LockHasReason
  BY DEF Init, LockHasReason

LEMMA ReasonStep ==
  ASSUME TypeOK, LockHasReason, [Next]_vars
  PROVE  LockHasReason'
  <1> USE DEF TypeOK, LockHasReason, IdemKey
  <1>1. ASSUME \A q \in Req : pc[q] \in Critical => pc'[q] \in Critical,
               UNCHANGED <<lock, leaked>>
        PROVE  LockHasReason'
    BY <1>1
  <1>2. ASSUME NEW r \in Req, Create(r) \/ GetIdempotency(r) PROVE LockHasReason'
    <2>1. pc[r] \notin Critical /\ \E l : GoTo(r, l)
      BY <1>2 DEF Create, GetIdempotency, Critical
    <2>2. UNCHANGED <<lock, leaked>>
      BY <1>2 DEF Create, GetIdempotency, redisVars
    <2> QED
      BY <1>1, <2>1, <2>2 DEF GoTo
  <1>3. ASSUME NEW r \in Req, Lock(r) PROVE LockHasReason'
    <2>1. pc[r] \notin Critical /\ \E l : GoTo(r, l)
      BY <1>3 DEF Lock, Critical
    <2>2. \A q \in Req : pc[q] \in Critical => pc'[q] \in Critical
      BY <2>1 DEF GoTo
    <2>3. CASE lock' = lock \cup {IdemKey(r)} /\ GoTo(r, "validate") /\ leaked' = leaked
      <3>1. pc'[r] \in Critical
        BY <2>3 DEF GoTo, Critical
      <3> QED
        BY <2>2, <2>3, <3>1
    <2>4. CASE lock' = lock \cup {IdemKey(r)} /\ leaked' = leaked \cup {IdemKey(r)}
      BY <2>2, <2>4
    <2>5. CASE UNCHANGED <<lock, leaked>>
      BY <1>1, <2>2, <2>5
    <2> QED
      BY <1>3, <2>3, <2>4, <2>5 DEF Lock
  <1>4. ASSUME NEW r \in Req,
               \/ ValidateUser(r) \/ Attempt(r) \/ AttemptCancelled(r)
               \/ Save(r) \/ SaveFails(r) \/ CacheResponse(r)
        PROVE  LockHasReason'
    <2>1. \E l \in {"post", "save", "cache", "unlock"} : GoTo(r, l)
      BY <1>4 DEF ValidateUser, Attempt, AttemptCancelled, Save, SaveFails, CacheResponse,
                  EarlyReturn
    <2>2. \A q \in Req : pc[q] \in Critical => pc'[q] \in Critical
      BY <2>1 DEF GoTo, Critical
    <2>3. UNCHANGED <<lock, leaked>>
      BY <1>4 DEF ValidateUser, Attempt, AttemptCancelled, Save, SaveFails, CacheResponse, redisVars
    <2> QED
      BY <1>1, <2>2, <2>3
  <1>5. ASSUME NEW r \in Req, Unlock(r) PROVE LockHasReason'
    <2>1. \A q \in Req \ {r} : pc'[q] = pc[q]
      BY <1>5 DEF Unlock, GoTo
    <2>2. \/ lock' = lock \ {IdemKey(r)} /\ leaked' = leaked \ {IdemKey(r)}
          \/ lock' = lock /\ leaked' = leaked \cup (lock \cap {IdemKey(r)})
      BY <1>5 DEF Unlock
    <2>3. \A k \in lock \ {IdemKey(r)} :
              k \in leaked \/ \E q \in Req \ {r} : pc[q] \in Critical /\ IdemKey(q) = k
      OBVIOUS
    <2> QED
      BY <2>1, <2>2, <2>3
  <1>6. ASSUME NEW r \in Req, Background(r) \/ Cancel(r) PROVE LockHasReason'
    <2>1. UNCHANGED <<pc, lock, leaked>>
      BY <1>6 DEF Background, BumpVersion, PublishEvent, Cancel, redisVars
    <2> QED
      BY <1>1, <2>1
  <1>7. ASSUME NEW k \in AnyKey, LockExpires(k) PROVE LockHasReason'
    BY <1>7 DEF LockExpires
  <1>8. ASSUME Crash PROVE LockHasReason'
    BY <1>8 DEF Crash
  <1>9. CASE UNCHANGED vars
    BY <1>9 DEF vars
  <1> QED
    BY <1>2, <1>3, <1>4, <1>5, <1>6, <1>7, <1>8, <1>9 DEF Next, Handler

(***************************************************************************)
(* A key is locked while one of its requests is at work, or a fault has    *)
(* kept a handler from unlocking it, slow requests included.               *)
(***************************************************************************)
THEOREM EveryPathUnlocks == Spec => []LockHasReason
  <1>1. LockHasReason /\ TypeOK /\ [Next]_vars => LockHasReason'
    BY ReasonStep
  <1> QED
    BY <1>1, ReasonInit, TypeCorrect, PTL DEF Spec

-----------------------------------------------------------------------------
LEMMA AnswerInit == Init => AnswerInv
  BY DEF Init, AnswerInv, Stored, AnswerSound

\* Rows are written once: an answer about a row stays true.
LEMMA RowsStay ==
  ASSUME TypeInv, RowInv, [Next]_vars, NEW r \in Req, rows[r] # None
  PROVE  rows'[r] = rows[r]
  <1> USE DEF TypeInv, TypeOK, RowInv
  <1>1. ASSUME Untouched(r) PROVE rows'[r] = rows[r]
    BY <1>1 DEF Untouched
  <1>2. pc[r] \in Saved
    BY DEF RowSound
  <1>3. ASSUME Create(r) \/ Handler(r) PROVE rows'[r] = rows[r]
    BY <1>2, <1>3
    DEF Create, Handler, GetIdempotency, Lock, ValidateUser, Attempt, AttemptCancelled,
        Save, SaveFails, CacheResponse, Unlock, Saved
  <1>4. ASSUME Crash PROVE rows'[r] = rows[r]
    BY <1>4 DEF Crash
  <1> QED
    BY <1>1, <1>3, <1>4, Frame

LEMMA AnswerShape ==
  ASSUME NEW a \in Answer, a.code = 201
  PROVE  a.tx \in Req /\ a.status \in {"EXECUTED", "REJECTED"}
  BY DEF Answer, Failure

LEMMA BackedStays ==
  ASSUME TypeInv, RowInv, [Next]_vars, NEW a \in Answer, a.code = 201, NEW k, Backed(a, k)
  PROVE  rows'[a.tx] = a.status /\ IdemKey(a.tx) = k
  <1>1. a.tx \in Req /\ a.status # None
    BY AnswerShape, NoneAssumption DEF Status
  <1>2. rows'[a.tx] = rows[a.tx]
    BY <1>1, RowsStay DEF Backed
  <1> QED
    BY <1>2 DEF Backed

\* Only step 9 writes an idempotency key, and nothing deletes one.
LEMMA IdemStep ==
  ASSUME TypeInv, RowInv, AnswerInv, [Next]_vars
  PROVE  \A k \in AnyKey : Stored(k)' /\ (idem[k] # None => idem'[k] # None)
  <1> USE DEF TypeInv, TypeOK, AnswerInv
  <1>1. ASSUME NEW k \in AnyKey, idem'[k] = idem[k]
        PROVE  Stored(k)' /\ (idem[k] # None => idem'[k] # None)
    <2>1. CASE idem[k] = None
      BY <1>1, <2>1 DEF Stored
    <2>2. CASE idem[k] # None
      <3>1. idem[k] \in Answer /\ idem[k].code = 201 /\ Backed(idem[k], k)
        BY <2>2 DEF Stored
      <3>2. rows'[idem[k].tx] = idem[k].status /\ IdemKey(idem[k].tx) = k
        BY <3>1, BackedStays
      <3> QED
        BY <1>1, <3>1, <3>2 DEF Stored, Backed, IdemKey
    <2> QED
      BY <2>1, <2>2
  <1>2. ASSUME NEW r \in Req, CacheResponse(r)
        PROVE  \A k \in AnyKey : Stored(k)' /\ (idem[k] # None => idem'[k] # None)
    <2>1. /\ reply[r] \in Reply
          /\ RowStatus(reply[r]) \in {"EXECUTED", "REJECTED"}
          /\ rows[r] = RowStatus(reply[r])
      BY <1>2, RowStatusFacts DEF CacheResponse, Control, RowInv, RowSound
    <2>2. /\ Response(r) \in Answer /\ Response(r) # None
          /\ Response(r).code = 201
          /\ Response(r).tx = r
          /\ Response(r).status = rows[r]
      BY <2>1, AnswerFacts DEF Response
    <2>3. rows' = rows
      BY <1>2 DEF CacheResponse
    <2>4. CASE idem' = idem
      BY <1>1, <2>4
    <2>5. CASE idem' = [idem EXCEPT ![IdemKey(r)] = Response(r)]
      <3>1. idem'[IdemKey(r)] = Response(r)
        BY <2>5, KeyType
      <3>2. Stored(IdemKey(r))'
        BY <2>2, <2>3, <3>1 DEF Stored, Backed, IdemKey
      <3>3. \A k \in AnyKey : k # IdemKey(r) => idem'[k] = idem[k]
        BY <2>5
      <3> QED
        BY <1>1, <2>2, <3>1, <3>2, <3>3
    <2> QED
      BY <1>2, <2>4, <2>5 DEF CacheResponse, StoreAnswer
  <1>3. ASSUME NEW r \in Req,
               \/ Create(r) \/ GetIdempotency(r) \/ Lock(r) \/ ValidateUser(r) \/ Attempt(r)
               \/ AttemptCancelled(r) \/ Save(r) \/ SaveFails(r) \/ Unlock(r)
               \/ Background(r) \/ Cancel(r)
        PROVE  idem' = idem
    BY <1>3
    DEF Create, GetIdempotency, Lock, ValidateUser, Attempt, AttemptCancelled, Save, SaveFails,
        Unlock, Background, BumpVersion, PublishEvent, Cancel, redisVars
  <1>4. ASSUME NEW k \in AnyKey, LockExpires(k) PROVE idem' = idem
    BY <1>4 DEF LockExpires
  <1>5. ASSUME Crash \/ UNCHANGED vars PROVE idem' = idem
    BY <1>5 DEF Crash, vars, redisVars
  <1> QED
    BY <1>1, <1>2, <1>3, <1>4, <1>5 DEF Next, Handler

LEMMA AnswerStep ==
  ASSUME TypeInv, RowInv, AnswerInv, [Next]_vars
  PROVE  AnswerInv'
  <1> USE DEF TypeInv, AnswerInv
  <1>1. ASSUME NEW q \in Req, Untouched(q) PROVE AnswerSound(q)'
    <2>1. CASE answer[q] = None
      BY <1>1, <2>1 DEF Untouched, AnswerSound
    <2>2. CASE answer[q] # None
      <3>1. answer[q] \in Answer /\ AnswerSound(q)
        BY <2>2 DEF TypeOK
      <3>2. answer[q].code = 201 =>
              rows'[answer[q].tx] = answer[q].status /\ IdemKey(answer[q].tx) = IdemKey(q)
        BY <2>2, <3>1, BackedStays DEF AnswerSound
      <3>3. answer[q].status = "EXECUTED" => idem'[IdemKey(q)] # None
        BY <2>2, <3>1, IdemStep, KeyType DEF AnswerSound
      <3>4. /\ answer'[q] = answer[q] /\ pc'[q] = pc[q]
            /\ charges'[q] = charges[q] /\ rows'[q] = rows[q]
        BY <1>1 DEF Untouched
      <3> QED
        BY <2>2, <3>1, <3>2, <3>3, <3>4 DEF AnswerSound, Backed, IdemKey
    <2> QED
      BY <2>1, <2>2
  <1>2. ASSUME NEW r \in Req, Create(r) \/ Handler(r) PROVE AnswerSound(r)'
    <2>0. RowSound(r) /\ Control(r) /\ AnswerSound(r)
      BY DEF RowInv
    <2>1. CASE Create(r)
      <3>1. charges'[r] = 0 /\ answer[r] = None
        BY <2>0, <2>1 DEF Create, Control, Before, providerVars
      <3>2. \/ answer' = answer
            \/ answer'[r] = Failure(400) /\ pc'[r] = "done"
        BY <2>1 DEF Create, TypeOK, GoTo, EarlyReturn, Respond
      <3> QED
        BY <3>1, <3>2, AnswerFacts, NotExecuted DEF AnswerSound
    <2>2. CASE GetIdempotency(r)
      <3>1. charges'[r] = 0 /\ idem' = idem /\ rows' = rows
        BY <2>0, <2>2 DEF GetIdempotency, Control, Before, redisVars, providerVars
      <3>2. CASE answer' = answer
        BY <2>0, <2>2, <3>2 DEF GetIdempotency, Control, Before, AnswerSound
      <3>3. CASE /\ idem[IdemKey(r)] # None
                 /\ answer'[r] = idem[IdemKey(r)]
                 /\ pc'[r] = "done"
        <4>1. Stored(IdemKey(r))
          BY KeyType
        <4>2. /\ answer'[r].code = 201
              /\ rows'[answer'[r].tx] = answer'[r].status
              /\ IdemKey(answer'[r].tx) = IdemKey(r)
          BY <3>1, <3>3, <4>1 DEF Stored, Backed
        <4> QED
          BY <3>1, <3>3, <4>2 DEF AnswerSound, Backed, IdemKey
      <3>4. CASE answer'[r] = Failure(500) /\ pc'[r] = "done"
        BY <3>1, <3>4, AnswerFacts, NotExecuted DEF AnswerSound
      <3> QED
        BY <2>2, <3>2, <3>3, <3>4 DEF GetIdempotency, TypeOK, GoTo, EarlyReturn, Respond
    <2>3. CASE Lock(r) \/ ValidateUser(r)
      <3>1. charges[r] = 0 /\ answer[r] = None
        BY <2>0, <2>3 DEF Lock, ValidateUser, Control, Before
      <3>2. charges' = charges
        BY <2>3 DEF Lock, ValidateUser, providerVars
      <3>3. \/ answer' = answer
            \/ /\ \E code \in {400, 409, 500, 503} : answer'[r] = Failure(code)
               /\ pc'[r] \in {"done", "unlock"}
        <4>1. CASE Lock(r)
          BY <4>1 DEF Lock, TypeOK, GoTo, EarlyReturn, Respond
        <4>2. CASE ValidateUser(r)
          BY <4>2 DEF ValidateUser, TypeOK, GoTo, EarlyReturn, Respond
        <4> QED
          BY <2>3, <4>1, <4>2
      <3>4. CASE answer' = answer
        BY <3>1, <3>4 DEF AnswerSound
      <3>5. CASE /\ \E code \in {400, 409, 500, 503} : answer'[r] = Failure(code)
                 /\ pc'[r] \in {"done", "unlock"}
        BY <3>1, <3>2, <3>5, AnswerFacts, NotExecuted DEF AnswerSound
      <3> QED
        BY <3>3, <3>4, <3>5
    <2>4. CASE Attempt(r) \/ AttemptCancelled(r)
      <3>1. answer[r] = None
        BY <2>0, <2>4 DEF Attempt, AttemptCancelled, AnswerSound
      <3>2. answer' = answer
        BY <2>4 DEF Attempt, AttemptCancelled
      <3> QED
        BY <3>1, <3>2 DEF AnswerSound
    <2>5. CASE Save(r)
      <3>1. pc[r] = "save" /\ reply[r] \in Reply /\ RowStatus(reply[r]) # None
        BY <2>0, <2>5, RowStatusFacts DEF Save, Control
      <3>2. rows'[r] = RowStatus(reply[r])
        BY <2>5 DEF Save, InsertRow, TypeOK
      <3>3. answer[r] = None
        BY <2>0, <3>1 DEF AnswerSound
      <3>4. \/ answer' = answer
            \/ /\ pc'[r] = "unlock"
               /\ \/ RowStatus(reply[r]) = "REJECTED" /\ answer'[r] = Created(r, "REJECTED")
                  \/ answer'[r] = Failure(503)
        BY <2>5 DEF Save, Response, TypeOK, GoTo, EarlyReturn, Respond
      <3>5. CASE answer' = answer
        BY <3>3, <3>5 DEF AnswerSound
      <3>6. CASE /\ RowStatus(reply[r]) = "REJECTED"
                 /\ answer'[r] = Created(r, "REJECTED")
                 /\ pc'[r] = "unlock"
        <4>1. /\ answer'[r].code = 201 /\ answer'[r].tx = r
              /\ answer'[r].status = "REJECTED"
          BY <3>6, AnswerFacts
        <4> QED
          BY <3>1, <3>2, <3>6, <4>1 DEF AnswerSound, Backed, IdemKey
      <3>7. CASE answer'[r] = Failure(503) /\ pc'[r] = "unlock"
        BY <3>1, <3>2, <3>7, AnswerFacts, NotExecuted DEF AnswerSound
      <3> QED
        BY <3>4, <3>5, <3>6, <3>7
    <2>6. CASE SaveFails(r)
      <3>1. answer'[r] = Failure(500) /\ pc'[r] = "unlock"
        BY <2>6 DEF SaveFails, SaveError, TypeOK, GoTo, EarlyReturn, Respond
      <3> QED
        BY <3>1, AnswerFacts, NotExecuted DEF AnswerSound
    <2>7. CASE CacheResponse(r)
      <3>1. /\ reply[r] \in Reply
            /\ RowStatus(reply[r]) \in {"EXECUTED", "REJECTED"}
            /\ rows[r] = RowStatus(reply[r])
            /\ rows[r] # None
            /\ rows' = rows
            /\ pc'[r] = "unlock"
        BY <2>0, <2>7, RowStatusFacts DEF CacheResponse, Control, RowSound, TypeOK, GoTo
      <3>2. CASE answer'[r] = Failure(500)
        BY <3>1, <3>2, AnswerFacts, NotExecuted DEF AnswerSound
      <3>3. CASE /\ answer'[r] = Response(r)
                 /\ idem' = [idem EXCEPT ![IdemKey(r)] = Response(r)]
        <4>1. answer'[r] = Created(r, rows[r]) /\ Created(r, rows[r]) # None
          BY <3>1, <3>3, AnswerFacts DEF Response
        <4>2. idem'[IdemKey(r)] # None
          BY <3>3, <4>1, <3>1, KeyType DEF TypeOK, Response
        <4> QED
          BY <3>1, <4>1, <4>2, AnswerFacts DEF AnswerSound, Backed, IdemKey
      <3> QED
        BY <2>7, <3>2, <3>3 DEF CacheResponse, StoreAnswer, TypeOK, Respond
    <2>8. CASE Unlock(r)
      <3>1. /\ pc'[r] = "done"
            /\ answer' = answer /\ rows' = rows /\ idem' = idem /\ charges' = charges
        BY <2>8 DEF Unlock, TypeOK, GoTo, providerVars
      <3> QED
        BY <2>0, <3>1 DEF AnswerSound, Backed, IdemKey
    <2> QED
      BY <1>2, <2>1, <2>2, <2>3, <2>4, <2>5, <2>6, <2>7, <2>8 DEF Handler
  <1>3. ASSUME Crash, NEW r \in Req PROVE AnswerSound(r)'
    <2>1. /\ answer' = answer /\ rows' = rows /\ idem' = idem /\ charges' = charges
          /\ pc[r] \in {"unlock", "done", "crashed"} => pc'[r] \in {"unlock", "done", "crashed"}
      BY <1>3 DEF Crash, TypeOK, redisVars, providerVars
    <2> QED
      BY <2>1 DEF AnswerSound, Backed, IdemKey
  <1> QED
    BY <1>1, <1>2, <1>3, IdemStep, Frame

LEMMA AnswerInvariant == Spec => []AnswerInv
  <1>1. AnswerInv /\ RowInv /\ TypeInv /\ [Next]_vars => AnswerInv'
    BY AnswerStep
  <1> QED
    BY <1>1, AnswerInit, RowInvariant, TypeInvariant, PTL DEF Spec

\* What AnswerInv says of a request that has been answered.
LEMMA WhatIsTold ==
  ASSUME AnswerInv, TypeInv, NEW r \in Req, pc[r] = "done"
  PROVE  /\ answer[r].code = 201 => Backed(answer[r], IdemKey(r))
         /\ charges[r] > 0 => rows[r] # None \/ answer[r].code = 500
  <1>1. answer[r] # None
    BY DEF TypeInv, Control
  <1> QED
    BY <1>1 DEF AnswerInv, AnswerSound

(***************************************************************************)
(* No 201 is made up: first hand or replayed, it is about a row that was   *)
(* inserted under that key and has that status.                            *)
(***************************************************************************)
THEOREM AnswersAreBacked == Spec => []AnswerBackedByRow
  <1>1. AnswerInv /\ TypeInv => AnswerBackedByRow
    BY WhatIsTold DEF AnswerBackedByRow, Backed
  <1> QED
    BY <1>1, AnswerInvariant, TypeInvariant, PTL

(***************************************************************************)
(* A charge whose client was told anything but a 500 has its row.          *)
(***************************************************************************)
THEOREM ChargesAreAccounted == Spec => []ChargeHasRowOr500
  <1>1. AnswerInv /\ TypeInv => ChargeHasRowOr500
    BY WhatIsTold DEF ChargeHasRowOr500
  <1> QED
    BY <1>1, AnswerInvariant, TypeInvariant, PTL

-----------------------------------------------------------------------------
LEMMA LateInit == Init => LateInv
  BY DEF Init, LateInv

\* Requests become late only as they arrive.
LEMMA LateStays ==
  ASSUME [Next]_vars, NEW s \in late'
  PROVE  \/ s \in late
         \/ /\ s \in Req /\ Create(s)
            /\ \E q \in Req : IdemKey(q) = IdemKey(s) /\ AnsweredExecuted(q)
  <1>1. ASSUME NEW r \in Req, Create(r), s \notin late
        PROVE  s = r /\ \E q \in Req : IdemKey(q) = IdemKey(r) /\ AnsweredExecuted(q)
    BY <1>1 DEF Create
  <1>2. ASSUME NEW r \in Req, Handler(r) PROVE late' = late
    BY <1>2 DEF Handler, GetIdempotency, Lock, ValidateUser, Attempt, AttemptCancelled,
                Save, SaveFails, CacheResponse, Unlock
  <1>3. ASSUME NEW r \in Req, Background(r) \/ Cancel(r) PROVE late' = late
    BY <1>3 DEF Background, BumpVersion, PublishEvent, Cancel
  <1>4. ASSUME NEW k \in AnyKey, LockExpires(k) PROVE late' = late
    BY <1>4 DEF LockExpires
  <1>5. ASSUME Crash \/ UNCHANGED vars PROVE late' = late
    BY <1>5 DEF Crash, vars
  <1> QED
    BY <1>1, <1>2, <1>3, <1>4, <1>5 DEF Next

LEMMA LateStep ==
  ASSUME TypeInv, RowInv, AnswerInv, LateInv, [Next]_vars
  PROVE  LateInv'
  <1> SUFFICES ASSUME NEW s \in late' PROVE Harmless(s)'
    BY DEF LateInv
  <1>0. s \in Req
    BY LateStays DEF TypeInv, TypeOK
  <1>1. CASE s \in late
    <2>0. Harmless(s)
      BY <1>1 DEF LateInv
    <2>1. idem[IdemKey(s)] # None => idem'[IdemKey(s)] # None
      BY <1>0, IdemStep, KeyType
    <2>2. CASE Untouched(s)
      BY <2>0, <2>1, <2>2 DEF Untouched, Harmless, IdemKey
    <2>3. CASE Create(s) \/ Handler(s)
      <3>1. GetIdempotency(s) /\ pc[s] = "get"
        BY <2>0, <2>3
        DEF Harmless, Create, Handler, GetIdempotency, Lock, ValidateUser, Attempt,
            AttemptCancelled, Save, SaveFails, CacheResponse, Unlock
      <3>2. pc' = [pc EXCEPT ![s] = "done"] /\ charges' = charges
        BY <2>0, <3>1 DEF Harmless, GetIdempotency, Miss, GoTo, providerVars
      <3> QED
        BY <1>0, <2>0, <3>2 DEF Harmless, TypeInv, TypeOK
    <2>4. CASE Crash
      BY <1>0, <2>0, <2>4 DEF Harmless, Crash, InFlight, Critical, providerVars
    <2> QED
      BY <1>0, <2>2, <2>3, <2>4, Frame DEF TypeInv
  <1>2. CASE s \notin late
    <2>1. Create(s)
      BY <1>2, LateStays
    <2>2. PICK q \in Req : IdemKey(q) = IdemKey(s) /\ AnsweredExecuted(q)
      BY <1>2, LateStays
    <2>3. answer[q] # None /\ answer[q].status = "EXECUTED"
      BY <2>2 DEF AnsweredExecuted, TypeInv, Control
    <2>4. idem[IdemKey(s)] # None
      BY <2>2, <2>3 DEF AnswerInv, AnswerSound
    <2>5. /\ charges'[s] = 0 /\ pc'[s] \in {"get", "done"} /\ idem' = idem
      BY <1>0, <2>1 DEF Create, Control, Before, TypeInv, TypeOK, GoTo, providerVars, redisVars
    <2> QED
      BY <2>4, <2>5 DEF Harmless, IdemKey
  <1> QED
    BY <1>1, <1>2

(***************************************************************************)
(* Once a client has been told EXECUTED, later requests with its key       *)
(* charge nothing.                                                         *)
(***************************************************************************)
THEOREM ReplayIsFree == Spec => []LateNeverCharges
  <1>1. LateInv /\ AnswerInv /\ RowInv /\ TypeInv /\ [Next]_vars => LateInv'
    BY LateStep
  <1>2. LateInv => LateNeverCharges
    BY DEF LateInv, Harmless, LateNeverCharges
  <1> QED
    BY <1>1, <1>2, LateInit, AnswerInvariant, RowInvariant, TypeInvariant, PTL DEF Spec
-----------------------------------------------------------------------------
(***************************************************************************)
(* Purchase implements PaymentLedger, for any number of requests, keys,    *)
(* retries and crashes: every step is a step of the ledger or changes      *)
(* nothing the ledger sees.                                                *)
(***************************************************************************)
Arrived == {q \in Req : pc[q] # "idle"}
KeyOf == [q \in Req |-> IdemKey(q)]

\* All that is known of a reachable state.
LedgerInv == TypeInv /\ RowInv /\ AnswerInv /\ LateInv

LEMMA LedgerInvariant == Spec => []LedgerInv
  <1>1. LateInv /\ AnswerInv /\ RowInv /\ TypeInv /\ [Next]_vars => LateInv'
    BY LateStep
  <1> QED
    BY <1>1, LateInit, AnswerInvariant, RowInvariant, TypeInvariant, PTL DEF Spec, LedgerInv

LEMMA LedgerInit == Init => Ledger!Init
  BY DEF Init, Ledger!Init, Told

\* A step that moves requests neither out of "idle" nor into "done".
Unnoticed ==
    \A q \in Req :
        /\ pc'[q] = "idle" <=> pc[q] = "idle"
        /\ pc'[q] = "done" <=> pc[q] = "done"
        /\ pc[q] = "done" => answer'[q] = answer[q]

LEMMA NothingTold ==
  ASSUME Unnoticed
  PROVE  Told' = Told /\ Arrived' = Arrived
  BY DEF Unnoticed, Told, Arrived

\* A step of r that does not end it.
LEMMA StillOpen ==
  ASSUME TypeOK, NEW r \in Req, pc[r] \notin {"idle", "done"},
         NEW l \in {"get", "lock", "validate", "post", "save", "cache", "unlock"}, GoTo(r, l),
         answer' = answer \/ \E a : Respond(r, a)
  PROVE  Unnoticed
  BY DEF TypeOK, GoTo, EarlyReturn, Respond, Unnoticed

\* A step that ends r and leaves rows and money alone tells its client.
LEMMA Telling ==
  ASSUME TypeOK, TypeInv', AnswerInv', NEW r \in Req,
         pc[r] \notin {"idle", "done"}, GoTo(r, "done"),
         answer' = answer \/ \E a : Respond(r, a),
         UNCHANGED <<charges, rows, events, late>>
  PROVE  Ledger!Next
  <1>1. answer'[r] # None /\ answer'[r] \in Answer /\ pc'[r] = "done"
    BY DEF TypeInv, TypeOK, Control, GoTo
  <1>2. Arrived' = Arrived /\ r \in Arrived /\ Told[r] = None
    BY DEF TypeOK, GoTo, Arrived, Told
  <1>3. Told' = [Told EXCEPT ![r] = answer'[r]]
    BY <1>1 DEF TypeOK, GoTo, EarlyReturn, Respond, Told
  <1>4. /\ answer'[r].code = 201 => rows[answer'[r].tx] = answer'[r].status
                                      /\ IdemKey(answer'[r].tx) = IdemKey(r)
        /\ charges[r] > 0 /\ rows[r] = None => answer'[r].code = 500
    BY <1>1 DEF AnswerInv, AnswerSound, Backed, IdemKey
  <1>5. answer'[r].code = 201 => KeyOf[answer'[r].tx] = KeyOf[r]
    BY <1>1, <1>4, AnswerShape DEF KeyOf
  <1>6. Ledger!Tell(r, answer'[r])
    BY <1>2, <1>3, <1>4, <1>5 DEF Ledger!Tell, Arrived, KeyOf
  <1> QED
    BY <1>1, <1>6 DEF Ledger!Next

LEMMA Arriving ==
  ASSUME LedgerInv, NEW r \in Req, Create(r)
  PROVE  Ledger!Next
  <1> USE DEF LedgerInv, TypeInv, TypeOK
  <1>1. \A q \in Req : Ledger!ToldExecuted(q) <=> AnsweredExecuted(q)
    BY DEF Ledger!ToldExecuted, AnsweredExecuted, Told, Control
  <1>2. late' = IF \E q \in Req : KeyOf[q] = KeyOf[r] /\ Ledger!ToldExecuted(q)
                THEN late \cup {r} ELSE late
    BY <1>1 DEF Create, KeyOf
  <1>3. r \notin Arrived /\ Arrived' = Arrived \cup {r}
    BY DEF Create, GoTo, Arrived
  <1>4. Told' = Told \/ Told' = [Told EXCEPT ![r] = Failure(400)]
    <2>1. pc[r] = "idle"
      BY DEF Create
    <2>2. CASE pc' = [pc EXCEPT ![r] = "get"] /\ answer' = answer
      BY <2>1, <2>2 DEF Told
    <2>3. CASE /\ pc' = [pc EXCEPT ![r] = "done"]
               /\ answer' = [answer EXCEPT ![r] = Failure(400)]
      <3>1. \A q \in Req : Told'[q] = IF q = r THEN Failure(400) ELSE Told[q]
        BY <2>3 DEF Told
      <3>2. Told' = [q \in Req |-> Told'[q]] /\ Told = [q \in Req |-> Told[q]]
        BY DEF Told
      <3> QED
        BY <3>1, <3>2
    <2> QED
      BY <2>2, <2>3 DEF Create, GoTo, EarlyReturn, Respond
  <1>5. Failure(400) \in Answer /\ Failure(400).code = 400
    BY AnswerFacts
  <1>6. UNCHANGED <<charges, rows, events>>
    BY DEF Create, providerVars
  <1>7. Ledger!Arrive(r)
    BY <1>2, <1>3, <1>4, <1>5, <1>6 DEF Ledger!Arrive, Arrived, KeyOf
  <1> QED
    BY <1>7 DEF Ledger!Next

LEMMA Charging ==
  ASSUME LedgerInv, NEW r \in Req, Attempt(r)
  PROVE  [Ledger!Next]_(Ledger!vars)
  <1> USE DEF LedgerInv, TypeInv
  <1>1. pc[r] = "post" /\ (GoTo(r, "post") \/ GoTo(r, "save"))
    BY DEF Attempt
  <1>2. Told' = Told /\ Arrived' = Arrived
    BY <1>1, StillOpen, NothingTold DEF Attempt
  <1>3. PICK p \in Replies : \E c \in Charged(p) : charges' = [charges EXCEPT ![r] = @ + c]
    BY DEF Attempt
  <1>4. PICK c \in {0, 1} : charges' = [charges EXCEPT ![r] = @ + c]
    BY <1>3, ChargedFacts, RepliesAssumption
  <1>5. UNCHANGED <<rows, events, late>>
    BY DEF Attempt
  <1>6. CASE c = 0
    <2>1. charges' = charges
      BY <1>4, <1>6 DEF TypeOK
    <2> QED
      BY <1>2, <1>5, <2>1 DEF Ledger!vars, Arrived
  <1>7. CASE c = 1
    <2>1. r \in Arrived \ late /\ Told[r] = None /\ rows[r] = None
      BY <1>1 DEF Arrived, LateInv, Harmless, Told, RowInv, RowSound, Saved
    <2>2. Ledger!Charge(r)
      BY <1>2, <1>4, <1>5, <1>7, <2>1 DEF Ledger!Charge, Arrived
    <2> QED
      BY <2>2 DEF Ledger!Next
  <1> QED
    BY <1>6, <1>7

LEMMA Booking ==
  ASSUME LedgerInv, NEW r \in Req, Save(r) \/ SaveFails(r)
  PROVE  [Ledger!Next]_(Ledger!vars)
  <1> USE DEF LedgerInv, TypeInv
  <1>1. /\ pc[r] = "save"
        /\ GoTo(r, "cache") \/ GoTo(r, "unlock")
        /\ answer' = answer \/ \E a : Respond(r, a)
    BY DEF Save, SaveFails, EarlyReturn
  <1>2. Told' = Told /\ Arrived' = Arrived
    BY <1>1, StillOpen, NothingTold
  <1>3. UNCHANGED <<charges, events, late>>
    BY DEF Save, SaveFails, providerVars
  <1>4. CASE rows' = rows
    BY <1>2, <1>3, <1>4 DEF Ledger!vars, Arrived
  <1>5. CASE InsertRow(r)
    <2>1. /\ RowStatus(reply[r]) \in Status
          /\ RowStatus(reply[r]) = "EXECUTED" => charges[r] > 0
      BY <1>1, RowStatusFacts DEF Control, RowInv, RowSound
    <2>2. r \in Arrived /\ Told[r] = None /\ rows[r] = None
      BY <1>1 DEF Arrived, Told, RowInv, RowSound, Saved
    <2>3. Ledger!Book(r, RowStatus(reply[r]))
      BY <1>2, <1>3, <1>5, <2>1, <2>2 DEF Ledger!Book, InsertRow, Arrived
    <2> QED
      BY <2>1, <2>3 DEF Ledger!Next
  <1> QED
    BY <1>4, <1>5 DEF Save, SaveFails

(***************************************************************************)
(* The simulation, one case per action.                                    *)
(***************************************************************************)
LEMMA LedgerStep ==
  ASSUME LedgerInv, LedgerInv', [Next]_vars
  PROVE  [Ledger!Next]_(Ledger!vars)
  <1> USE DEF LedgerInv, TypeInv
  <1>0. ASSUME Unnoticed, UNCHANGED <<charges, rows, events, late>>
        PROVE  UNCHANGED Ledger!vars
    BY <1>0, NothingTold DEF Ledger!vars, Arrived
  <1>1. ASSUME NEW r \in Req, Create(r) PROVE Ledger!Next
    BY <1>1, Arriving
  <1>2. ASSUME NEW r \in Req, GetIdempotency(r) \/ Lock(r) \/ Unlock(r)
        PROVE  [Ledger!Next]_(Ledger!vars)
    <2>1. /\ pc[r] \notin {"idle", "done"}
          /\ \E l \in {"lock", "validate", "done"} : GoTo(r, l)
          /\ answer' = answer \/ \E a : Respond(r, a)
          /\ UNCHANGED <<charges, rows, events, late>>
      BY <1>2 DEF GetIdempotency, Lock, Unlock, providerVars
    <2>2. CASE GoTo(r, "done")
      BY <2>1, <2>2, Telling
    <2>3. CASE GoTo(r, "lock") \/ GoTo(r, "validate")
      BY <1>0, <2>1, <2>3, StillOpen
    <2> QED
      BY <2>1, <2>2, <2>3
  <1>3. ASSUME NEW r \in Req, ValidateUser(r) \/ AttemptCancelled(r) \/ CacheResponse(r)
        PROVE  UNCHANGED Ledger!vars
    <2>1. /\ pc[r] \notin {"idle", "done"}
          /\ \E l \in {"post", "unlock", "save"} : GoTo(r, l)
          /\ answer' = answer \/ \E a : Respond(r, a)
          /\ UNCHANGED <<charges, rows, events, late>>
      BY <1>3 DEF ValidateUser, AttemptCancelled, CacheResponse, EarlyReturn, providerVars
    <2> QED
      BY <1>0, <2>1, StillOpen
  <1>4. ASSUME NEW r \in Req, Attempt(r) PROVE [Ledger!Next]_(Ledger!vars)
    BY <1>4, Charging
  <1>5. ASSUME NEW r \in Req, Save(r) \/ SaveFails(r) PROVE [Ledger!Next]_(Ledger!vars)
    BY <1>5, Booking
  <1>6. ASSUME NEW r \in Req, PublishEvent(r) PROVE [Ledger!Next]_(Ledger!vars)
    <2>1. UNCHANGED <<charges, rows, late, pc, answer>>
      BY <1>6 DEF PublishEvent, providerVars
    <2>2. Told' = Told /\ Arrived' = Arrived
      BY <2>1 DEF Told, Arrived
    <2>3. CASE events' = events
      BY <2>1, <2>2, <2>3 DEF Ledger!vars, Arrived
    <2>4. CASE events' = events \cup {r}
      <3>1. rows[r] = "EXECUTED"
        BY <1>6 DEF PublishEvent, RowInv, RowSound
      <3>2. Ledger!Notify(r)
        BY <2>1, <2>2, <2>4, <3>1 DEF Ledger!Notify, Arrived
      <3> QED
        BY <3>2 DEF Ledger!Next
    <2> QED
      BY <1>6, <2>3, <2>4 DEF PublishEvent
  <1>7. ASSUME NEW r \in Req, BumpVersion(r) \/ Cancel(r) PROVE UNCHANGED Ledger!vars
    BY <1>0, <1>7 DEF BumpVersion, Cancel, Unnoticed, providerVars
  <1>8. ASSUME NEW k \in AnyKey, LockExpires(k) PROVE UNCHANGED Ledger!vars
    BY <1>0, <1>8 DEF LockExpires, Unnoticed, providerVars
  <1>9. ASSUME Crash PROVE UNCHANGED Ledger!vars
    BY <1>0, <1>9 DEF Crash, Unnoticed, TypeOK, InFlight, Critical, providerVars
  <1>10. CASE UNCHANGED vars
    BY <1>0, <1>10 DEF vars, Unnoticed
  <1> QED
    BY <1>1, <1>2, <1>3, <1>4, <1>5, <1>6, <1>7, <1>8, <1>9, <1>10
    DEF Next, Handler, Background

(***************************************************************************)
(* Purchase keeps every promise of PaymentLedger, whatever fails, races or *)
(* crashes.                                                                *)
(***************************************************************************)
THEOREM LedgerKept == Spec => ImplementsLedger
  <1>1. LedgerInv /\ LedgerInv' /\ [Next]_vars => [Ledger!Next]_(Ledger!vars)
    BY LedgerStep
  <1> QED
    BY <1>1, LedgerInit, LedgerInvariant, PTL DEF Spec, ImplementsLedger, Ledger!Spec
=============================================================================
