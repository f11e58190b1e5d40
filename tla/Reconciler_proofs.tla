-------------------------- MODULE Reconciler_proofs --------------------------
(***************************************************************************)
(* The safety of Reconciler, for any number of rows, any page size and any *)
(* number of faults.  The invariant says where a verdict can be: a fresh   *)
(* PATCH that has not reached its row finds it PENDING and alone, and the  *)
(* rows crons has still to post are PENDING and have no verdict under way. *)
(***************************************************************************)
EXTENDS Reconciler, FiniteSetTheorems, TLAPS

\* A verdict that may still change its row.
Active(p) == ~p.old /\ p.at \in {"network", "found"}

\* A row that no fresh verdict is about.
Waiting(t) == rows[t] = "PENDING" /\ \A p \in patches : p.old \/ p.tx # t

OldInNetwork == \A p \in patches : p.old => p.at = "network"

ActiveIsPending == \A p \in patches : Active(p) => rows[p.tx] = "PENDING"

OneVerdict == \A p, q \in patches : ~p.old /\ ~q.old /\ p.tx = q.tx => p = q

TodoWaits ==
    /\ pc = "next" /\ ~expired => \A t \in todo : Waiting(t)
    /\ pc = "wait" => \E h \in Tx : \A t \in todo \ {h} : Waiting(t)

VerdictInv == OldInNetwork /\ ActiveIsPending /\ OneVerdict /\ TodoWaits

\* What an executed row, or a verdict that will make one, was paid with.
PaidInv ==
    /\ ExecutedWasCharged
    /\ \A p \in patches : rows[p.tx] # None /\ (p.status = "EXECUTED" => charges[p.tx] > 0)
    /\ \A t \in todo : rows[t] # None

\* A PATCH whose handler has looked a row up has found one.
FoundRow == \A p \in patches : p.at # "network" => p.found \in Tx

TypeInv == TypeOK /\ FoundRow

-----------------------------------------------------------------------------
LEMMA ReplyFacts ==
  ASSUME NEW p \in Reply
  PROVE  /\ RowStatus(p) \in Status
         /\ RowStatus(p) # None
         /\ RowStatus(p) = "EXECUTED" => p = "approved"
         /\ Charged(p) \subseteq {0, 1}
         /\ p = "approved" => Charged(p) = {1}
         /\ \A m \in BOOLEAN :
                /\ NewStatus(p, m) \in {"EXECUTED", "REJECTED", "PENDING"}
                /\ NewStatus(p, m) = "EXECUTED" => p = "approved"
  BY CronNoneAssumption
  DEF Reply, RowStatus, Status, PostSucceeds, MapProviderStatus, Charged, NewStatus

LEMMA StatusNames == None \notin {"EXECUTED", "REJECTED", "PENDING", "FAILED"}
  BY CronNoneAssumption DEF Status

LEMMA SentFacts ==
  ASSUME NEW t \in Tx, NEW s \in {"EXECUTED", "REJECTED"}
  PROVE  /\ Sent(t, s) \in Patch
         /\ Sent(t, s).tx = t /\ Sent(t, s).status = s
         /\ Sent(t, s).at = "network" /\ ~Sent(t, s).old
  BY DEF Sent, Patch

\* How a PATCH moves on: the row and the verdict stay.
Moved(p, q) ==
    /\ q \in Patch
    /\ q.tx = p.tx /\ q.status = p.status

LEMMA FindMoves ==
  ASSUME TypeOK, NEW p \in patches, Find(p)
  PROVE  /\ ~p.old
         /\ \E q : /\ Moved(p, q) /\ ~q.old /\ q.at = "found" /\ q.found \in Tx
                   /\ patches' = (patches \ {p}) \cup {q}
  <1>1. PICK u \in Tx : patches' = (patches \ {p}) \cup
               {[p EXCEPT !.at = "found", !.found = u, !.account = AccountNow(u)]}
    BY DEF Find
  <1> DEFINE q == [p EXCEPT !.at = "found", !.found = u, !.account = AccountNow(u)]
  <1>2. p \in Patch /\ AccountNow(u) \in Account \cup {None} /\ ~p.old
    BY AccountOfAssumption DEF TypeOK, AccountNow, Find, Fresh
  <1>3. q \in Patch /\ q.tx = p.tx /\ q.status = p.status /\ q.old = p.old
        /\ q.at = "found" /\ q.found = u
    BY <1>2 DEF Patch
  <1> QED
    BY <1>1, <1>2, <1>3 DEF Moved

LEMMA UpdateMoves ==
  ASSUME TypeOK, NEW p \in patches, Update(p)
  PROVE  \E q : /\ Moved(p, q) /\ q.old = p.old /\ q.at = "updated" /\ q.found = p.found
               /\ patches' = (patches \ {p}) \cup {q}
  <1> DEFINE q == [p EXCEPT !.at = "updated"]
  <1>1. q \in Patch /\ q.tx = p.tx /\ q.status = p.status /\ q.old = p.old
        /\ q.at = "updated" /\ q.found = p.found
    BY DEF TypeOK, Patch
  <1> QED
    BY <1>1 DEF Moved, Update

\* At the start of a cycle every PATCH grows old.
LEMMA AgingFacts ==
  ASSUME TypeOK, StartCycle, NEW q \in patches'
  PROVE  /\ q \in Patch /\ q.old /\ q.at = "network"
         /\ \E p \in patches : q.tx = p.tx /\ q.status = p.status
  <1>1. PICK p \in patches : q = [p EXCEPT !.old = TRUE]
    BY DEF StartCycle
  <1>2. p \in Patch /\ p.at = "network"
    BY DEF TypeOK, StartCycle
  <1> QED
    BY <1>1, <1>2 DEF Patch

\* What a POST changes.
LEMMA RetryFacts ==
  ASSUME TypeOK, NEW t \in Tx, Retry(t)
  PROVE  /\ pc = "next" /\ ~expired /\ t \in todo
         /\ UNCHANGED <<rowVars, versions, events, expired, faults>>
         /\ \E p \in Reply : heard' = [heard EXCEPT ![t] = p]
         /\ \E c \in {0, 1} : charges' = [charges EXCEPT ![t] = @ + c] /\ charges[t] + c <= MaxCharges
         /\ \/ UNCHANGED <<pc, patches>> /\ todo' = todo \ {t}
            \/ /\ pc' = "wait" /\ todo' = todo
               /\ \E s \in {"EXECUTED", "REJECTED"} :
                     /\ patches' = patches \cup {Sent(t, s)}
                     /\ s = "EXECUTED" => charges'[t] > 0
  <1>1. PICK p \in Replies, m \in BOOLEAN :
          /\ heard' = [heard EXCEPT ![t] = p]
          /\ \E c \in Charged(p) :
                charges[t] + c <= MaxCharges /\ charges' = [charges EXCEPT ![t] = @ + c]
          /\ IF NewStatus(p, m) = "PENDING"
             THEN todo' = todo \ {t} /\ UNCHANGED <<pc, patches>>
             ELSE /\ patches' = patches \cup {Sent(t, NewStatus(p, m))}
                  /\ pc' = "wait"
                  /\ UNCHANGED todo
    BY DEF Retry
  <1>2. p \in Reply
    BY CronRepliesAssumption
  <1>3. PICK c \in {0, 1} :
          /\ charges[t] + c <= MaxCharges /\ charges' = [charges EXCEPT ![t] = @ + c]
          /\ p = "approved" => c = 1
    BY <1>1, <1>2, ReplyFacts
  <1>4. NewStatus(p, m) = "EXECUTED" => charges'[t] > 0
    <2>1. NewStatus(p, m) = "EXECUTED" => c = 1
      BY <1>2, <1>3, ReplyFacts
    <2>2. charges[t] \in Nat
      BY DEF TypeOK
    <2>3. c = 1 => charges'[t] = charges[t] + 1
      BY <1>3 DEF TypeOK
    <2> QED
      BY <2>1, <2>2, <2>3
  <1>5. NewStatus(p, m) # "PENDING" => NewStatus(p, m) \in {"EXECUTED", "REJECTED"}
    BY <1>2, ReplyFacts
  <1> QED
    BY <1>1, <1>2, <1>3, <1>4, <1>5 DEF Retry

\* What an INSERT changes.
LEMMA InsertFacts ==
  ASSUME TypeOK, NEW t \in Tx, Insert(t)
  PROVE  /\ rows[t] = None
         /\ UNCHANGED <<events, cronVars, heard, patches, faults>>
         /\ \E c \in {0, 1}, s \in Status :
               /\ rows' = [rows EXCEPT ![t] = s]
               /\ charges' = [charges EXCEPT ![t] = c]
               /\ s = "EXECUTED" => c = 1
  <1>1. PICK p \in Replies :
          /\ rows' = [rows EXCEPT ![t] = RowStatus(p)]
          /\ \E c \in Charged(p) : charges' = [charges EXCEPT ![t] = c]
    BY DEF Insert
  <1>2. PICK c \in Charged(p) : charges' = [charges EXCEPT ![t] = c]
    BY <1>1
  <1>3. p \in Reply
    BY CronRepliesAssumption
  <1>4. /\ RowStatus(p) \in Status /\ c \in {0, 1}
        /\ RowStatus(p) = "EXECUTED" => c = 1
    BY <1>2, <1>3, ReplyFacts
  <1>5. rows[t] = None /\ UNCHANGED <<events, cronVars, heard, patches, faults>>
    BY DEF Insert
  <1>6. \E s \in Status : /\ rows' = [rows EXCEPT ![t] = s]
                          /\ s = "EXECUTED" => c = 1
    BY <1>1, <1>4
  <1> QED
    BY <1>2, <1>4, <1>5, <1>6

\* What the end of a PATCH, or of waiting for it, does to the cycle.
LEMMA AnsweredFacts ==
  ASSUME NEW p, Answered(p)
  PROVE  \/ pc = "wait" /\ ~p.old /\ p.tx \in todo /\ pc' = "next" /\ todo' = todo \ {p.tx}
         \/ ~(pc = "wait" /\ ~p.old /\ p.tx \in todo) /\ UNCHANGED <<pc, todo>>
  BY DEF Answered

-----------------------------------------------------------------------------
LEMMA TypeInit == Init => TypeOK
  <1>1. Cardinality(Tx) \in Nat
    BY FiniteAssumption, FS_CardinalityType
  <1>2. 0 \in 0 .. Cardinality(Tx) /\ 0 \in 0 .. MaxCharges /\ 0 \in 0 .. MaxFaults
    BY <1>1, CycleAssumption
  <1> QED
    BY <1>2 DEF Init, TypeOK

LEMMA TypeStep ==
  ASSUME TypeOK, FoundRow, [Next]_vars
  PROVE  TypeOK'
  <1> USE DEF rowVars, cronVars
  <1>0. Cardinality(Tx) \in Nat
    BY FiniteAssumption, FS_CardinalityType
  <1>1. ASSUME NEW t \in Tx, Insert(t) PROVE TypeOK'
    <2> DEFINE Others == {u \in Tx : rows[u] # None}
    <2>1. 1 + Cardinality(Others) \in 0 .. Cardinality(Tx)
      <3>1. IsFiniteSet(Others) /\ Cardinality(Others) \in Nat
        BY FiniteAssumption, FS_Subset, FS_CardinalityType
      <3>2. t \notin Others /\ Others \cup {t} \in SUBSET Tx
        BY <1>1 DEF Insert
      <3>3. Cardinality(Others \cup {t}) = Cardinality(Others) + 1
        BY <3>1, <3>2, FS_AddElement
      <3>4. Cardinality(Others \cup {t}) <= Cardinality(Tx)
        BY <3>2, FiniteAssumption, FS_Subset
      <3> QED
        BY <1>0, <3>1, <3>3, <3>4
    <2>2. created' \in [Tx -> 0 .. Cardinality(Tx)]
      <3>1. created' = [created EXCEPT ![t] = 1 + Cardinality(Others)]
        BY <1>1 DEF Insert
      <3> QED
        BY <2>1, <3>1 DEF TypeOK
    <2>3. rows' \in [Tx -> Status \cup {None}]
      <3>1. PICK s \in Status : rows' = [rows EXCEPT ![t] = s]
        BY <1>1, InsertFacts
      <3> QED
        BY <3>1 DEF TypeOK
    <2>4. charges' \in [Tx -> 0 .. MaxCharges]
      <3>1. PICK c \in {0, 1} : charges' = [charges EXCEPT ![t] = c]
        BY <1>1, InsertFacts
      <3>2. c \in 0 .. MaxCharges
        BY <3>1, CycleAssumption
      <3> QED
        BY <3>1, <3>2 DEF TypeOK
    <2>5. versions' \subseteq Account
      <3>1. {AccountOf[t]} \ {None} \subseteq Account
        BY AccountOfAssumption
      <3>2. versions' = versions \cup ({AccountOf[t]} \ {None}) \/ versions' = versions
        BY <1>1 DEF Insert
      <3> QED
        BY <3>1, <3>2 DEF TypeOK
    <2> QED
      BY <1>1, <2>2, <2>3, <2>4, <2>5, InsertFacts DEF TypeOK
  <1>2. ASSUME StartCycle PROVE TypeOK'
    <2>1. patches' \subseteq Patch
      BY <1>2, AgingFacts
    <2>2. todo' \subseteq Tx /\ pc' \in {"idle", "next", "wait"}
      BY <1>2 DEF StartCycle, Newest, TypeOK
    <2>4. faults' \in 0 .. MaxFaults
      <3>1. faults' = faults \/ (faults < MaxFaults /\ faults' = faults + 1)
        BY <1>2 DEF StartCycle
      <3> QED
        BY <3>1, CycleAssumption DEF TypeOK
    <2>3. expired' = FALSE /\ UNCHANGED <<rowVars, charges, versions, events, heard>>
      BY <1>2 DEF StartCycle
    <2> QED
      BY <2>1, <2>2, <2>3, <2>4 DEF TypeOK
  <1>3. ASSUME NEW t \in Tx, Retry(t) PROVE TypeOK'
    <2>1. charges' \in [Tx -> 0 .. MaxCharges]
      <3>1. PICK c \in {0, 1} :
              charges[t] + c <= MaxCharges /\ charges' = [charges EXCEPT ![t] = @ + c]
        BY <1>3, RetryFacts
      <3>2. charges[t] + c \in 0 .. MaxCharges
        BY <3>1, CycleAssumption DEF TypeOK
      <3> QED
        BY <3>1, <3>2 DEF TypeOK
    <2>2. heard' \in [Tx -> Reply \cup {None}]
      <3>1. PICK q \in Reply : heard' = [heard EXCEPT ![t] = q]
        BY <1>3, RetryFacts
      <3> QED
        BY <3>1 DEF TypeOK
    <2>3. patches' \subseteq Patch /\ todo' \subseteq Tx /\ pc' \in {"idle", "next", "wait"}
      <3>1. CASE UNCHANGED <<pc, patches>> /\ todo' = todo \ {t}
        BY <3>1 DEF TypeOK
      <3>2. CASE /\ pc' = "wait" /\ todo' = todo
                 /\ \E s \in {"EXECUTED", "REJECTED"} : patches' = patches \cup {Sent(t, s)}
        <4>1. PICK s \in {"EXECUTED", "REJECTED"} : patches' = patches \cup {Sent(t, s)}
          BY <3>2
        <4>2. Sent(t, s) \in Patch
          BY SentFacts
        <4> QED
          BY <3>2, <4>1, <4>2 DEF TypeOK
      <3> QED
        BY <1>3, <3>1, <3>2, RetryFacts
    <2> QED
      BY <1>3, <2>1, <2>2, <2>3, RetryFacts DEF TypeOK
  <1>4. ASSUME EndCycle \/ GiveUp \/ Expire \/ Restart PROVE TypeOK'
    <2>1. faults' \in 0 .. MaxFaults
      BY <1>4, CycleAssumption DEF EndCycle, GiveUp, Expire, Restart, TypeOK
    <2>2. todo' \subseteq Tx /\ pc' \in {"idle", "next", "wait"} /\ expired' \in BOOLEAN
      BY <1>4 DEF EndCycle, GiveUp, Expire, Restart, TypeOK
    <2>3. UNCHANGED <<rows, created, charges, versions, events, heard, patches>>
      BY <1>4 DEF EndCycle, GiveUp, Expire, Restart
    <2> QED
      BY <2>1, <2>2, <2>3 DEF TypeOK
  <1>5. ASSUME NEW p \in patches, Find(p) PROVE TypeOK'
    <2>1. patches' \subseteq Patch
      BY <1>5, FindMoves DEF Moved, TypeOK
    <2> QED
      BY <1>5, <2>1 DEF Find, TypeOK
  <1>6. ASSUME NEW p \in patches, Update(p) PROVE TypeOK'
    <2>1. patches' \subseteq Patch
      BY <1>6, UpdateMoves DEF Moved, TypeOK
    <2>2. p.tx \in Tx /\ p.status \in Status
      BY DEF TypeOK, Patch, Status
    <2> QED
      BY <1>0, <1>6, <2>1, <2>2 DEF Update, TypeOK
  <1>7. ASSUME NEW p \in patches, Notify(p) PROVE TypeOK'
    <2>1. p.found \in Tx
      BY <1>7 DEF Notify, FoundRow
    <2>2. todo' \subseteq Tx /\ pc' \in {"idle", "next", "wait"}
      BY <1>7, AnsweredFacts DEF Notify, TypeOK
    <2>3. versions' \subseteq Account /\ events' \subseteq Tx /\ patches' \subseteq Patch
      BY <1>7, <2>1 DEF Notify, TypeOK
    <2> QED
      BY <1>7, <2>2, <2>3 DEF Notify, TypeOK
  <1>8. ASSUME NEW p \in patches, Fail(p) PROVE TypeOK'
    <2>1. p.tx \in Tx /\ p.status \in Status
      BY DEF TypeOK, Patch, Status
    <2>2. todo' \subseteq Tx /\ pc' \in {"idle", "next", "wait"}
      BY <1>8, AnsweredFacts DEF Fail, TypeOK
    <2> QED
      BY <1>0, <1>8, <2>1, <2>2 DEF Fail, TypeOK
  <1>9. CASE UNCHANGED vars
    BY <1>9 DEF vars, TypeOK
  <1> QED
    BY <1>1, <1>2, <1>3, <1>4, <1>5, <1>6, <1>7, <1>8, <1>9 DEF Next, Cron, UpdateStatus

LEMMA FoundStep ==
  ASSUME TypeOK, FoundRow, [Next]_vars
  PROVE  FoundRow'
  <1>1. ASSUME NEW t \in Tx, Insert(t) PROVE FoundRow'
    BY <1>1 DEF Insert, FoundRow
  <1>2. ASSUME StartCycle PROVE FoundRow'
    BY <1>2, AgingFacts DEF FoundRow
  <1>3. ASSUME NEW t \in Tx, Retry(t) PROVE FoundRow'
    <2>1. \/ patches' = patches
          \/ \E s \in {"EXECUTED", "REJECTED"} : patches' = patches \cup {Sent(t, s)}
      BY <1>3, RetryFacts
    <2>2. \A s \in {"EXECUTED", "REJECTED"} : Sent(t, s).at = "network"
      BY SentFacts
    <2> QED
      BY <2>1, <2>2 DEF FoundRow
  <1>4. ASSUME EndCycle \/ GiveUp \/ Expire \/ Restart \/ UNCHANGED vars PROVE FoundRow'
    BY <1>4 DEF EndCycle, GiveUp, Expire, Restart, vars, FoundRow
  <1>5. ASSUME NEW p \in patches, Find(p) \/ Update(p) PROVE FoundRow'
    <2>1. \E q : q.found \in Tx /\ patches' = (patches \ {p}) \cup {q}
      BY <1>5, FindMoves, UpdateMoves DEF FoundRow, Update
    <2> QED
      BY <2>1 DEF FoundRow
  <1>6. ASSUME NEW p \in patches, Notify(p) \/ Fail(p) PROVE FoundRow'
    BY <1>6 DEF Notify, Fail, FoundRow
  <1> QED
    BY <1>1, <1>2, <1>3, <1>4, <1>5, <1>6 DEF Next, Cron, UpdateStatus

LEMMA TypeInvariant == Spec => []TypeInv
  <1>1. Init => FoundRow
    BY DEF Init, FoundRow
  <1>2. TypeInv /\ [Next]_vars => TypeInv'
    BY TypeStep, FoundStep DEF TypeInv
  <1> QED
    BY <1>1, <1>2, TypeInit, PTL DEF Spec, TypeInv

(***************************************************************************)
(* Every variable keeps its type.                                          *)
(***************************************************************************)
THEOREM CronTypeCorrect == Spec => []TypeOK
  <1>1. TypeInv => TypeOK
    BY DEF TypeInv
  <1> QED
    BY <1>1, TypeInvariant, PTL

-----------------------------------------------------------------------------
LEMMA VerdictInit == Init => VerdictInv
  BY DEF Init, VerdictInv, OldInNetwork, ActiveIsPending, OneVerdict, TodoWaits

(***************************************************************************)
(* A verdict is posted about a row that waits for one, arrives in the      *)
(* cycle that posted it or never, and is the only one of its row.          *)
(***************************************************************************)
LEMMA VerdictStep ==
  ASSUME TypeInv, VerdictInv, [Next]_vars
  PROVE  VerdictInv'
  <1> USE DEF TypeInv, VerdictInv, OldInNetwork, ActiveIsPending, OneVerdict, TodoWaits,
              Active, Waiting, rowVars, cronVars
  <1>1. ASSUME NEW t \in Tx, Insert(t) PROVE VerdictInv'
    <2>1. UNCHANGED <<pc, todo, expired, patches>>
      BY <1>1 DEF Insert
    <2>2. \A u \in Tx : rows[u] = "PENDING" => rows'[u] = "PENDING"
      <3>1. rows[t] = None /\ \E s : rows' = [rows EXCEPT ![t] = s]
        BY <1>1 DEF Insert
      <3> QED
        BY <3>1, StatusNames DEF TypeOK
    <2>3. todo \subseteq Tx /\ \A p \in patches : p.tx \in Tx
      BY DEF TypeOK, Patch
    <2> QED
      BY <2>1, <2>2, <2>3
  <1>2. ASSUME StartCycle PROVE VerdictInv'
    <2>1. \A q \in patches' : q.old /\ q.at = "network"
      BY <1>2, AgingFacts
    <2>2. pc' = "next" => \A t \in todo' : rows[t] = "PENDING"
      BY <1>2 DEF StartCycle, Newest, Listable
    <2>3. rows' = rows /\ pc' # "wait"
      BY <1>2 DEF StartCycle
    <2> QED
      BY <2>1, <2>2, <2>3
  <1>3. ASSUME NEW t \in Tx, Retry(t) PROVE VerdictInv'
    <2>1. /\ pc = "next" /\ ~expired /\ t \in todo /\ rows' = rows /\ expired' = expired
          /\ \A u \in todo : Waiting(u)
      BY <1>3, RetryFacts
    <2>2. CASE UNCHANGED <<pc, patches>> /\ todo' = todo \ {t}
      BY <2>1, <2>2
    <2>3. CASE /\ pc' = "wait" /\ todo' = todo
               /\ \E s \in {"EXECUTED", "REJECTED"} : patches' = patches \cup {Sent(t, s)}
      <3>1. PICK s \in {"EXECUTED", "REJECTED"} : patches' = patches \cup {Sent(t, s)}
        BY <2>3
      <3>2. Sent(t, s).tx = t /\ Sent(t, s).at = "network" /\ ~Sent(t, s).old
        BY SentFacts
      <3>3. Waiting(t)
        BY <2>1
      <3>4. OldInNetwork' /\ ActiveIsPending' /\ OneVerdict'
        BY <2>1, <3>1, <3>2, <3>3
      <3>5. \A u \in todo' \ {t} : rows'[u] = "PENDING" /\ \A p \in patches' : p.old \/ p.tx # u
        BY <2>1, <2>3, <3>1, <3>2
      <3> QED
        BY <2>3, <3>4, <3>5
    <2> QED
      BY <1>3, <2>2, <2>3, RetryFacts
  <1>4. ASSUME EndCycle \/ GiveUp \/ Expire \/ Restart \/ UNCHANGED vars PROVE VerdictInv'
    BY <1>4 DEF EndCycle, GiveUp, Expire, Restart, vars
  <1>5. ASSUME NEW p \in patches, Find(p) PROVE VerdictInv'
    <2>1. ~p.old /\ UNCHANGED <<rows, pc, todo, expired>>
      BY <1>5, FindMoves DEF Find
    <2>2. PICK q : /\ q.tx = p.tx /\ ~q.old /\ q.at = "found"
                   /\ patches' = (patches \ {p}) \cup {q}
      BY <1>5, FindMoves DEF Moved
    <2>3. rows[p.tx] = "PENDING"
      BY <1>5, <2>1 DEF Find
    <2>4. OldInNetwork' /\ ActiveIsPending' /\ OneVerdict'
      BY <2>1, <2>2, <2>3
    <2>5. \A u : Waiting(u) => rows'[u] = "PENDING" /\ \A a \in patches' : a.old \/ a.tx # u
      BY <2>1, <2>2
    <2> QED
      BY <2>1, <2>4, <2>5
  <1>6. ASSUME NEW p \in patches, Update(p) PROVE VerdictInv'
    <2>1. ~p.old /\ p.tx \in Tx /\ UNCHANGED <<pc, todo, expired>>
      BY <1>6 DEF Update, TypeOK, Patch
    <2>2. PICK q : /\ q.tx = p.tx /\ ~q.old /\ q.at = "updated"
                   /\ patches' = (patches \ {p}) \cup {q}
      BY <1>6, <2>1, UpdateMoves DEF Moved
    <2>3. \A u : u # p.tx => (u \in Tx => rows'[u] = rows[u])
      BY <1>6 DEF Update, TypeOK
    <2>4. \A a \in patches : a.tx \in Tx
      BY DEF TypeOK, Patch
    <2>5. OldInNetwork' /\ OneVerdict'
      BY <2>1, <2>2
    <2>6. ActiveIsPending'
      BY <2>1, <2>2, <2>3, <2>4
    <2>7. \A u \in Tx : Waiting(u) =>
              rows'[u] = "PENDING" /\ \A a \in patches' : a.old \/ a.tx # u
      BY <2>1, <2>2, <2>3
    <2> QED
      BY <2>1, <2>5, <2>6, <2>7 DEF TypeOK
  <1>7. ASSUME NEW p \in patches, Notify(p) \/ Fail(p) PROVE VerdictInv'
    <2>1. patches' = patches \ {p} /\ expired' = expired /\ Answered(p)
      BY <1>7 DEF Notify, Fail
    <2>2. /\ p.tx \in Tx
          /\ \A a \in patches : a.tx \in Tx
      BY DEF TypeOK, Patch
    <2>3. \/ rows' = rows
          \/ ~p.old /\ \A u \in Tx : u # p.tx => rows'[u] = rows[u]
      BY <1>7 DEF Notify, Fail, TypeOK
    <2>4. OldInNetwork' /\ OneVerdict'
      BY <2>1
    <2>5. ActiveIsPending'
      BY <2>1, <2>2, <2>3
    <2>6. \A u \in Tx : Waiting(u) =>
              rows'[u] = "PENDING" /\ \A a \in patches' : a.old \/ a.tx # u
      BY <2>1, <2>3
    <2>7. TodoWaits'
      <3>1. CASE pc = "wait" /\ ~p.old /\ p.tx \in todo /\ pc' = "next" /\ todo' = todo \ {p.tx}
        <4>1. PICK h \in Tx : \A t \in todo \ {h} : Waiting(t)
          BY <3>1
        <4>2. p.tx = h
          BY <3>1, <4>1
        <4> QED
          BY <2>6, <3>1, <4>1, <4>2 DEF TypeOK
      <3>2. CASE UNCHANGED <<pc, todo>>
        BY <2>1, <2>6, <3>2 DEF TypeOK
      <3> QED
        BY <2>1, <3>1, <3>2, AnsweredFacts
    <2> QED
      BY <2>4, <2>5, <2>7
  <1> QED
    BY <1>1, <1>2, <1>3, <1>4, <1>5, <1>6, <1>7 DEF Next, Cron, UpdateStatus

LEMMA VerdictInvariant == Spec => []VerdictInv
  <1>1. VerdictInv /\ TypeInv /\ [Next]_vars => VerdictInv'
    BY VerdictStep
  <1> QED
    BY <1>1, VerdictInit, TypeInvariant, PTL DEF Spec

(***************************************************************************)
(* A settled row keeps its status: UpdateStatus never meets one.           *)
(***************************************************************************)
THEOREM SettledRowsStay == Spec => SettledStays
  <1>1. ASSUME TypeInv, VerdictInv, [Next]_vars
        PROVE  [\A t \in Tx : Settled(t) => rows'[t] = rows[t]]_vars
    <2> SUFFICES ASSUME NEW t \in Tx, Settled(t), Next PROVE rows'[t] = rows[t]
      BY <1>1
    <2> USE <1>1 DEF TypeInv, VerdictInv
    <2>1. ASSUME NEW u \in Tx, Insert(u) PROVE rows'[t] = rows[t]
      BY <2>1 DEF Insert, Settled, TypeOK
    <2>2. ASSUME Cron \/ Expire \/ Restart PROVE rows'[t] = rows[t]
      BY <2>2 DEF Cron, StartCycle, EndCycle, GiveUp, Retry, Expire, Restart, rowVars
    <2>3. ASSUME NEW p \in patches, Update(p) \/ Fail(p) PROVE rows'[t] = rows[t]
      <3>1. p.at = "found" => rows[p.tx] = "PENDING"
        BY DEF OldInNetwork, ActiveIsPending, Active
      <3>2. \/ rows' = rows
            \/ p.at = "found" /\ rows' = [rows EXCEPT ![p.tx] = p.status]
        BY <2>3 DEF Update, Fail, rowVars
      <3> QED
        BY <3>1, <3>2 DEF Settled, TypeOK
    <2>4. ASSUME NEW p \in patches, Find(p) \/ Notify(p) PROVE rows'[t] = rows[t]
      BY <2>4 DEF Find, Notify, rowVars
    <2> QED
      BY <2>1, <2>2, <2>3, <2>4 DEF Next, UpdateStatus
  <1> QED
    BY <1>1, TypeInvariant, VerdictInvariant, PTL DEF Spec, SettledStays

(***************************************************************************)
(* crons posts no settled row: its list is never out of date.              *)
(***************************************************************************)
THEOREM SettledRowsAreFree == Spec => SettledNotCharged
  <1>1. ASSUME TypeInv, VerdictInv, [Next]_vars
        PROVE  [\A t \in Tx : Settled(t) => charges'[t] = charges[t]]_vars
    <2> SUFFICES ASSUME NEW t \in Tx, Settled(t), Next PROVE charges'[t] = charges[t]
      BY <1>1
    <2> USE <1>1 DEF TypeInv, VerdictInv
    <2>1. ASSUME NEW u \in Tx, Insert(u) PROVE charges'[t] = charges[t]
      <3>1. t # u
        BY <2>1 DEF Insert, Settled
      <3> QED
        BY <2>1, <3>1 DEF Insert, TypeOK
    <2>2. ASSUME NEW u \in Tx, Retry(u) PROVE charges'[t] = charges[t]
      <3>1. rows[u] = "PENDING"
        BY <2>2 DEF Retry, TodoWaits, Waiting
      <3>2. t # u
        BY <3>1 DEF Settled
      <3>3. \E c \in {0, 1} : charges' = [charges EXCEPT ![u] = @ + c]
        BY <2>2, RetryFacts
      <3> QED
        BY <3>2, <3>3 DEF TypeOK
    <2>3. ASSUME StartCycle \/ EndCycle \/ GiveUp \/ Expire \/ Restart
          PROVE  charges'[t] = charges[t]
      BY <2>3 DEF StartCycle, EndCycle, GiveUp, Expire, Restart
    <2>4. ASSUME NEW p \in patches, UpdateStatus(p) PROVE charges'[t] = charges[t]
      BY <2>4 DEF UpdateStatus, Find, Update, Notify, Fail
    <2> QED
      BY <2>1, <2>2, <2>3, <2>4 DEF Next, Cron
  <1> QED
    BY <1>1, TypeInvariant, VerdictInvariant, PTL DEF Spec, SettledNotCharged

-----------------------------------------------------------------------------
LEMMA PaidInit == Init => PaidInv
  BY StatusNames DEF Init, PaidInv, ExecutedWasCharged

LEMMA PaidStep ==
  ASSUME TypeInv, PaidInv, [Next]_vars
  PROVE  PaidInv'
  <1> USE DEF TypeInv, PaidInv, ExecutedWasCharged, rowVars, cronVars
  <1>0. \A p \in patches : p.tx \in Tx /\ p.status \in {"EXECUTED", "REJECTED"}
    BY DEF TypeOK, Patch
  <1>1. ASSUME NEW t \in Tx, Insert(t) PROVE PaidInv'
    <2>1. rows[t] = None /\ UNCHANGED <<todo, patches>>
      BY <1>1, InsertFacts
    <2>2. PICK c \in {0, 1}, s \in Status :
            /\ rows' = [rows EXCEPT ![t] = s]
            /\ charges' = [charges EXCEPT ![t] = c]
            /\ s = "EXECUTED" => c = 1
      BY <1>1, InsertFacts
    <2>3. s # None
      BY CronNoneAssumption
    <2>4. \A u \in Tx : u # t => rows'[u] = rows[u] /\ charges'[u] = charges[u]
      BY <2>2 DEF TypeOK
    <2>5. rows'[t] = s /\ charges'[t] = c
      BY <2>2 DEF TypeOK
    <2>6. \A u \in Tx : rows'[u] = "EXECUTED" => charges'[u] > 0
      BY <2>2, <2>4, <2>5
    <2>7. \A p \in patches : p.tx # t
      BY <2>1
    <2>8. t \notin todo
      BY <2>1
    <2>9. \A p \in patches' : rows'[p.tx] # None /\ (p.status = "EXECUTED" => charges'[p.tx] > 0)
      BY <1>0, <2>1, <2>4, <2>7
    <2>10. \A u \in todo' : rows'[u] # None
      BY <2>1, <2>4, <2>8 DEF TypeOK
    <2> QED
      BY <2>6, <2>9, <2>10
  <1>2. ASSUME StartCycle PROVE PaidInv'
    <2>1. UNCHANGED <<rows, charges>>
      BY <1>2 DEF StartCycle
    <2>2. \A q \in patches' : \E p \in patches : q.tx = p.tx /\ q.status = p.status
      BY <1>2, AgingFacts
    <2>3. \A t \in todo' : rows[t] # None
      BY <1>2, StatusNames DEF StartCycle, Newest, Listable
    <2> QED
      BY <2>1, <2>2, <2>3
  <1>3. ASSUME NEW t \in Tx, Retry(t) PROVE PaidInv'
    <2>1. t \in todo /\ rows' = rows /\ todo' \subseteq todo
      BY <1>3, RetryFacts
    <2>2. PICK c \in {0, 1} : charges' = [charges EXCEPT ![t] = @ + c]
      BY <1>3, RetryFacts
    <2>3. \A u \in Tx : charges[u] > 0 => charges'[u] > 0
      BY <2>2 DEF TypeOK
    <2>4. \/ patches' = patches
          \/ \E s \in {"EXECUTED", "REJECTED"} :
                patches' = patches \cup {Sent(t, s)} /\ (s = "EXECUTED" => charges'[t] > 0)
      BY <1>3, RetryFacts
    <2>5. \A s \in {"EXECUTED", "REJECTED"} : Sent(t, s).tx = t /\ Sent(t, s).status = s
      BY SentFacts
    <2> QED
      BY <1>0, <2>1, <2>3, <2>4, <2>5
  <1>4. ASSUME EndCycle \/ GiveUp \/ Expire \/ Restart \/ UNCHANGED vars PROVE PaidInv'
    BY <1>4 DEF EndCycle, GiveUp, Expire, Restart, vars
  <1>5. ASSUME NEW p \in patches, Find(p) PROVE PaidInv'
    <2>1. UNCHANGED <<rows, charges, todo>>
      BY <1>5 DEF Find
    <2>2. \E q : /\ q.tx = p.tx /\ q.status = p.status
                /\ patches' = (patches \ {p}) \cup {q}
      BY <1>5, FindMoves DEF Moved
    <2> QED
      BY <2>1, <2>2
  <1>6. ASSUME NEW p \in patches, Update(p) \/ Notify(p) \/ Fail(p) PROVE PaidInv'
    <2>1. \/ rows' = rows
          \/ rows' = [rows EXCEPT ![p.tx] = p.status]
      BY <1>6 DEF Update, Notify, Fail
    <2>2. charges' = charges
      BY <1>6 DEF Update, Notify, Fail
    <2>3. todo' \subseteq todo
      BY <1>6, AnsweredFacts DEF Update, Notify, Fail
    <2>4. \A q \in patches' : \E a \in patches : q.tx = a.tx /\ q.status = a.status
      BY <1>6, UpdateMoves DEF Notify, Fail, Moved
    <2>5. \A u \in Tx : rows'[u] = rows[u] \/ (u = p.tx /\ rows'[u] = p.status)
      BY <2>1 DEF TypeOK
    <2>6. p.status # None
      BY <1>0, StatusNames
    <2>7. \A u \in Tx : /\ rows[u] # None => rows'[u] # None
                        /\ rows'[u] = "EXECUTED" => charges[u] > 0
      BY <2>5, <2>6
    <2> QED
      BY <1>0, <2>2, <2>3, <2>4, <2>7 DEF TypeOK
  <1> QED
    BY <1>1, <1>2, <1>3, <1>4, <1>5, <1>6 DEF Next, Cron, UpdateStatus

LEMMA PaidInvariant == Spec => []PaidInv
  <1>1. PaidInv /\ TypeInv /\ [Next]_vars => PaidInv'
    BY PaidStep
  <1> QED
    BY <1>1, PaidInit, TypeInvariant, PTL DEF Spec

(***************************************************************************)
(* Whatever way a row became EXECUTED, the provider has charged for it.    *)
(***************************************************************************)
THEOREM RetriedIsReal == Spec => []ExecutedWasCharged
  <1>1. PaidInv => ExecutedWasCharged
    BY DEF PaidInv
  <1> QED
    BY <1>1, PaidInvariant, PTL

(***************************************************************************)
(* crons posts no row with a verdict under way, for any number of rows,    *)
(* faults and restarts: what is left to post in a cycle waits.             *)
(***************************************************************************)
THEOREM NoVerdictIsOvertaken == Spec => NoChargeOverVerdict
  <1>1. ASSUME TypeInv, VerdictInv, PaidInv, [Next]_vars
        PROVE  [\A t \in Tx : charges'[t] # charges[t] =>
                    \A p \in patches : p.tx = t => p.old]_vars
    <2> SUFFICES ASSUME NEW t \in Tx, charges'[t] # charges[t], Next,
                        NEW p \in patches, p.tx = t
                 PROVE  p.old
      BY <1>1
    <2> USE <1>1 DEF TypeInv, VerdictInv
    <2>1. ASSUME NEW u \in Tx, Insert(u) PROVE p.old
      <3>1. t = u
        BY <2>1, InsertFacts DEF TypeOK
      <3>2. rows[t] = None
        BY <2>1, <3>1 DEF Insert
      <3> QED
        BY <3>2 DEF PaidInv
    <2>2. ASSUME NEW u \in Tx, Retry(u) PROVE p.old
      <3>1. Waiting(u)
        BY <2>2 DEF Retry, TodoWaits
      <3>2. \E c \in {0, 1} : charges' = [charges EXCEPT ![u] = @ + c]
        BY <2>2, RetryFacts
      <3>3. t = u
        BY <3>2 DEF TypeOK
      <3> QED
        BY <3>1, <3>3 DEF Waiting
    <2>3. ASSUME StartCycle \/ EndCycle \/ GiveUp \/ Expire \/ Restart PROVE FALSE
      BY <2>3 DEF StartCycle, EndCycle, GiveUp, Expire, Restart
    <2>4. ASSUME NEW q \in patches, UpdateStatus(q) PROVE FALSE
      BY <2>4 DEF UpdateStatus, Find, Update, Notify, Fail
    <2> QED
      BY <2>1, <2>2, <2>3, <2>4 DEF Next, Cron
  <1> QED
    BY <1>1, TypeInvariant, VerdictInvariant, PaidInvariant, PTL
       DEF Spec, NoChargeOverVerdict
=============================================================================
