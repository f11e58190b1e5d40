---------------------------- MODULE PaymentLedger ----------------------------
(***************************************************************************)
(* What POST /transactions promises, without Redis, retries, contexts or   *)
(* goroutines: money moves, the transaction is booked, the client is told, *)
(* the world is notified, and each of these only after what it rests on.   *)
(* It promises no more than the code keeps: two overlapping requests under *)
(* one key may both move money.                                            *)
(***************************************************************************)
EXTENDS Naturals

CONSTANTS Req, None, Status, Answer,
          KeyOf  \* KeyOf[r]: the idempotency key of request r

VARIABLES
    money,     \* how often the provider moved money for each request
    book,      \* the status each request is booked with
    told,      \* the answer each client has
    notified,  \* requests an event was published for
    arrived,   \* requests received
    replays    \* requests received after their key's purchase was answered

vars == <<money, book, told, notified, arrived, replays>>

Init ==
    /\ money = [r \in Req |-> 0]
    /\ book = [r \in Req |-> None]
    /\ told = [r \in Req |-> None]
    /\ notified = {}
    /\ arrived = {}
    /\ replays = {}

\* The client of q was told that its purchase was executed.
ToldExecuted(q) == told[q] # None /\ told[q].status = "EXECUTED"

\* A request arrives, and may be turned away at once.
Arrive(r) ==
    /\ r \notin arrived
    /\ arrived' = arrived \cup {r}
    /\ replays' = IF \E q \in Req : KeyOf[q] = KeyOf[r] /\ ToldExecuted(q)
                  THEN replays \cup {r} ELSE replays
    /\ \/ told' = told
       \/ \E a \in Answer : a.code = 400 /\ told' = [told EXCEPT ![r] = a]
    /\ UNCHANGED <<money, book, notified>>

\* Money moves only for an open request that is not a replay.
Charge(r) ==
    /\ r \in arrived \ replays
    /\ told[r] = None /\ book[r] = None
    /\ money' = [money EXCEPT ![r] = @ + 1]
    /\ UNCHANGED <<book, told, notified, arrived, replays>>

\* A request is booked once, before its client is told; EXECUTED was paid for.
Book(r, s) ==
    /\ r \in arrived
    /\ told[r] = None /\ book[r] = None
    /\ s = "EXECUTED" => money[r] > 0
    /\ book' = [book EXCEPT ![r] = s]
    /\ UNCHANGED <<money, told, notified, arrived, replays>>

\* A client is told once: of a booking under its key, or of an error, which
\* is 500 when money moved and nothing was booked.
Tell(r, a) ==
    /\ r \in arrived
    /\ told[r] = None
    /\ a.code = 201 => book[a.tx] = a.status /\ KeyOf[a.tx] = KeyOf[r]
    /\ money[r] > 0 /\ book[r] = None => a.code = 500
    /\ told' = [told EXCEPT ![r] = a]
    /\ UNCHANGED <<money, book, notified, arrived, replays>>

Notify(r) ==
    /\ book[r] = "EXECUTED"
    /\ notified' = notified \cup {r}
    /\ UNCHANGED <<money, book, told, arrived, replays>>

Next ==
    \E r \in Req :
        \/ Arrive(r) \/ Charge(r) \/ Notify(r)
        \/ \E s \in Status : Book(r, s)
        \/ \E a \in Answer : Tell(r, a)

Spec == Init /\ [][Next]_vars
=============================================================================
