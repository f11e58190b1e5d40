----------------------------- MODULE Reconciler -----------------------------
(***************************************************************************)
(* The crons service: every minute RetryPendingTransactions reads at most  *)
(* Limit PENDING rows, newest first, posts each to the provider again and  *)
(* PATCHes the verdict into the transactions service, whose UpdateStatus   *)
(* handler rewrites the row, drops a list version and publishes an event.  *)
(*                                                                         *)
(* Rows come from Purchase (see there): here they just appear.  One crons  *)
(* process runs, and a cycle's context (20 s) ends before the next cycle   *)
(* starts (60 s), so cycles never overlap; what a cycle leaves in the      *)
(* network does.                                                           *)
(***************************************************************************)
EXTENDS ProviderCall, FiniteSets

CONSTANTS
    Tx,          \* transaction ids
    Account,     \* account ids
    None,        \* an absent value or an empty string
    AccountOf,   \* AccountOf[t]: the account t is inserted with, or None
    Limit,       \* rows fetched in a cycle (100 in the code)
    Replies,     \* the provider answers considered
    MaxCharges,  \* bound on the charges of one transaction
    MaxFaults    \* bound on expired contexts, failed listings and restarts

ASSUME AccountOfAssumption == AccountOf \in [Tx -> Account \cup {None}]
ASSUME FiniteAssumption == IsFiniteSet(Tx)
ASSUME CycleAssumption ==
    Limit \in Nat \ {0} /\ MaxCharges \in Nat \ {0} /\ MaxFaults \in Nat
ASSUME CronRepliesAssumption == Replies \subseteq Reply
ASSUME CronNoneAssumption == None \notin Tx \cup Account \cup Reply \cup Status

VARIABLES
    rows,      \* Postgres: the status of each row, or None
    created,   \* created_at as a rank; 0 once an UPDATE has zeroed it
    charges,   \* times the provider moved money for each transaction
    versions,  \* Redis: accounts that have a list version
    events,    \* ids in the TransactionCompletedEvents UpdateStatus published
    pc,        \* crons: "idle", "next" transaction, "wait" for its PATCH
    todo,      \* the fetched rows not yet processed
    expired,   \* the cycle's context is done
    heard,     \* the last answer the provider gave crons for each transaction
    patches,   \* PATCH requests in the network or in their handler
    faults     \* history: faults so far

rowVars  == <<rows, created>>
cronVars == <<pc, todo, expired>>
vars == <<rowVars, charges, versions, events, cronVars, heard, patches, faults>>

\* A PATCH, the row its handler found with the account in it, and its progress.
Patch == [tx : Tx, status : {"EXECUTED", "REJECTED"},
          found : Tx \cup {None}, account : Account \cup {None},
          at : {"network", "found", "updated"}, old : BOOLEAN]

Settled(t) == rows[t] \notin {None, "PENDING"}

Init ==
    /\ rows = [t \in Tx |-> None]
    /\ created = [t \in Tx |-> 0]
    /\ charges = [t \in Tx |-> 0]
    /\ versions = {}
    /\ events = {}
    /\ pc = "idle" /\ todo = {} /\ expired = FALSE
    /\ heard = [t \in Tx |-> None]
    /\ patches = {}
    /\ faults = 0

-----------------------------------------------------------------------------
(***************************************************************************)
(* Purchase inserts a row.  An unsettled row may have been paid for: a     *)
(* timeout does not tell.                                                  *)
(***************************************************************************)
Insert(t) ==
    /\ rows[t] = None
    /\ \E p \in Replies :
        /\ rows' = [rows EXCEPT ![t] = RowStatus(p)]
        /\ \E c \in Charged(p) : charges' = [charges EXCEPT ![t] = c]
    /\ created' = [created EXCEPT ![t] = 1 + Cardinality({u \in Tx : rows[u] # None})]
    /\ versions' = versions \cup ({AccountOf[t]} \ {None}) \/ UNCHANGED versions
    /\ UNCHANGED <<events, cronVars, heard, patches, faults>>

\* Plausible slip: the status filter is left out of the listing.
ListableAny(t) == rows[t] # None

Listable(t) == rows[t] = "PENDING"

\* Plausible slip: the last row of a page is dropped.
NewestButOne(n) ==
    {t \in Tx : Listable(t)
                /\ Cardinality({u \in Tx : Listable(u) /\ created[u] >= created[t]}) < n}

\* ORDER BY created_at DESC LIMIT n, the answer of GET /internal/transactions.
Newest(n) ==
    {t \in Tx : Listable(t)
                /\ Cardinality({u \in Tx : Listable(u) /\ created[u] > created[t]}) < n}

(***************************************************************************)
(* A cycle starts.  Forty seconds or more after the end of the last one no *)
(* handler is left of it: its client is gone and its context cancelled.    *)
(* Messages may be left, but their signatures have aged.                   *)
(***************************************************************************)
StartCycle ==
    /\ pc = "idle"
    /\ \A p \in patches : p.at = "network"
    /\ \/ /\ todo' = Newest(Limit)
          /\ pc' = "next"
          /\ UNCHANGED faults
       \/ /\ faults < MaxFaults  \* the listing fails
          /\ faults' = faults + 1
          /\ UNCHANGED <<pc, todo>>
    /\ expired' = FALSE
    /\ patches' = {[p EXCEPT !.old = TRUE] : p \in patches}
    /\ UNCHANGED <<rowVars, charges, versions, events, heard>>

(***************************************************************************)
(* The verdict.  Errors are told apart by their text.  All the messages of *)
(* ProviderRepository.Post contain "provider", except that a non-200       *)
(* answer with status REJECTED brings the provider's own words, which may  *)
(* or may not have "provider" or "rejected" in them.                       *)
(***************************************************************************)
Mentions(p) == IF p \in {"rejected4xx", "unavailable"} THEN BOOLEAN ELSE {TRUE}

\* Plausible slip: the error branch does not skip the update.
NewStatusDefault(p, mentioned) ==
    IF PostSucceeds(p) THEN MapProviderStatus(p)
    ELSE IF mentioned THEN "REJECTED" ELSE "FAILED"

NewStatus(p, mentioned) ==
    IF PostSucceeds(p) THEN MapProviderStatus(p)
    ELSE IF mentioned THEN "REJECTED" ELSE "PENDING"

Sent(t, s) == [tx |-> t, status |-> s, found |-> None, account |-> None,
               at |-> "network", old |-> FALSE]

(***************************************************************************)
(* The next row: POST, then the PATCH unless the row is to stay PENDING.   *)
(* The request carries no id by which the provider could recognise it.     *)
(***************************************************************************)
Retry(t) ==
    /\ pc = "next" /\ ~expired
    /\ t \in todo /\ \A u \in todo : created[u] <= created[t]
    /\ \E p \in Replies, m \in BOOLEAN :
        /\ m \in Mentions(p)
        /\ heard' = [heard EXCEPT ![t] = p]
        /\ \E c \in Charged(p) :
            /\ charges[t] + c <= MaxCharges
            /\ charges' = [charges EXCEPT ![t] = @ + c]
        /\ IF NewStatus(p, m) = "PENDING"
           THEN /\ todo' = todo \ {t}
                /\ UNCHANGED <<pc, patches>>
           ELSE /\ patches' = patches \cup {Sent(t, NewStatus(p, m))}
                /\ pc' = "wait"
                /\ UNCHANGED todo
    /\ UNCHANGED <<rowVars, versions, events, expired, faults>>

\* The loop ends.  With the context done the remaining POSTs and PATCHes
\* fail without being sent.
EndCycle ==
    /\ pc = "next"
    /\ todo = {} \/ expired
    /\ pc' = "idle"
    /\ todo' = {}
    /\ UNCHANGED <<rowVars, charges, versions, events, expired, heard, patches, faults>>

Expire ==
    /\ pc # "idle" /\ ~expired
    /\ faults < MaxFaults
    /\ faults' = faults + 1
    /\ expired' = TRUE
    /\ UNCHANGED <<rowVars, charges, versions, events, pc, todo, heard, patches>>

\* Plausible slip: a slow PATCH is left behind while the cycle goes on.
GiveUpEarly ==
    /\ pc = "wait"
    /\ pc' = "next"
    /\ UNCHANGED <<rowVars, charges, versions, events, todo, expired, heard, patches, faults>>

\* crons stops waiting for a PATCH; the request may still arrive.
GiveUp ==
    /\ pc = "wait" /\ expired
    /\ pc' = "next"
    /\ UNCHANGED <<rowVars, charges, versions, events, todo, expired, heard, patches, faults>>

\* crons is killed and started again; its first cycle is a minute away.
Restart ==
    /\ pc # "idle"
    /\ faults < MaxFaults
    /\ faults' = faults + 1
    /\ pc' = "idle"
    /\ todo' = {}
    /\ UNCHANGED <<rowVars, charges, versions, events, expired, heard, patches>>

-----------------------------------------------------------------------------
\* The answer to p reaches crons, if crons still waits for it.
Answered(p) ==
    IF pc = "wait" /\ ~p.old /\ p.tx \in todo
    THEN pc' = "next" /\ todo' = todo \ {p.tx}
    ELSE UNCHANGED <<pc, todo>>

\* Plausible slip: the verifier does not look at the age of the timestamp.
FreshAlways(p) == TRUE

Fresh(p) == ~p.old

\* An UPDATE has emptied the account of a row it zeroed.
AccountNow(u) == IF created[u] = 0 THEN None ELSE AccountOf[u]

(***************************************************************************)
(* Sigil lets a PATCH in for 30 seconds.  UpdateStatus then looks the row  *)
(* up, but FindAll has no condition on the id: it finds the newest row of  *)
(* the table, whichever it is.                                             *)
(***************************************************************************)
Find(p) ==
    /\ p.at = "network"
    /\ Fresh(p)
    /\ \E u \in Tx :
        /\ rows[u] # None
        /\ \A v \in Tx : rows[v] # None => created[v] <= created[u]
        /\ patches' = (patches \ {p}) \cup
               {[p EXCEPT !.at = "found", !.found = u, !.account = AccountNow(u)]}
    /\ UNCHANGED <<rowVars, charges, versions, events, cronVars, heard, faults>>

(***************************************************************************)
(* UPDATE by primary key of a model that carries an id and a status only:  *)
(* every other column, created_at included, is set to its zero value.  The *)
(* status the row had is not looked at.                                    *)
(***************************************************************************)
Update(p) ==
    /\ p.at = "found"
    /\ rows' = [rows EXCEPT ![p.tx] = p.status]
    /\ created' = [created EXCEPT ![p.tx] = 0]
    /\ patches' = (patches \ {p}) \cup {[p EXCEPT !.at = "updated"]}
    /\ UNCHANGED <<charges, versions, events, cronVars, heard, faults>>

\* DEL of the found row's list version and, for an execution, an event about
\* the found row.  Errors of both are ignored.
Notify(p) ==
    /\ p.at = "updated"
    /\ versions' = versions \ {p.account} \/ UNCHANGED versions
    /\ \/ p.status = "EXECUTED" /\ events' = events \cup {p.found}
       \/ UNCHANGED events
    /\ patches' = patches \ {p}
    /\ Answered(p)
    /\ UNCHANGED <<rowVars, charges, expired, heard, faults>>

\* The PATCH is lost or refused, or its handler fails or dies, or only the
\* acknowledgement of its UPDATE is lost: crons sees an error and goes on.
Fail(p) ==
    /\ patches' = patches \ {p}
    /\ \/ UNCHANGED rowVars
       \/ /\ p.at = "found"
          /\ rows' = [rows EXCEPT ![p.tx] = p.status]
          /\ created' = [created EXCEPT ![p.tx] = 0]
    /\ Answered(p)
    /\ UNCHANGED <<charges, versions, events, expired, heard, faults>>

Cron == StartCycle \/ EndCycle \/ GiveUp \/ \E t \in Tx : Retry(t)

UpdateStatus(p) == Find(p) \/ Update(p) \/ Notify(p) \/ Fail(p)

Next ==
    \/ Cron \/ Expire \/ Restart
    \/ \E t \in Tx : Insert(t)
    \/ \E p \in patches : UpdateStatus(p)

Spec == Init /\ [][Next]_vars

\* The scheduler fires every minute, Go runs what is runnable, and every
\* exchange ends, by an answer or by an error.
FairSpec ==
    Spec /\ WF_vars(Cron) /\ WF_vars(\E p \in patches : UpdateStatus(p))

-----------------------------------------------------------------------------
TypeOK ==
    /\ rows \in [Tx -> Status \cup {None}]
    /\ created \in [Tx -> 0 .. Cardinality(Tx)]
    /\ charges \in [Tx -> 0 .. MaxCharges]
    /\ versions \subseteq Account
    /\ events \subseteq Tx
    /\ pc \in {"idle", "next", "wait"}
    /\ todo \subseteq Tx
    /\ expired \in BOOLEAN
    /\ heard \in [Tx -> Reply \cup {None}]
    /\ patches \subseteq Patch
    /\ faults \in 0 .. MaxFaults

(***************************************************************************)
(* No EXECUTED without money: by whichever way a row got there, by the     *)
(* purchase or by a verdict that was posted, delayed or refused, the       *)
(* provider has charged for it.                                            *)
(***************************************************************************)
ExecutedWasCharged == \A t \in Tx : rows[t] = "EXECUTED" => charges[t] > 0

(***************************************************************************)
(* A row that has left PENDING keeps its status, although UpdateStatus     *)
(* overwrites it unseen: no verdict of one cycle arrives in another.       *)
(***************************************************************************)
SettledStays == [][\A t \in Tx : Settled(t) => rows'[t] = rows[t]]_vars

(***************************************************************************)
(* crons charges nobody for a transaction that is settled: its list of     *)
(* PENDING rows, read once per cycle, is never out of date when it gets to *)
(* a row.                                                                  *)
(***************************************************************************)
SettledNotCharged == [][\A t \in Tx : Settled(t) => charges'[t] = charges[t]]_vars

(***************************************************************************)
(* Nobody is charged while a verdict about the same transaction can still  *)
(* arrive: a second charge takes a first whose outcome the provider never  *)
(* told, or whose PATCH has failed or come too late for Sigil (retry.go:83 *)
(* posts whatever is PENDING, without an id the provider could recognise). *)
(***************************************************************************)
NoChargeOverVerdict ==
    [][\A t \in Tx : charges'[t] # charges[t] =>
            \A p \in patches : p.tx = t => p.old]_vars

(***************************************************************************)
(* README.md:19: a PENDING transaction is retried automatically by the     *)
(* worker ("la reintenta automáticamente").                                *)
(***************************************************************************)
Retried ==
    \A t \in Tx : rows[t] = "PENDING" ~> heard[t] # None \/ rows[t] # "PENDING"

(***************************************************************************)
(* README.md:166: a TransactionCompletedEvent is published once "la        *)
(* transacción es confirmada".                                             *)
(***************************************************************************)
EventIsConfirmed == \A t \in events : rows[t] = "EXECUTED"
=============================================================================
