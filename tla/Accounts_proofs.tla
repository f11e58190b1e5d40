--------------------------- MODULE Accounts_proofs ---------------------------
(***************************************************************************)
(* Theorems about Accounts, for any number of requests, emails and         *)
(* passwords, and any failures.                                            *)
(***************************************************************************)
EXTENDS Accounts, TLAPS

\* What is known of a request under way: nobody was answered yet, the rows
\* it found on arrival are still there, and past its look-up a sign-up found
\* none of its email.
UnderWay ==
    \A r \in Request :
        /\ before[r] \subseteq rows
        /\ pc[r] \in {"idle", "read", "insert"} => answer[r] = None
        /\ pc[r] = "idle" => r \notin rows
        /\ pc[r] = "read" => r \notin rows
        /\ pc[r] = "insert" =>
            /\ r \in Signup
            /\ \A u \in before[r] : EmailOf[u] # EmailOf[r]

Inv == TypeOK /\ UnderWay /\ LateAreRefused /\ TokenIsOwn /\ OwnerGetsIn

LEMMA InitOK == AccountsAssumption /\ Init => Inv
BY DEF AccountsAssumption, Init, Inv, TypeOK, UnderWay, LateAreRefused, TokenIsOwn,
       OwnerGetsIn, HasToken, Answered, Request

\* Answering a request with what the properties ask of an answer.
LEMMA Answering ==
    ASSUME AccountsAssumption, Inv,
           NEW r \in Request, NEW code, NEW user \in Signup \cup {None},
           code \in Codes(r), pc[r] \in {"read", "insert"},
           Respond(r, code, user), UNCHANGED <<token, before>>,
           rows \subseteq rows', rows' \subseteq rows \cup {r},
           r \in rows' => r \in rows \/ pc[r] = "insert",
           blind \subseteq blind', blind' \subseteq Request,
           r \in Signup \cup Login /\ code \in {200, 201} =>
               user \in rows' /\ EmailOf[user] = EmailOf[r] /\ PasswordOf[user] = PasswordOf[r],
           r \in Login /\ code = 401 =>
               \/ r \in blind'
               \/ \A u \in rows : EmailOf[u] = EmailOf[r] /\ PasswordOf[u] = PasswordOf[r] =>
                    \E v \in rows : EmailOf[v] = EmailOf[r] /\ PasswordOf[v] # PasswordOf[r]
    PROVE  Inv'
<1>1. /\ pc' = [pc EXCEPT ![r] = "done"]
      /\ answer' = [answer EXCEPT ![r] = Answer(code, user)]
      /\ Answer(code, user).code = code /\ Answer(code, user).user = user
  BY DEF Respond, Answer
<1>2. TypeOK'
  <2>1. rows' \subseteq Signup
    BY DEF Inv, TypeOK, UnderWay
  <2>2. /\ DOMAIN answer' = Request
        /\ \A q \in Request : answer'[q] # None =>
             answer'[q].code \in Codes(q) /\ answer'[q].user \in Signup \cup {None}
    BY <1>1 DEF Inv, TypeOK
  <2> QED
    BY <1>1, <2>1, <2>2 DEF Inv, TypeOK
<1>3. UnderWay'
  BY <1>1 DEF Inv, TypeOK, UnderWay
<1>4. LateAreRefused'
  BY DEF Inv, LateAreRefused, UnderWay
<1>5. TokenIsOwn'
  <2> SUFFICES ASSUME NEW q \in Signup \cup Login, HasToken(q)'
               PROVE  LET u == answer'[q].user IN
                        /\ u \in rows' /\ EmailOf[u] = EmailOf[q]
                        /\ PasswordOf[u] = PasswordOf[q]
    BY DEF TokenIsOwn
  <2>1. CASE q = r
    BY <1>1, <2>1 DEF HasToken, Answered, Inv, TypeOK
  <2>2. CASE q # r
    <3>1. answer'[q] = answer[q]
      BY <1>1, <2>2 DEF Inv, TypeOK, Request
    <3> QED
      BY <3>1 DEF HasToken, Answered, Inv, TokenIsOwn
  <2> QED
    BY <2>1, <2>2
<1>6. OwnerGetsIn'
  <2> SUFFICES ASSUME NEW q \in Login, Answered(q, {401})', NEW u \in before[q],
                      EmailOf[u] = EmailOf[q], PasswordOf[u] = PasswordOf[q],
                      q \notin blind'
               PROVE  \E v \in rows' : EmailOf[v] = EmailOf[q] /\ PasswordOf[v] # PasswordOf[q]
    BY DEF OwnerGetsIn, Answered
  <2>1. CASE q = r
    <3>1. code = 401 /\ u \in rows
      BY <1>1, <2>1 DEF Inv, TypeOK, UnderWay, Answered
    <3> QED
      BY <2>1, <3>1
  <2>2. CASE q # r
    <3>1. Answered(q, {401})
      BY <1>1, <2>2 DEF Inv, TypeOK, Request, Answered
    <3> QED
      BY <3>1 DEF Inv, OwnerGetsIn
  <2> QED
    BY <2>1, <2>2
<1> QED
  BY <1>2, <1>3, <1>4, <1>5, <1>6 DEF Inv

\* Steps that answer nobody and insert nothing.
LEMMA Silent ==
    ASSUME Inv, UNCHANGED <<rows, answer>>, TypeOK', UnderWay',
           blind \subseteq blind',
           \A q \in Request : answer[q] # None \/ q \in rows => before'[q] = before[q]
    PROVE  Inv'
<1>1. LateAreRefused'
  BY DEF Inv, TypeOK, LateAreRefused, Request
<1>2. TokenIsOwn'
  BY DEF Inv, TokenIsOwn, HasToken, Answered
<1>3. OwnerGetsIn'
  <2> SUFFICES ASSUME NEW q \in Login, Answered(q, {401}), NEW u \in before'[q],
                      EmailOf[u] = EmailOf[q], PasswordOf[u] = PasswordOf[q],
                      q \notin blind'
               PROVE  \E v \in rows : EmailOf[v] = EmailOf[q] /\ PasswordOf[v] # PasswordOf[q]
    BY DEF OwnerGetsIn, Answered
  <2>1. before'[q] = before[q]
    BY DEF Answered, Request
  <2> QED
    BY <2>1 DEF Inv, OwnerGetsIn
<1> QED
  BY <1>1, <1>2, <1>3 DEF Inv

LEMMA Step == AccountsAssumption /\ Inv /\ [Next]_vars => Inv'
<1> SUFFICES ASSUME AccountsAssumption, Inv, [Next]_vars
             PROVE  Inv'
  OBVIOUS
<1> USE DEF Request
<1>1. ASSUME NEW r \in Request, Arrive(r) PROVE Inv'
  <2>1. /\ pc[r] = "idle" /\ pc' = [pc EXCEPT ![r] = "read"]
        /\ before' = [before EXCEPT ![r] = rows]
        /\ UNCHANGED <<rows, answer, blind>>
    BY <1>1 DEF Arrive
  <2>2. token' \in [Request -> Signup \cup {None}]
    BY <1>1 DEF Arrive, HasToken, Answered, Inv, TypeOK
  <2>3. TypeOK'
    BY <2>1, <2>2 DEF Inv, TypeOK
  <2>4. UnderWay'
    BY <2>1 DEF Inv, TypeOK, UnderWay
  <2>5. answer[r] = None /\ r \notin rows
    BY <2>1 DEF Inv, UnderWay
  <2>6. \A q \in Request : answer[q] # None \/ q \in rows => before'[q] = before[q]
    BY <2>1, <2>5 DEF Inv, TypeOK
  <2> QED
    BY <2>1, <2>3, <2>4, <2>6, Silent
<1>2. ASSUME NEW r \in Request, BindFails(r) PROVE Inv'
  <2>1. 400 \in Codes(r)
    BY <1>2 DEF BindFails, Codes, AccountsAssumption
  <2> QED
    BY <1>2, <2>1, Answering DEF BindFails, Inv, TypeOK
<1>3. ASSUME NEW r \in Request, Lookup(r) PROVE Inv'
  <2>1. r \in Signup /\ pc[r] = "read" /\ UNCHANGED <<rows, token, before>>
    BY <1>3 DEF Lookup
  <2>2. 400 \in Codes(r) /\ 500 \in Codes(r) /\ r \notin Login
    BY <2>1 DEF Codes, AccountsAssumption
  <2>3. CASE Respond(r, 400, None) /\ UNCHANGED blind
    BY <2>1, <2>2, <2>3, Answering DEF Inv, TypeOK
  <2>4. CASE Respond(r, 500, None) /\ (blind' = blind \/ blind' = blind \cup {r})
    BY <2>1, <2>2, <2>4, Answering DEF Inv, TypeOK
  <2>5. CASE /\ WithEmail(EmailOf[r]) = {}
             /\ pc' = [pc EXCEPT ![r] = "insert"] /\ UNCHANGED <<answer, blind>>
    <3>1. TypeOK'
      BY <2>1, <2>5 DEF Inv, TypeOK
    <3>2. UnderWay'
      BY <2>1, <2>5 DEF Inv, TypeOK, UnderWay, WithEmail
    <3> QED
      BY <2>1, <2>5, <3>1, <3>2, Silent
  <2> QED
    BY <1>3, <2>3, <2>4, <2>5 DEF Lookup, LookupFailed, NewUser
<1>4. ASSUME NEW r \in Request, Create(r) PROVE Inv'
  <2>1. /\ r \in Signup /\ pc[r] = "insert" /\ UNCHANGED <<token, before>>
        /\ r \in Signup \cup {None}
    BY <1>4 DEF Create, Inv, UnderWay
  <2>2. 201 \in Codes(r) /\ 500 \in Codes(r) /\ r \notin Login
    BY <2>1 DEF Codes, AccountsAssumption
  <2>3. CASE rows' = rows \cup {r} /\ Respond(r, 201, r) /\ UNCHANGED blind
    BY <2>1, <2>2, <2>3, Answering DEF Inv, TypeOK
  <2>4. CASE /\ rows' \in {rows, rows \cup {r}}
             /\ Respond(r, 500, None) /\ blind' = blind \cup {r}
    BY <2>1, <2>2, <2>4, Answering DEF Inv, TypeOK
  <2> QED
    BY <1>4, <2>3, <2>4 DEF Create
<1>5. ASSUME NEW r \in Request, LogIn(r) PROVE Inv'
  <2>1. r \in Login /\ pc[r] = "read" /\ UNCHANGED <<rows, token, before>>
    BY <1>5 DEF LogIn
  <2>2. 200 \in Codes(r) /\ 401 \in Codes(r)
    BY <2>1 DEF Codes, AccountsAssumption
  <2>3. ASSUME NEW u \in WithEmail(EmailOf[r]), CheckPassword(u, r),
               Respond(r, 200, u), UNCHANGED blind
        PROVE  Inv'
    <3>1. u \in rows /\ EmailOf[u] = EmailOf[r] /\ PasswordOf[u] = PasswordOf[r]
      BY <2>3 DEF WithEmail, CheckPassword
    <3> QED
      BY <2>1, <2>2, <2>3, <3>1, Answering DEF Inv, TypeOK
  <2>4. ASSUME NEW u \in WithEmail(EmailOf[r]), ~CheckPassword(u, r),
               Respond(r, 401, None), UNCHANGED blind
        PROVE  Inv'
    <3>1. u \in rows /\ EmailOf[u] = EmailOf[r] /\ PasswordOf[u] # PasswordOf[r]
      BY <2>4 DEF WithEmail, CheckPassword
    <3> QED
      BY <2>1, <2>2, <2>4, <3>1, Answering DEF Inv, TypeOK
  <2>5. CASE WithEmail(EmailOf[r]) = {} /\ Respond(r, 401, None) /\ UNCHANGED blind
    <3>1. \A u \in rows : EmailOf[u] # EmailOf[r]
      BY <2>5 DEF WithEmail
    <3> QED
      BY <2>1, <2>2, <2>5, <3>1, Answering DEF Inv, TypeOK
  <2>6. CASE Respond(r, 401, None) /\ blind' = blind \cup {r}
    BY <2>1, <2>2, <2>6, Answering DEF Inv, TypeOK
  <2> QED
    BY <1>5, <2>3, <2>4, <2>5, <2>6 DEF LogIn, Unauthorized
<1>6. ASSUME NEW r \in Request, GetMe(r) PROVE Inv'
  <2>1. r \in Me /\ pc[r] = "read" /\ UNCHANGED <<rows, token, before>>
    BY <1>6 DEF GetMe
  <2>2. /\ 200 \in Codes(r) /\ 404 \in Codes(r) /\ r \notin Signup \cup Login
        /\ token[r] \in Signup \cup {None}
    BY <2>1 DEF Codes, AccountsAssumption, Inv, TypeOK
  <2>3. CASE Respond(r, 200, token[r]) /\ UNCHANGED blind
    BY <2>1, <2>2, <2>3, Answering DEF Inv, TypeOK
  <2>4. CASE Respond(r, 404, None) /\ (blind' = blind \/ blind' = blind \cup {r})
    BY <2>1, <2>2, <2>4, Answering DEF Inv, TypeOK
  <2> QED
    BY <1>6, <2>3, <2>4 DEF GetMe, GetByID
<1>7. CASE Crash
  <2>1. TypeOK'
    BY <1>7 DEF Crash, Inv, TypeOK
  <2>2. UnderWay'
    BY <1>7 DEF Crash, Inv, TypeOK, UnderWay
  <2> QED
    BY <1>7, <2>1, <2>2, Silent DEF Crash
<1>8. CASE UNCHANGED vars
  BY <1>8 DEF vars, Inv, TypeOK, UnderWay, LateAreRefused, TokenIsOwn, OwnerGetsIn, HasToken, Answered
<1> QED
  BY <1>1, <1>2, <1>3, <1>4, <1>5, <1>6, <1>7, <1>8 DEF Next

\* The invariant holds in every state of the users service.
THEOREM AccountsInductive == Spec => []Inv
<1>1. Init => Inv
  BY InitOK, AccountsAssumption
<1>2. Inv /\ [Next]_vars => Inv'
  BY Step, AccountsAssumption
<1> QED
  BY <1>1, <1>2, PTL DEF Spec

(***************************************************************************)
(* Every variable keeps its type, and no handler answers a code of another *)
(* one.                                                                    *)
(***************************************************************************)
THEOREM AccountsTypeCorrect == Spec => []TypeOK
<1>1. Inv => TypeOK
  BY DEF Inv
<1> QED
  BY <1>1, AccountsInductive, PTL

(***************************************************************************)
(* Only overlapping sign-ups give an email two accounts, for any number of *)
(* requests and any failures of the database and the service.              *)
(***************************************************************************)
THEOREM SignupChecksOnce == Spec => []LateAreRefused
<1>1. Inv => LateAreRefused
  BY DEF Inv
<1> QED
  BY <1>1, AccountsInductive, PTL

(***************************************************************************)
(* Whoever holds a token knew the password of the row it names.            *)
(***************************************************************************)
THEOREM LoginIsExact == Spec => []TokenIsOwn
<1>1. Inv => TokenIsOwn
  BY DEF Inv
<1> QED
  BY <1>1, AccountsInductive, PTL

(***************************************************************************)
(* Whoever knows the password of the only row of an email is let in, but   *)
(* for an error of the database.                                           *)
(***************************************************************************)
THEOREM OwnersGetIn == Spec => []OwnerGetsIn
<1>1. Inv => OwnerGetsIn
  BY DEF Inv
<1> QED
  BY <1>1, AccountsInductive, PTL
=============================================================================
