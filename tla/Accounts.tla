------------------------------ MODULE Accounts ------------------------------
(***************************************************************************)
(* The users service: SignupUseCase, LoginUseCase and GetUseCase over the  *)
(* table of users, for concurrent requests.  Sign-up looks the email up    *)
(* and inserts later, and no index makes an email unique: entities.go:14   *)
(* declares none.                                                          *)
(*                                                                         *)
(* The id of a user is a fresh uuid, so that the row of a sign-up is named *)
(* by the sign-up, and a token by the row it names.                        *)
(***************************************************************************)
EXTENDS Naturals

CONSTANTS
    Signup, Login, Me,   \* requests: POST /auth/signup, POST /auth/login, GET /users/me
    Email, EmailOf,
    Password, PasswordOf,\* as much of a password as bcrypt reads
    None

Request == Signup \cup Login \cup Me

ASSUME AccountsAssumption ==
    /\ Signup \cap Login = {} /\ Signup \cap Me = {} /\ Login \cap Me = {}
    /\ None \notin Request
    /\ EmailOf \in [Signup \cup Login -> Email]
    /\ PasswordOf \in [Signup \cup Login -> Password]

VARIABLES
    pc,      \* per request: "idle", "read", "insert", "done", "dead"
    rows,    \* the rows of the table
    token,   \* per request: the user of the token a Me request presents
    answer,  \* per request: its status code and the user in it
    before,  \* history: the rows there were when a request arrived
    blind    \* history: requests a database call of which failed

vars == <<pc, rows, token, answer, before, blind>>

Answer(code, user) == [code |-> code, user |-> user]

Init ==
    /\ pc = [r \in Request |-> "idle"]
    /\ rows = {}
    /\ token = [r \in Request |-> None]
    /\ answer = [r \in Request |-> None]
    /\ before = [r \in Request |-> {}]
    /\ blind = {}

Respond(r, code, user) ==
    /\ pc' = [pc EXCEPT ![r] = "done"]
    /\ answer' = [answer EXCEPT ![r] = Answer(code, user)]

Answered(q, codes) ==
    /\ answer[q] # None
    /\ answer[q].code \in codes

HasToken(q) == Answered(q, {200, 201})

\* A request arrives.  NewJWTAuth lets GET /users/me in with a token only.
Arrive(r) ==
    /\ pc[r] = "idle"
    /\ pc' = [pc EXCEPT ![r] = "read"]
    /\ before' = [before EXCEPT ![r] = rows]
    /\ IF r \in Me
       THEN \E q \in Signup \cup Login :
                /\ HasToken(q)
                /\ token' = [token EXCEPT ![r] = answer[q].user]
       ELSE UNCHANGED token
    /\ UNCHANGED <<rows, answer, blind>>

\* Bind fails.
BindFails(r) ==
    /\ pc[r] = "read" /\ r \notin Me
    /\ Respond(r, 400, None)
    /\ UNCHANGED <<rows, token, before, blind>>

-----------------------------------------------------------------------------
\* Plausible slip: the SELECT has no condition.
WithAnyEmail(e) == rows

WithEmail(e) == {u \in rows : EmailOf[u] = e}

\* Plausible slip: a look-up that fails counts as one that found nothing.
LookupFailedIgnored(r) ==
    /\ pc' = [pc EXCEPT ![r] = "insert"]
    /\ UNCHANGED answer

LookupFailed(r) == Respond(r, 500, None)

\* bcrypt refuses to hash a password of more than 72 bytes.
NewUser(r) ==
    \/ pc' = [pc EXCEPT ![r] = "insert"] /\ UNCHANGED answer
    \/ Respond(r, 500, None)

\* Signup up to the INSERT.
Lookup(r) ==
    /\ r \in Signup /\ pc[r] = "read"
    /\ \/ /\ WithEmail(EmailOf[r]) # {}
          /\ Respond(r, 400, None)
          /\ UNCHANGED blind
       \/ /\ WithEmail(EmailOf[r]) = {}
          /\ NewUser(r)
          /\ UNCHANGED blind
       \/ /\ blind' = blind \cup {r}
          /\ LookupFailed(r)
    /\ UNCHANGED <<rows, token, before>>

\* Signup from the INSERT on, which may be applied although it fails; signing
\* a token with HS256 and a byte key does not fail.
Create(r) ==
    /\ pc[r] = "insert"
    /\ \/ /\ rows' = rows \cup {r}
          /\ Respond(r, 201, r)
          /\ UNCHANGED blind
       \/ /\ rows' \in {rows, rows \cup {r}}
          /\ Respond(r, 500, None)
          /\ blind' = blind \cup {r}
    /\ UNCHANGED <<token, before>>

-----------------------------------------------------------------------------
\* Plausible slip: the password is not looked at.
CheckPasswordAny(u, r) == TRUE

CheckPassword(u, r) == PasswordOf[u] = PasswordOf[r]

\* Plausible slip: a database error is reported as such.
UnauthorizedOr500(r) == IF r \in blind' THEN 500 ELSE 401

Unauthorized(r) == 401

\* LoginUseCase.Login: of several rows of the email the database gives any.
\* A look-up that fails is answered like a wrong password.
LogIn(r) ==
    /\ r \in Login /\ pc[r] = "read"
    /\ \/ /\ UNCHANGED blind
          /\ \E u \in WithEmail(EmailOf[r]) :
                IF CheckPassword(u, r) THEN Respond(r, 200, u)
                ELSE Respond(r, Unauthorized(r), None)
       \/ /\ UNCHANGED blind
          /\ WithEmail(EmailOf[r]) = {}
          /\ Respond(r, Unauthorized(r), None)
       \/ /\ blind' = blind \cup {r}
          /\ Respond(r, Unauthorized(r), None)
    /\ UNCHANGED <<rows, token, before>>

GetByID(id) == rows \cap {id}

\* GetMe and GetByID: whatever goes wrong, the user was not found.
GetMe(r) ==
    /\ r \in Me /\ pc[r] = "read"
    /\ \/ /\ UNCHANGED blind
          /\ \/ \E u \in GetByID(token[r]) : Respond(r, 200, u)
             \/ GetByID(token[r]) = {} /\ Respond(r, 404, None)
       \/ /\ blind' = blind \cup {r}
          /\ Respond(r, 404, None)
    /\ UNCHANGED <<rows, token, before>>

\* The service stops with requests under way; the table stays.
Crash ==
    /\ \E r \in Request : pc[r] \in {"read", "insert"}
    /\ pc' = [r \in Request |-> IF pc[r] \in {"read", "insert"} THEN "dead" ELSE pc[r]]
    /\ UNCHANGED <<rows, token, answer, before, blind>>

Next ==
    \/ Crash
    \/ \E r \in Request :
        Arrive(r) \/ BindFails(r) \/ Lookup(r) \/ Create(r) \/ LogIn(r) \/ GetMe(r)

Spec == Init /\ [][Next]_vars

-----------------------------------------------------------------------------
Codes(r) ==
    CASE r \in Signup -> {201, 400, 500}
      [] r \in Login -> {200, 400, 401}
      [] r \in Me -> {200, 404}

TypeOK ==
    /\ pc \in [Request -> {"idle", "read", "insert", "done", "dead"}]
    /\ rows \subseteq Signup
    /\ token \in [Request -> Signup \cup {None}]
    /\ DOMAIN answer = Request
    /\ \A r \in Request :
        answer[r] # None =>
            /\ answer[r].code \in Codes(r)
            /\ answer[r].user \in Signup \cup {None}
    /\ before \in [Request -> SUBSET Signup]
    /\ blind \subseteq Request

(***************************************************************************)
(* An email gets a second account only from sign-ups that overlap: one     *)
(* that arrives once the email has a row never inserts, whatever calls     *)
(* fail and whether or not the first one was told 201.                     *)
(***************************************************************************)
LateAreRefused ==
    \A r \in rows : \A u \in before[r] : EmailOf[u] # EmailOf[r]

(***************************************************************************)
(* A token names a row that is there, of the email it was asked for, whose *)
(* password its holder knew: also when an email has several rows.          *)
(***************************************************************************)
TokenIsOwn ==
    \A r \in Signup \cup Login : HasToken(r) =>
        LET u == answer[r].user IN
        u \in rows /\ EmailOf[u] = EmailOf[r] /\ PasswordOf[u] = PasswordOf[r]

(***************************************************************************)
(* A customer whose row was there when the login arrived is turned away    *)
(* only by a database error, or because the email has another account:     *)
(* two overlapping sign-ups can lock each other out.                       *)
(***************************************************************************)
OwnerGetsIn ==
    \A r \in Login : Answered(r, {401}) =>
        \A u \in before[r] :
            EmailOf[u] = EmailOf[r] /\ PasswordOf[u] = PasswordOf[r] =>
                \/ r \in blind
                \/ \E v \in rows : EmailOf[v] = EmailOf[r] /\ PasswordOf[v] # PasswordOf[r]
=============================================================================
