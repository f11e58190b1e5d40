------------------------------ MODULE Sessions ------------------------------
(***************************************************************************)
(* opt/guardian: pairs of access and refresh tokens, the session of each   *)
(* access token in Postgres, and the requests that check, open, refresh    *)
(* and close sessions concurrently.                                        *)
(*                                                                         *)
(* A token is a signed JWT: its claims are fixed when it is generated and  *)
(* nobody can make one up.  It is named by its jti, a fresh uuid.  A row   *)
(* of user_sessions repeats the user and the expiry of its access token,   *)
(* so the table is the set of the jtis in it.  Each call of the session    *)
(* store is one SQL statement; its time.Now() is taken before it runs.     *)
(***************************************************************************)
EXTENDS Roles, Naturals

CONSTANTS
    Caller,      \* requests served concurrently
    Jti,         \* token ids
    User, Company,
    None,        \* an absent value
    RoleOf,      \* RoleOf[u]: the role u logs in with
    Required,    \* the guards of the routes
    StaffOf,     \* StaffOf[c]: the users who are active staff of company c
    AccessExpiration, RefreshExpiration,
    MaxTime      \* bound on the clock

ASSUME SessionsAssumption ==
    /\ AccessExpiration \in Nat /\ RefreshExpiration \in Nat /\ MaxTime \in Nat
    /\ Required \subseteq Guard
    /\ StaffOf \in [Company -> SUBSET User]
    /\ DOMAIN RoleOf = User
    /\ \A u \in User : RoleOf[u] # "refresh"

VARIABLES
    now,       \* the clock
    tokens,    \* the claims of each token generated so far
    held,      \* tokens handed to clients
    sessions,  \* Postgres: user_sessions
    call,      \* what each caller's goroutine is at
    revoked    \* history: sessions a logout has deleted

vars == <<now, tokens, held, sessions, call, revoked>>

\* `kind` is history: which of its pair the token is.
Claims == [user : User, role : {RoleOf[u] : u \in User} \cup {"refresh"},
           exp : Nat, kind : {"access", "refresh"}]

Deletes == {"logout", "logoutAll", "logoutCompany", "cleanup"}

\* A goroutine before its SQL statement, or after a check and its answer.
Op == {"add", "check", "refused", "denied", "served"} \cup Deletes

\* `at` is the time.Now() of a statement that has one; `guard` is the one that
\* let a request in; `late` says whether the token's session had been revoked when
\* the request came in.
Call == [op : Op, arg : Jti \cup User \cup Company \cup {None}, at : Nat,
         guard : Guard \cup {None}, late : BOOLEAN]

ASSUME NoneAssumption == None \notin Claims \cup Call \cup Jti

Plain(op, arg) ==
    [op |-> op, arg |-> arg, at |-> IF op = "cleanup" THEN now ELSE 0,
     guard |-> None, late |-> FALSE]

Init ==
    /\ now = 0
    /\ tokens = [j \in Jti |-> None]
    /\ held = {}
    /\ sessions = {}
    /\ call = [r \in Caller |-> None]
    /\ revoked = {}

Exists(j) == tokens[j] # None

\* jwt.Validate: a signature of ours, not expired.
Valid(j) == now < tokens[j].exp

\* Plausible slip: the two generators are swapped.
LifetimeSwapped(kind) ==
    IF kind = "access" THEN RefreshExpiration ELSE AccessExpiration

Lifetime(kind) ==
    IF kind = "access" THEN AccessExpiration ELSE RefreshExpiration

-----------------------------------------------------------------------------
(***************************************************************************)
(* GenerateTokenPair: the access token is generated and its session        *)
(* inserted; only then the refresh token is generated, and the pair is     *)
(* returned.  If the INSERT fails, or seems to, nobody gets the tokens.    *)
(***************************************************************************)
Generate(r, user, role) ==
    \E j \in Jti :
        /\ ~Exists(j)
        /\ tokens' = [tokens EXCEPT ![j] =
               [user |-> user, role |-> role, exp |-> now + Lifetime("access"),
                kind |-> "access"]]
        /\ call' = [call EXCEPT ![r] = Plain("add", j)]

\* A service that uses guardian has authenticated the user.
Login(r, user) ==
    /\ call[r] = None
    /\ Generate(r, user, RoleOf[user])
    /\ UNCHANGED <<now, held, sessions, revoked>>

\* The role of the refreshed token is the role of the refresh token.
RefreshAccessToken(r, j) ==
    /\ call[r] = None
    /\ j \in held /\ Valid(j) /\ tokens[j].role = "refresh"
    /\ Generate(r, tokens[j].user, tokens[j].role)
    /\ UNCHANGED <<now, held, sessions, revoked>>

AddSession(r) ==
    /\ call[r] # None /\ call[r].op = "add"
    /\ LET access == call[r].arg IN
       \E j \in Jti :
        /\ ~Exists(j)
        /\ tokens' = [tokens EXCEPT ![j] =
               [tokens[access] EXCEPT !.role = "refresh", !.kind = "refresh",
                                      !.exp = now + Lifetime("refresh")]]
        /\ sessions' = sessions \cup {access}
        /\ held' = held \cup {access, j}
    /\ call' = [call EXCEPT ![r] = None]
    /\ UNCHANGED <<now, revoked>>

AddSessionFails(r) ==
    /\ call[r] # None /\ call[r].op = "add"
    /\ sessions' = sessions \cup {call[r].arg} \/ UNCHANGED sessions
    /\ call' = [call EXCEPT ![r] = None]
    /\ UNCHANGED <<now, tokens, held, revoked>>

-----------------------------------------------------------------------------
(***************************************************************************)
(* A request with a token: NewGuardianAuth validates the JWT, looks for    *)
(* the session and keeps members out; the guard of the route looks at the  *)
(* role in the token.                                                      *)
(***************************************************************************)
ValidateAccessToken(r, j) ==
    /\ call[r] = None
    /\ j \in held /\ Valid(j)
    /\ call' = [call EXCEPT ![r] =
           [op |-> "check", arg |-> j, at |-> now, guard |-> None, late |-> j \in revoked]]
    /\ UNCHANGED <<now, tokens, held, sessions, revoked>>

\* Plausible slip: the session store is the no-op one.
ActiveNoop(c) == tokens[c.arg].exp > c.at

Active(c) == c.arg \in sessions /\ tokens[c.arg].exp > c.at

Verdict(c, op, guard) ==
    [op |-> op, arg |-> c.arg, at |-> 0, guard |-> guard, late |-> c.late]

Outcome(c, guard) ==
    IF ~Active(c) THEN Verdict(c, "refused", None)
    ELSE IF tokens[c.arg].role # "member" /\ LetsIn(guard, tokens[c.arg].role)
    THEN Verdict(c, "served", guard) ELSE Verdict(c, "denied", None)

IsActive(r) ==
    /\ call[r] # None /\ call[r].op = "check"
    /\ \E g \in Required : call' = [call EXCEPT ![r] = Outcome(call[r], g)]
    /\ UNCHANGED <<now, tokens, held, sessions, revoked>>

\* The SELECT fails: 401, whatever the session.
IsActiveFails(r) ==
    /\ call[r] # None /\ call[r].op = "check"
    /\ call' = [call EXCEPT ![r] = None]
    /\ UNCHANGED <<now, tokens, held, sessions, revoked>>

Answer(r) ==
    /\ call[r] # None /\ call[r].op \in {"refused", "denied", "served"}
    /\ call' = [call EXCEPT ![r] = None]
    /\ UNCHANGED <<now, tokens, held, sessions, revoked>>

-----------------------------------------------------------------------------
\* LogoutByToken refuses an expired token, and does not ask which of the
\* pair it is given.
LogoutByToken(r, j) ==
    /\ call[r] = None
    /\ j \in held /\ Valid(j)
    /\ call' = [call EXCEPT ![r] = Plain("logout", j)]
    /\ UNCHANGED <<now, tokens, held, sessions, revoked>>

LogoutAll(r, user) ==
    /\ call[r] = None
    /\ call' = [call EXCEPT ![r] = Plain("logoutAll", user)]
    /\ UNCHANGED <<now, tokens, held, sessions, revoked>>

LogoutAllByCompany(r, company) ==
    /\ call[r] = None
    /\ call' = [call EXCEPT ![r] = Plain("logoutCompany", company)]
    /\ UNCHANGED <<now, tokens, held, sessions, revoked>>

Cleanup(r) ==
    /\ call[r] = None
    /\ call' = [call EXCEPT ![r] = Plain("cleanup", None)]
    /\ UNCHANGED <<now, tokens, held, sessions, revoked>>

\* Plausible slip: the comparison of the clean-up is the wrong way round.
OverNotYet(j, at) == tokens[j].exp > at

Over(j, at) == tokens[j].exp < at

\* The WHERE of each DELETE.
Matches(c, j) ==
    \/ c.op = "logout" /\ j = c.arg
    \/ c.op = "logoutAll" /\ tokens[j].user = c.arg
    \/ c.op = "logoutCompany" /\ tokens[j].user \in StaffOf[c.arg]
    \/ c.op = "cleanup" /\ Over(j, c.at)

Delete(r) ==
    /\ call[r] # None /\ call[r].op \in Deletes
    /\ LET gone == {j \in sessions : Matches(call[r], j)} IN
        /\ sessions' = sessions \ gone
        /\ revoked' = IF call[r].op = "cleanup" THEN revoked ELSE revoked \cup gone
    /\ call' = [call EXCEPT ![r] = None]
    /\ UNCHANGED <<now, tokens, held>>

DeleteFails(r) ==
    /\ call[r] # None /\ call[r].op \in Deletes
    /\ call' = [call EXCEPT ![r] = None]
    /\ UNCHANGED <<now, tokens, held, sessions, revoked>>

Tick ==
    /\ now < MaxTime
    /\ now' = now + 1
    /\ UNCHANGED <<tokens, held, sessions, call, revoked>>

Request(r) ==
    \/ \E j \in Jti :
        \/ RefreshAccessToken(r, j)
        \/ LogoutByToken(r, j)
        \/ ValidateAccessToken(r, j)
    \/ \E u \in User : Login(r, u) \/ LogoutAll(r, u)
    \/ \E c \in Company : LogoutAllByCompany(r, c)
    \/ Cleanup(r)

Statement(r) ==
    \/ AddSession(r) \/ AddSessionFails(r)
    \/ IsActive(r) \/ IsActiveFails(r) \/ Answer(r)
    \/ Delete(r) \/ DeleteFails(r)

Next == Tick \/ \E r \in Caller : Request(r) \/ Statement(r)

Spec == Init /\ [][Next]_vars

-----------------------------------------------------------------------------
TypeOK ==
    /\ now \in 0 .. MaxTime
    /\ tokens \in [Jti -> Claims \cup {None}]
    /\ \A j \in Jti : Exists(j) =>
          tokens[j].exp <= MaxTime + (IF tokens[j].kind = "access"
                                      THEN AccessExpiration ELSE RefreshExpiration)
    /\ held \subseteq Jti
    /\ sessions \subseteq Jti
    /\ call \in [Caller -> Call \cup {None}]
    /\ revoked \subseteq Jti

(***************************************************************************)
(* A logout is final: a token whose session was deleted is not accepted in *)
(* any request that comes in later, whatever is refreshed, added with its  *)
(* reply lost, or cleaned up in between.                                   *)
(***************************************************************************)
LogoutIsFinal ==
    \A r \in Caller :
        call[r] # None /\ call[r].op \in {"denied", "served"} => ~call[r].late

(***************************************************************************)
(* Nobody is logged out by anything else: an access token that is refused  *)
(* for want of a session was logged out or has expired.  Clean-up, which   *)
(* runs beside everything, never takes the session of a live token.        *)
(***************************************************************************)
OnlyLogoutRefuses ==
    \A r \in Caller :
        call[r] # None /\ call[r].op = "refused" =>
            \/ call[r].arg \in revoked
            \/ tokens[call[r].arg].exp <= now
            \/ tokens[call[r].arg].kind = "refresh"

(***************************************************************************)
(* What a request is allowed to do, the role its user logged in with       *)
(* allows, through however many refreshes the token came: a refresh        *)
(* changes the role in the token, and must not change it to more.          *)
(***************************************************************************)
GrantedByLogin ==
    \A r \in Caller :
        call[r] # None /\ call[r].op = "served" =>
            LetsIn(call[r].guard, RoleOf[tokens[call[r].arg].user])
=============================================================================
