-------------------------- MODULE Sessions_proofs ---------------------------
(***************************************************************************)
(* Sessions for any callers, users, companies, tokens and lifetimes.       *)
(***************************************************************************)
EXTENDS Sessions, TLAPS

Is(c, ops) == c # None /\ c.op \in ops

\* A session about to be inserted is of a token nobody has seen.
Opening ==
    \A r \in Caller : Is(call[r], {"add"}) =>
        LET j == call[r].arg IN
        /\ j \in Jti /\ Exists(j) /\ tokens[j].kind = "access"
        /\ j \notin held \cup sessions \cup revoked
        /\ \A q \in Caller : q # r /\ Is(call[q], {"add"}) => call[q].arg # j

\* What has left guardian was generated by it, with a role it gives.
Known ==
    /\ \A j \in held \cup sessions \cup revoked : Exists(j)
    /\ \A j \in Jti : Exists(j) => tokens[j].role \in {RoleOf[tokens[j].user], "refresh"}

\* The session of a handed-out access token is there, or logged out, or over.
Accounted ==
    \A j \in held : tokens[j].kind = "access" =>
        j \in sessions \/ j \in revoked \/ tokens[j].exp < now

Gone == sessions \cap revoked = {}

Checking ==
    \A r \in Caller :
        /\ call[r] # None => call[r].at <= now
        /\ Is(call[r], {"check", "refused", "denied", "served"}) =>
              /\ call[r].arg \in held
              /\ call[r].late => call[r].arg \in revoked

SessionInv ==
    Opening /\ Known /\ Accounted /\ Gone /\ Checking

Inv == TypeOK /\ SessionInv /\ LogoutIsFinal /\ OnlyLogoutRefuses /\ GrantedByLogin

-----------------------------------------------------------------------------
LEMMA Facts ==
  /\ None \notin Claims /\ None \notin Call /\ None \notin Jti
  /\ AccessExpiration \in Nat /\ RefreshExpiration \in Nat /\ MaxTime \in Nat
  /\ Required \subseteq Guard
  BY SessionsAssumption, NoneAssumption

\* Nothing is permitted to a token that still has the role of a refresh.
LEMMA RefreshGrantsNothing == \A g : ~LetsIn(g, "refresh")
  BY DEF LetsIn, HasPermission, rolePermissions, RequireGod, RequireAdminOrGod,
     RequireGodOrOwner, RequireRole

LEMMA InitInv == Init => Inv
  BY Facts DEF Init, Inv, TypeOK, SessionInv, Opening, Known, Accounted, Gone, Checking,
     Is, Exists, LogoutIsFinal, OnlyLogoutRefuses, GrantedByLogin

LEMMA PlainType ==
  ASSUME TypeOK, NEW op \in Op, NEW arg \in Jti \cup User \cup Company \cup {None}
  PROVE  Plain(op, arg) \in Call
  BY Facts DEF Plain, Call, TypeOK

\* A goroutine that starts or ends a call changes nothing else.
LEMMA GenerateTypes ==
  ASSUME TypeOK, NEW r \in Caller, NEW user \in User,
         NEW role \in {RoleOf[u] : u \in User} \cup {"refresh"},
         Generate(r, user, role), UNCHANGED <<now, held, sessions, revoked>>
  PROVE  TypeOK'
  <1>1. PICK j \in Jti :
          /\ ~Exists(j)
          /\ tokens' = [tokens EXCEPT ![j] =
                 [user |-> user, role |-> role, exp |-> now + Lifetime("access"),
                  kind |-> "access"]]
          /\ call' = [call EXCEPT ![r] = Plain("add", j)]
    BY DEF Generate
  <1>2. now + Lifetime("access") \in Nat /\ now + Lifetime("access") <= MaxTime + AccessExpiration
    BY Facts DEF TypeOK, Lifetime
  <1>3. [user |-> user, role |-> role, exp |-> now + Lifetime("access"), kind |-> "access"] \in Claims
    BY <1>2 DEF Claims
  <1>4. Plain("add", j) \in Call
    BY PlainType DEF Op
  <1>5. tokens' \in [Jti -> Claims \cup {None}] /\ call' \in [Caller -> Call \cup {None}]
    BY <1>1, <1>3, <1>4 DEF TypeOK
  <1>6. ASSUME NEW i \in Jti, Exists(i)'
        PROVE  tokens'[i].exp <= MaxTime + (IF tokens'[i].kind = "access"
                                            THEN AccessExpiration ELSE RefreshExpiration)
    <2>1. CASE i = j
      BY <2>1, <1>1, <1>2 DEF TypeOK
    <2>2. CASE i # j
      BY <2>2, <1>1, <1>6 DEF TypeOK, Exists
    <2> QED
      BY <2>1, <2>2
  <1> QED
    BY <1>5, <1>6 DEF TypeOK

\* What a call must look like on its own.
Sound(c) ==
    /\ c.op # "add" /\ c.at <= now
    /\ c.op \in {"check", "refused", "denied", "served"} =>
          c.arg \in held /\ (c.late => c.arg \in revoked)
    /\ c.op = "refused" =>
          \/ c.arg \in revoked
          \/ tokens[c.arg].exp <= now
          \/ tokens[c.arg].kind = "refresh"
    /\ c.op \in {"denied", "served"} => ~c.late
    /\ c.op = "served" => LetsIn(c.guard, RoleOf[tokens[c.arg].user])

\* A step of one goroutine that changes nothing but where it is.
LEMMA CallOnly ==
  ASSUME Inv, NEW r \in Caller, NEW c \in Call \cup {None},
         call' = [call EXCEPT ![r] = c], c # None => Sound(c),
         UNCHANGED <<now, tokens, held, sessions, revoked>>
  PROVE  Inv'
  <1>1. /\ \A q \in Caller : q # r => call'[q] = call[q]
        /\ call'[r] = c
    BY DEF Inv, TypeOK
  <1>2. TypeOK'
    BY DEF Inv, TypeOK, Exists
  <1>3. Opening'
    <2>. SUFFICES ASSUME NEW q \in Caller, Is(call'[q], {"add"})
                  PROVE  /\ call'[q] = call[q] /\ Is(call[q], {"add"})
                         /\ \A p \in Caller : Is(call'[p], {"add"}) => call'[p] = call[p] /\ Is(call[p], {"add"})
      BY DEF Opening, Inv, SessionInv, Exists
    <2> QED
      BY <1>1 DEF Is, Sound
  <1>4. Known' /\ Accounted' /\ Gone'
    BY DEF Inv, SessionInv, Known, Accounted, Gone, Exists
  <1>5. Checking'
    BY <1>1 DEF Checking, Inv, SessionInv, Is, Sound
  <1>6. LogoutIsFinal' /\ OnlyLogoutRefuses' /\ GrantedByLogin'
    BY <1>1 DEF LogoutIsFinal, OnlyLogoutRefuses, GrantedByLogin, Inv, Sound
  <1> QED
    BY <1>2, <1>3, <1>4, <1>5, <1>6 DEF Inv, SessionInv

LEMMA GenerateInv ==
  ASSUME Inv, NEW r \in Caller, call[r] = None, NEW user \in User,
         NEW role \in {RoleOf[user], "refresh"},
         Generate(r, user, role), UNCHANGED <<now, held, sessions, revoked>>
  PROVE  Inv'
  <1>0. TypeOK' /\ TypeOK
    BY GenerateTypes DEF Inv
  <1>1. PICK j \in Jti :
          /\ ~Exists(j)
          /\ tokens' = [tokens EXCEPT ![j] =
                 [user |-> user, role |-> role, exp |-> now + Lifetime("access"),
                  kind |-> "access"]]
          /\ call' = [call EXCEPT ![r] = Plain("add", j)]
    BY DEF Generate
  <1>2. /\ \A q \in Caller : q # r => call'[q] = call[q]
        /\ call'[r] = Plain("add", j)
        /\ \A i \in Jti : i # j => tokens'[i] = tokens[i]
        /\ tokens'[j].kind = "access" /\ tokens'[j].user = user /\ tokens'[j].role = role
        /\ j \notin held \cup sessions \cup revoked
    BY <1>0, <1>1 DEF TypeOK, Inv, SessionInv, Known
  <1>3. tokens'[j] \in Claims
    <2>1. now + Lifetime("access") \in Nat
      BY <1>0, Facts DEF TypeOK, Lifetime
    <2> QED
      BY <2>1, <1>0, <1>1 DEF TypeOK, Claims
  <1>4. /\ \A i \in Jti : Exists(i) => Exists(i)'
        /\ Exists(j)'
    BY <1>1, <1>2, <1>3, Facts DEF Exists
  <1>5. Opening'
    <2> SUFFICES ASSUME NEW q \in Caller, Is(call'[q], {"add"})
                 PROVE  /\ call'[q].arg \in Jti /\ tokens'[call'[q].arg] # None
                        /\ tokens'[call'[q].arg].kind = "access"
                        /\ call'[q].arg \notin held \cup sessions \cup revoked
                        /\ \A p \in Caller : p # q /\ Is(call'[p], {"add"}) => call'[p].arg # call'[q].arg
      BY DEF Opening, Exists
    <2>1. \A p \in Caller : p # r /\ Is(call'[p], {"add"}) =>
            /\ Is(call[p], {"add"}) /\ call'[p] = call[p] /\ call[p].arg # j
            /\ call[p].arg \in Jti /\ Exists(call[p].arg)
      BY <1>1, <1>2 DEF Is, Inv, SessionInv, Opening
    <2>2. call'[r].arg = j
      BY <1>2 DEF Plain
    <2>3. CASE q = r
      BY <2>1, <2>2, <2>3, <1>2, <1>4 DEF Exists
    <2>4. CASE q # r
      BY <2>1, <2>2, <2>4, <1>2, <1>4 DEF Inv, SessionInv, Opening, Exists
    <2> QED
      BY <2>3, <2>4
  <1>6. Known'
    BY <1>0, <1>1, <1>2, <1>4 DEF Inv, SessionInv, Known, Exists, TypeOK
  <1>7. Accounted' /\ Gone'
    BY <1>0, <1>2 DEF Inv, SessionInv, Accounted, Gone, TypeOK
  <1>8. Checking'
    BY <1>0, <1>2 DEF Inv, SessionInv, Checking, Is, Plain, TypeOK
  <1>9. LogoutIsFinal' /\ OnlyLogoutRefuses' /\ GrantedByLogin'
    <2>1. \A q \in Caller : Is(call'[q], {"refused", "denied", "served"}) =>
            Is(call[q], {"refused", "denied", "served"}) /\ call'[q] = call[q]
            /\ tokens'[call[q].arg] = tokens[call[q].arg]
      BY <1>0, <1>2 DEF Is, Plain, Inv, SessionInv, Checking, TypeOK
    <2> QED
      BY <2>1 DEF LogoutIsFinal, OnlyLogoutRefuses, GrantedByLogin, Inv, Is
  <1> QED
    BY <1>0, <1>5, <1>6, <1>7, <1>8, <1>9 DEF Inv, SessionInv

LEMMA AddSessionInv ==
  ASSUME Inv, NEW r \in Caller, AddSession(r)
  PROVE  Inv'
  <1> DEFINE access == call[r].arg
  <1>1. PICK j \in Jti :
          /\ ~Exists(j)
          /\ tokens' = [tokens EXCEPT ![j] =
                 [tokens[access] EXCEPT !.role = "refresh", !.kind = "refresh",
                                        !.exp = now + Lifetime("refresh")]]
          /\ held' = held \cup {access, j}
    BY DEF AddSession
  <1>2. /\ Is(call[r], {"add"}) /\ sessions' = sessions \cup {access}
        /\ call' = [call EXCEPT ![r] = None] /\ UNCHANGED <<now, revoked>>
    BY DEF AddSession, Is
  <1>3. /\ access \in Jti /\ Exists(access) /\ tokens[access].kind = "access"
        /\ access \notin held \cup sessions \cup revoked /\ access # j
    BY <1>1, <1>2 DEF Inv, SessionInv, Opening
  <1>4. tokens[access] \in Claims
    BY <1>3 DEF Inv, TypeOK, Exists
  <1>5. /\ tokens'[j] = [tokens[access] EXCEPT !.role = "refresh", !.kind = "refresh",
                                                !.exp = now + Lifetime("refresh")]
        /\ tokens'[j] \in Claims
        /\ tokens'[j].role = "refresh" /\ tokens'[j].kind = "refresh"
        /\ tokens'[j].exp <= MaxTime + RefreshExpiration
        /\ \A i \in Jti : i # j => tokens'[i] = tokens[i]
        /\ tokens' \in [Jti -> Claims \cup {None}]
    <2>1. now + Lifetime("refresh") \in Nat /\ now + Lifetime("refresh") <= MaxTime + RefreshExpiration
      BY Facts DEF Inv, TypeOK, Lifetime
    <2> QED
      BY <1>1, <1>4, <2>1 DEF Inv, TypeOK, Claims
  <1>6. /\ \A q \in Caller : q # r => call'[q] = call[q]
        /\ call'[r] = None
    BY <1>2 DEF Inv, TypeOK
  <1>7. TypeOK'
    <2>1. ASSUME NEW i \in Jti, tokens'[i] # None
          PROVE  tokens'[i].exp <= MaxTime + (IF tokens'[i].kind = "access"
                                              THEN AccessExpiration ELSE RefreshExpiration)
      BY <1>5, <2>1 DEF Inv, TypeOK, Exists
    <2>2. held' \subseteq Jti /\ sessions' \subseteq Jti /\ call' \in [Caller -> Call \cup {None}]
      BY <1>1, <1>2, <1>3 DEF Inv, TypeOK
    <2> QED
      BY <1>2, <1>5, <2>1, <2>2 DEF Inv, TypeOK, Exists
  <1>8. \A i \in Jti : tokens[i] # None => tokens'[i] = tokens[i]
    BY <1>1, <1>5 DEF Exists
  <1>9. Opening'
    <2> SUFFICES ASSUME NEW q \in Caller, Is(call'[q], {"add"})
                 PROVE  /\ call'[q].arg \in Jti /\ tokens'[call'[q].arg] # None
                        /\ tokens'[call'[q].arg].kind = "access"
                        /\ call'[q].arg \notin held' \cup sessions' \cup revoked'
                        /\ \A p \in Caller : p # q /\ Is(call'[p], {"add"}) => call'[p].arg # call'[q].arg
      BY DEF Opening, Exists
    <2>1. \A p \in Caller : Is(call'[p], {"add"}) => p # r /\ call'[p] = call[p]
      BY <1>6 DEF Is
    <2>2. /\ call[q].arg \in Jti /\ Exists(call[q].arg) /\ tokens[call[q].arg].kind = "access"
          /\ call[q].arg \notin held \cup sessions \cup revoked
          /\ call[q].arg # access
          /\ \A p \in Caller : p # q /\ Is(call[p], {"add"}) => call[p].arg # call[q].arg
      BY <1>2, <2>1 DEF Inv, SessionInv, Opening
    <2> QED
      BY <1>1, <1>2, <1>8, <2>1, <2>2 DEF Exists
  <1>10. Known'
    <2>1. \A i \in held' \cup sessions' \cup revoked' : Exists(i)'
      BY <1>1, <1>2, <1>3, <1>5, <1>8, <1>7, Facts DEF Inv, SessionInv, Known, Exists, TypeOK
    <2>2. \A i \in Jti : Exists(i)' => tokens'[i].role \in {RoleOf[tokens'[i].user], "refresh"}
      BY <1>5 DEF Inv, SessionInv, Known, Exists
    <2> QED
      BY <2>1, <2>2 DEF Known
  <1>11. Accounted'
    BY <1>1, <1>2, <1>3, <1>5, <1>8 DEF Inv, SessionInv, Accounted, Known, Exists, TypeOK
  <1>12. Gone'
    BY <1>2, <1>3 DEF Inv, SessionInv, Gone
  <1>13. Checking'
    BY <1>1, <1>2, <1>6 DEF Inv, SessionInv, Checking, Is
  <1>14. LogoutIsFinal' /\ OnlyLogoutRefuses' /\ GrantedByLogin'
    <2>1. \A q \in Caller : Is(call'[q], {"refused", "denied", "served"}) =>
            /\ Is(call[q], {"refused", "denied", "served"}) /\ call'[q] = call[q]
            /\ tokens'[call[q].arg] = tokens[call[q].arg]
      BY <1>6, <1>8 DEF Is, Inv, SessionInv, Checking, TypeOK, Known, Exists
    <2> QED
      BY <1>2, <2>1 DEF LogoutIsFinal, OnlyLogoutRefuses, GrantedByLogin, Inv, Is
  <1> QED
    BY <1>7, <1>9, <1>10, <1>11, <1>12, <1>13, <1>14 DEF Inv, SessionInv

LEMMA AddSessionFailsInv ==
  ASSUME Inv, NEW r \in Caller, AddSessionFails(r)
  PROVE  Inv'
  <1> DEFINE access == call[r].arg
  <1>1. /\ Is(call[r], {"add"})
        /\ sessions' = sessions \cup {access} \/ sessions' = sessions
        /\ call' = [call EXCEPT ![r] = None]
        /\ UNCHANGED <<now, tokens, held, revoked>>
    BY DEF AddSessionFails, Is
  <1>2. /\ access \in Jti /\ Exists(access)
        /\ access \notin held \cup sessions \cup revoked
        /\ \A q \in Caller : q # r /\ Is(call[q], {"add"}) => call[q].arg # access
    BY <1>1 DEF Inv, SessionInv, Opening
  <1>3. /\ \A q \in Caller : q # r => call'[q] = call[q]
        /\ call'[r] = None
    BY <1>1 DEF Inv, TypeOK
  <1>4. TypeOK'
    BY <1>1, <1>2 DEF Inv, TypeOK, Exists
  <1>5. Opening'
    BY <1>1, <1>2, <1>3 DEF Inv, SessionInv, Opening, Is, Exists
  <1>6. Known' /\ Accounted' /\ Gone'
    BY <1>1, <1>2 DEF Inv, SessionInv, Known, Accounted, Gone, Exists
  <1>7. Checking'
    BY <1>1, <1>3 DEF Inv, SessionInv, Checking, Is
  <1>8. LogoutIsFinal' /\ OnlyLogoutRefuses' /\ GrantedByLogin'
    BY <1>1, <1>3 DEF LogoutIsFinal, OnlyLogoutRefuses, GrantedByLogin, Inv
  <1> QED
    BY <1>4, <1>5, <1>6, <1>7, <1>8 DEF Inv, SessionInv

\* A check answers as the session and the role tell it to.
LEMMA IsActiveInv ==
  ASSUME Inv, NEW r \in Caller, IsActive(r)
  PROVE  Inv'
  <1> DEFINE c == call[r]
  <1>0. PICK g \in Required : call' = [call EXCEPT ![r] = Outcome(c, g)]
    BY DEF IsActive
  <1> DEFINE d == Outcome(c, g)
  <1>1. /\ Is(c, {"check"}) /\ c \in Call /\ g \in Guard
        /\ call' = [call EXCEPT ![r] = d]
        /\ UNCHANGED <<now, tokens, held, sessions, revoked>>
    BY <1>0, Facts DEF IsActive, Inv, TypeOK, Is
  <1>2. /\ c.at <= now /\ c.arg \in held /\ (c.late => c.arg \in revoked)
        /\ c.at \in Nat
    BY <1>1 DEF Inv, SessionInv, Checking, Is, Call
  <1>3. /\ c.arg \in Jti /\ Exists(c.arg) /\ tokens[c.arg] \in Claims
        /\ tokens[c.arg].exp \in Nat /\ now \in Nat
        /\ tokens[c.arg].kind \in {"access", "refresh"}
    BY <1>2, Facts DEF Inv, SessionInv, Known, TypeOK, Exists, Claims
  <1>4. CASE ~Active(c)
    <2>1. d = Verdict(c, "refused", None)
      BY <1>4 DEF Outcome
    <2>2. d \in Call /\ d.op = "refused" /\ d.at = 0 /\ d.arg = c.arg /\ d.late = c.late
      BY <1>1, <2>1 DEF Call, Op, Verdict
    <2>3. \/ c.arg \in revoked
          \/ tokens[c.arg].exp <= now
          \/ tokens[c.arg].kind = "refresh"
      BY <1>2, <1>3, <1>4 DEF Active, Inv, SessionInv, Accounted
    <2>4. Sound(d)
      BY <1>2, <1>3, <2>2, <2>3 DEF Sound
    <2> QED
      BY <1>1, <2>2, <2>4, CallOnly
  <1>5. CASE Active(c)
    <2>1. ~c.late
      BY <1>2, <1>3, <1>5 DEF Active, Inv, SessionInv, Gone
    <2>2. CASE tokens[c.arg].role # "member" /\ LetsIn(g, tokens[c.arg].role)
      <3>1. d = Verdict(c, "served", g)
        BY <1>5, <2>2 DEF Outcome
      <3>2. /\ d \in Call /\ d.op = "served" /\ d.guard = g
            /\ d.at = 0 /\ d.arg = c.arg /\ d.late = c.late
        BY <1>1, <3>1 DEF Call, Op, Verdict
      <3>3. tokens[c.arg].role \in {RoleOf[tokens[c.arg].user], "refresh"}
        BY <1>3 DEF Inv, SessionInv, Known
      <3>4. LetsIn(g, RoleOf[tokens[c.arg].user])
        BY <2>2, <3>3, RefreshGrantsNothing
      <3>5. Sound(d)
        BY <1>2, <1>3, <2>1, <3>2, <3>4 DEF Sound
      <3> QED
        BY <1>1, <3>2, <3>5, CallOnly
    <2>3. CASE ~(tokens[c.arg].role # "member" /\ LetsIn(g, tokens[c.arg].role))
      <3>1. d = Verdict(c, "denied", None)
        BY <1>5, <2>3 DEF Outcome
      <3>2. d \in Call /\ d.op = "denied" /\ d.at = 0 /\ d.arg = c.arg /\ d.late = c.late
        BY <1>1, <3>1 DEF Call, Op, Verdict
      <3>3. Sound(d)
        BY <1>2, <1>3, <2>1, <3>2 DEF Sound
      <3> QED
        BY <1>1, <3>2, <3>3, CallOnly
    <2> QED
      BY <2>2, <2>3
  <1> QED
    BY <1>4, <1>5

LEMMA DeleteInv ==
  ASSUME Inv, NEW r \in Caller, Delete(r)
  PROVE  Inv'
  <1> DEFINE c == call[r]
             gone == {j \in sessions : Matches(c, j)}
  <1>1. /\ Is(c, Deletes) /\ c \in Call
        /\ sessions' = sessions \ gone
        /\ revoked' = IF c.op = "cleanup" THEN revoked ELSE revoked \cup gone
        /\ call' = [call EXCEPT ![r] = None]
        /\ UNCHANGED <<now, tokens, held>>
    BY DEF Delete, Inv, TypeOK, Is
  <1>2. /\ \A q \in Caller : q # r => call'[q] = call[q]
        /\ call'[r] = None
    BY <1>1 DEF Inv, TypeOK
  <1>3. revoked \subseteq revoked' /\ revoked' \subseteq revoked \cup gone /\ gone \subseteq sessions
    BY <1>1
  <1>4. TypeOK'
    BY <1>1, <1>3 DEF Inv, TypeOK, Exists
  <1>5. Opening'
    BY <1>1, <1>2, <1>3 DEF Inv, SessionInv, Opening, Is, Exists
  <1>6. Known' /\ Gone'
    BY <1>1, <1>3 DEF Inv, SessionInv, Known, Gone, Exists
  <1>7. Accounted'
    <2> SUFFICES ASSUME NEW j \in held, tokens[j].kind = "access"
                 PROVE  j \in sessions' \/ j \in revoked' \/ tokens[j].exp < now
      BY <1>1 DEF Accounted
    <2>1. j \in sessions \/ j \in revoked \/ tokens[j].exp < now
      BY DEF Inv, SessionInv, Accounted
    <2>2. CASE j \in gone /\ c.op = "cleanup"
      <3>1. tokens[j].exp < c.at
        BY <2>2 DEF Matches, Over
      <3>2. c.at <= now /\ c.at \in Nat /\ now \in Nat
        BY <1>1 DEF Inv, SessionInv, Checking, Is, Call, TypeOK
      <3>3. tokens[j].exp \in Nat
        BY Facts DEF Inv, SessionInv, Known, TypeOK, Exists, Claims
      <3> QED
        BY <3>1, <3>2, <3>3
    <2>3. CASE ~(j \in gone /\ c.op = "cleanup")
      BY <2>1, <2>3, <1>1
    <2> QED
      BY <2>2, <2>3
  <1>8. Checking'
    BY <1>1, <1>2, <1>3 DEF Inv, SessionInv, Checking, Is
  <1>9. LogoutIsFinal' /\ OnlyLogoutRefuses' /\ GrantedByLogin'
    BY <1>1, <1>2, <1>3 DEF LogoutIsFinal, OnlyLogoutRefuses, GrantedByLogin, Inv
  <1> QED
    BY <1>4, <1>5, <1>6, <1>7, <1>8, <1>9 DEF Inv, SessionInv

LEMMA TickInv ==
  ASSUME Inv, Tick
  PROVE  Inv'
  <1>1. /\ now' = now + 1 /\ now < MaxTime /\ now \in Nat
        /\ UNCHANGED <<tokens, held, sessions, call, revoked>>
    BY Facts DEF Tick, Inv, TypeOK
  <1>2. TypeOK'
    BY <1>1, Facts DEF Inv, TypeOK, Exists
  <1>3. \A j \in Jti : Exists(j) => tokens[j].exp \in Nat
    BY DEF Inv, TypeOK, Exists, Claims
  <1>4. \A r \in Caller : call[r] # None => call[r].at \in Nat
    BY DEF Inv, TypeOK, Call
  <1>5. Opening' /\ Known' /\ Gone'
    BY <1>1 DEF Inv, SessionInv, Opening, Known, Gone, Exists
  <1>6. Accounted'
    BY <1>1, <1>3 DEF Inv, SessionInv, Accounted, Known, TypeOK
  <1>7. Checking'
    BY <1>1, <1>4 DEF Inv, SessionInv, Checking
  <1>8. LogoutIsFinal' /\ GrantedByLogin'
    BY <1>1 DEF LogoutIsFinal, GrantedByLogin, Inv
  <1>9. OnlyLogoutRefuses'
    <2>1. \A r \in Caller : Is(call[r], {"refused"}) => tokens[call[r].arg].exp \in Nat
      BY <1>3 DEF Inv, SessionInv, Checking, Known, Is, TypeOK
    <2> QED
      BY <1>1, <2>1 DEF OnlyLogoutRefuses, Inv, Is
  <1> QED
    BY <1>2, <1>5, <1>6, <1>7, <1>8, <1>9 DEF Inv, SessionInv

LEMMA RequestInv ==
  ASSUME Inv, NEW r \in Caller, Request(r)
  PROVE  Inv'
  <1>1. ASSUME NEW u \in User, Login(r, u) PROVE Inv'
    BY <1>1, GenerateInv DEF Login
  <1>2. ASSUME NEW j \in Jti, RefreshAccessToken(r, j) PROVE Inv'
    <2>1. j \in held /\ Exists(j) /\ tokens[j].user \in User /\ tokens[j].role = "refresh"
      BY <1>2 DEF RefreshAccessToken, Inv, SessionInv, Known, TypeOK, Exists, Claims
    <2> QED
      BY <1>2, <2>1, GenerateInv DEF RefreshAccessToken
  <1>3. ASSUME NEW j \in Jti, ValidateAccessToken(r, j) PROVE Inv'
    <2> DEFINE c == [op |-> "check", arg |-> j, at |-> now, guard |-> None, late |-> j \in revoked]
    <2>1. c \in Call
      BY Facts DEF Call, Op, Inv, TypeOK
    <2>2. Sound(c)
      <3>1. c.op = "check" /\ c.at = now /\ c.arg = j
        OBVIOUS
      <3>2. c.late => j \in revoked
        BY Zenon
      <3>3. j \in held /\ now \in Nat
        BY <1>3, Facts DEF ValidateAccessToken, Inv, TypeOK
      <3> HIDE DEF c
      <3> QED
        BY <3>1, <3>2, <3>3 DEF Sound
    <2>3. call' = [call EXCEPT ![r] = c] /\ UNCHANGED <<now, tokens, held, sessions, revoked>>
      BY <1>3 DEF ValidateAccessToken
    <2> HIDE DEF c
    <2> QED
      BY <2>1, <2>2, <2>3, CallOnly
  <1>4. ASSUME NEW op \in Deletes, NEW arg \in Jti \cup User \cup Company \cup {None},
               call' = [call EXCEPT ![r] = Plain(op, arg)],
               UNCHANGED <<now, tokens, held, sessions, revoked>>
        PROVE  Inv'
    <2>1. Plain(op, arg) \in Call
      BY PlainType DEF Inv, Op
    <2>2. Sound(Plain(op, arg))
      BY DEF Sound, Plain, Deletes, Inv, TypeOK
    <2> QED
      BY <1>4, <2>1, <2>2, CallOnly
  <1>5. ASSUME NEW j \in Jti, LogoutByToken(r, j) PROVE Inv'
    BY <1>4, <1>5 DEF LogoutByToken, Deletes
  <1>6. ASSUME NEW u \in User, LogoutAll(r, u) PROVE Inv'
    BY <1>4, <1>6 DEF LogoutAll, Deletes
  <1>7. ASSUME NEW c \in Company, LogoutAllByCompany(r, c) PROVE Inv'
    BY <1>4, <1>7 DEF LogoutAllByCompany, Deletes
  <1>8. ASSUME Cleanup(r) PROVE Inv'
    BY <1>4, <1>8 DEF Cleanup, Deletes
  <1> QED
    BY <1>1, <1>2, <1>3, <1>5, <1>6, <1>7, <1>8 DEF Request

LEMMA StatementInv ==
  ASSUME Inv, NEW r \in Caller, Statement(r)
  PROVE  Inv'
  <1>1. ASSUME call' = [call EXCEPT ![r] = None],
               UNCHANGED <<now, tokens, held, sessions, revoked>>
        PROVE  Inv'
    <2>1. \E c \in Call \cup {None} : c = None /\ call' = [call EXCEPT ![r] = c]
      BY <1>1
    <2> QED
      BY <1>1, <2>1, CallOnly
  <1>2. CASE IsActiveFails(r) \/ Answer(r) \/ DeleteFails(r)
    BY <1>1, <1>2 DEF IsActiveFails, Answer, DeleteFails
  <1> QED
    BY <1>2, AddSessionInv, AddSessionFailsInv, IsActiveInv, DeleteInv DEF Statement

THEOREM SessionsInductive == Spec => []Inv
  <1>1. Inv /\ [Next]_vars => Inv'
    <2> SUFFICES ASSUME Inv, [Next]_vars PROVE Inv'
      OBVIOUS
    <2>1. CASE UNCHANGED vars
      BY <2>1 DEF vars, Inv, TypeOK, SessionInv, Opening, Known, Accounted, Gone, Checking,
         Is, Exists, LogoutIsFinal, OnlyLogoutRefuses, GrantedByLogin
    <2> QED
      BY <2>1, TickInv, RequestInv, StatementInv DEF Next
  <1> QED
    BY InitInv, <1>1, PTL DEF Spec

\* Type correctness of the tokens, sessions and calls.
THEOREM SessionTypeCorrect == Spec => []TypeOK
  <1>1. Inv => TypeOK
    BY DEF Inv
  <1> QED
    BY SessionsInductive, <1>1, PTL

\* A logout is final for every later request.
THEOREM LogoutHolds == Spec => []LogoutIsFinal
  <1>1. Inv => LogoutIsFinal
    BY DEF Inv
  <1> QED
    BY SessionsInductive, <1>1, PTL

\* Nothing but a logout or the expiry ends a session: no clean-up, no lost reply.
THEOREM LogoutIsExact == Spec => []OnlyLogoutRefuses
  <1>1. Inv => OnlyLogoutRefuses
    BY DEF Inv
  <1> QED
    BY SessionsInductive, <1>1, PTL

\* No chain of refreshes allows more than the login did.
THEOREM RefreshAddsNothing == Spec => []GrantedByLogin
  <1>1. Inv => GrantedByLogin
    BY DEF Inv
  <1> QED
    BY SessionsInductive, <1>1, PTL
=============================================================================
