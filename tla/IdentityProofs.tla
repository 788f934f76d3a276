--------------------------- MODULE IdentityProofs ---------------------------
(***************************************************************************)
(* Proofs about Identity for any number of people, tokens, requests and    *)
(* passwords.  They rest on IdentityAssumption only.                       *)
(***************************************************************************)
EXTENDS Identity, FiniteSetTheorems, TLAPS

-----------------------------------------------------------------------------
(* The inductive invariant.                                                *)

\* The foreign keys of refresh_tokens: a token belongs to a user, to the family of an
\* issued token of the same user, and is replaced by an issued token.
TokensOK ==
    \A t \in Issued :
        LET f == token[t].family IN
        /\ token[t].user \in Registered
        /\ f \in Issued
        /\ token[f].user = token[t].user
        /\ token[f].family = f
        /\ token[t].replacedBy \in Issued \cup {None}

\* The locks a request holds at its stage.
Holds(r) ==
    LET q == request[r] IN
    /\ q.op \in {"register", "create"} /\ q.stage # "begun" => identityLock = r
    /\ q.op = "update" /\ q.stage # "begun" => identityLock = r
    /\ q.op \notin {"register", "create"} /\ q.stage \in {"ready", "reuse"}
          => userLock[q.user] = r

\* The rows a request works on are there.
Refers(r) ==
    LET q == request[r] IN
    /\ q.op \notin {"register", "create"} => user[q.user] # None
    /\ q.op \in {"refresh", "logout", "password"} =>
          q.token \in Issued /\ token[q.token].user = q.user
    /\ q.op = "password" => token[q.token].family = q.token
    /\ q.op = "create" => q.change.role \in Roles /\ Registered # {}

\* What was read under the locks is still so.
Read(r) ==
    LET q == request[r] IN
    q.stage = "ready" =>
        /\ q.op = "register" => Registered = {}
        /\ q.op = "create" => user[q.user] = None
        /\ q.op = "login" => StillVerified(r)
        /\ q.op = "refresh" => ~Spent(q.token) /\ user[q.user].status = "active"
        /\ q.op = "password" => /\ user[q.user].status = "active"
                                /\ user[q.user].password < MaxPasswords
        /\ q.op = "update" => ChangeAllowed(user[q.user], q.change, q.by)

RequestOK(r) == request[r] # None => Holds(r) /\ Refers(r) /\ Read(r)

IInv ==
    /\ TypeOK
    /\ TokensOK
    /\ \A r \in Requests : RequestOK(r)
    /\ FamiliesAreChains
    /\ DisabledUsersHaveNoSession
    /\ SessionsKnowThePassword
    /\ AnOwnerRemains

-----------------------------------------------------------------------------
(* Steps that change neither users nor tokens.                             *)

\* Whether TokensOK and the four state properties hold depends on the tables only.
Tables ==
    /\ TokensOK
    /\ FamiliesAreChains
    /\ DisabledUsersHaveNoSession
    /\ SessionsKnowThePassword
    /\ AnOwnerRemains

LEMMA TablesUnchanged ==
    ASSUME Tables, UNCHANGED <<user, token>>
    PROVE  Tables'
  <1>1. TokensOK'
    BY DEF Tables, TokensOK, Issued, Registered
  <1>2. FamiliesAreChains'
    BY DEF Tables, FamiliesAreChains, Issued, Live, FamilyOf
  <1>3. DisabledUsersHaveNoSession'
    BY DEF Tables, DisabledUsersHaveNoSession, Issued, Live
  <1>4. SessionsKnowThePassword'
    BY DEF Tables, SessionsKnowThePassword, Issued, Live
  <1>5. AnOwnerRemains'
    BY DEF Tables, AnOwnerRemains, Registered, ActiveOwners
  <1>6. QED
    BY <1>1, <1>2, <1>3, <1>4, <1>5 DEF Tables

\* The writes of a step leave the rows alone that a request holds a lock on, and
\* take no row away.
SparesRows(x) ==
    /\ \A u \in Users : user[u] # None => user'[u] # None
    /\ \A t \in Tokens : token[t] # None =>
          /\ token'[t] # None
          /\ token'[t].user = token[t].user
          /\ token'[t].family = token[t].family
    /\ \A u \in Users : user[u] # None /\ userLock[u] = x =>
          /\ user'[u] = user[u]
          /\ \A t \in Tokens : token[t] # None /\ token[t].user = u => token'[t] = token[t]
    /\ identityLock = x =>
          /\ \A u \in Users : user[u] = None => user'[u] = None
          /\ ActiveOwners' = ActiveOwners

\* A step leaves a request, its locks and the rows under them alone.
Spares(x) ==
    /\ request'[x] = request[x]
    /\ identityLock = x => identityLock' = x
    /\ \A u \in Users : userLock[u] = x => userLock'[u] = x
    /\ SparesRows(x)

\* What a request has read and locked is still so after a step that spares it.
LEMMA SparedRequestOK ==
    ASSUME TypeOK, NEW x \in Requests, RequestOK(x), Spares(x)
    PROVE  RequestOK(x)'
  <1> DEFINE q == request[x]
  <1> SUFFICES ASSUME request'[x] # None
               PROVE  Holds(x)' /\ Refers(x)' /\ Read(x)'
    BY DEF RequestOK
  <1>1. /\ request'[x] = q /\ q # None
        /\ q \in RequestRow
        /\ Holds(x) /\ Refers(x) /\ Read(x)
    BY DEF Spares, RequestOK, TypeOK
  <1>2. /\ q.user \in Users /\ q.op \in Operations /\ q.token \in Tokens \cup {None}
        /\ q.stage \in Stages
    BY <1>1 DEF RequestRow
  <1>3. Holds(x)'
    BY <1>1, <1>2 DEF Holds, Spares
  <1>4. Refers(x)'
    BY <1>1, <1>2 DEF Refers, Spares, SparesRows, Issued, Registered
  <1>5. ASSUME q.stage = "ready", q.op \notin {"register", "create"}
        PROVE  /\ user'[q.user] = user[q.user]
               /\ q.op = "refresh" => token'[q.token] = token[q.token]
    BY <1>1, <1>2, <1>5 DEF Holds, Refers, Spares, SparesRows, Issued
  <1>6. ASSUME q.stage = "ready"
        PROVE  /\ q.op = "register" => Registered' = {}
               /\ q.op = "create" => user'[q.user] = None
    BY <1>1, <1>2, <1>6 DEF Holds, Read, Spares, SparesRows, Registered
  <1>7. ASSUME q.stage = "ready", q.op = "update"
        PROVE  ChangeAllowed(user[q.user], q.change, q.by)'
    BY <1>1, <1>2, <1>5, <1>7 DEF Holds, Read, Spares, SparesRows, ChangeAllowed, RemovesOwner
  <1>8. Read(x)'
    BY <1>1, <1>2, <1>5, <1>6, <1>7 DEF Read, StillVerified, Spent
  <1>9. QED
    BY <1>3, <1>4, <1>8

\* A step that only moves one request on, and at most gives it locks nobody had.
LEMMA QuietStep ==
    ASSUME IInv, TypeOK', NEW r \in Requests, UNCHANGED <<user, token>>,
           RequestOK(r)',
           \A x \in Requests \ {r} : request'[x] = request[x],
           identityLock' = identityLock \/ identityLock \in {None, r},
           \A u \in Users : userLock'[u] = userLock[u] \/ userLock[u] \in {None, r}
    PROVE  IInv'
  <1>1. Tables'
    BY TablesUnchanged DEF IInv, Tables
  <1>2. ASSUME NEW x \in Requests
        PROVE  RequestOK(x)'
    <2>1. CASE x = r
      BY <2>1
    <2>2. CASE x # r
      <3>1. x # None
        BY IdentityAssumption
      <3>2. Spares(x)
        BY <2>2, <3>1 DEF Spares, SparesRows, ActiveOwners, Registered
      <3>3. QED
        BY <3>2, SparedRequestOK DEF IInv
    <2>3. QED
      BY <2>1, <2>2
  <1>3. QED
    BY <1>1, <1>2 DEF IInv, Tables

\* A request that arrives holds nothing; it refers to rows that are there.
LEMMA BeginOK ==
    ASSUME IInv, NEW r \in Requests, NEW op \in Operations, NEW u \in Users,
           NEW t \in Tokens \cup {None}, NEW by \in Roles, NEW change \in Changes,
           NEW verified \in 0 .. MaxPasswords,
           Begin(r, op, u, t, by, change, verified),
           op \notin {"register", "create"} => user[u] # None,
           op \in {"refresh", "logout", "password"} => t \in Issued /\ token[t].user = u,
           op = "password" => token[t].family = t,
           op = "create" => change.role \in Roles /\ Registered # {}
    PROVE  IInv'
  <1> DEFINE q == [op |-> op, stage |-> "begun", user |-> u, token |-> t, by |-> by,
                   change |-> change, verified |-> verified]
  <1>1. q \in RequestRow
    BY DEF RequestRow, Stages
  <1>2. /\ request \in [Requests -> RequestRow \cup {None}]
        /\ request' = [request EXCEPT ![r] = q]
        /\ UNCHANGED <<user, token, identityLock, userLock>>
    BY DEF Begin, IInv, TypeOK
  <1>3. TypeOK'
    BY <1>1, <1>2 DEF IInv, TypeOK
  <1>4. request'[r] = q
    BY <1>2
  <1>5. RequestOK(r)'
    BY <1>2, <1>4 DEF RequestOK, Holds, Refers, Read, Issued, Registered
  <1>6. QED
    BY <1>2, <1>3, <1>5, QuietStep

\* Whatever request arrives.
LEMMA ArriveOK ==
    ASSUME IInv, NEW r \in Requests, Arrive(r)
    PROVE  IInv'
  <1> USE BeginOK, IdentityAssumption DEF Operations, NoChange, Changes, Roles
  <1>1. /\ user \in [Users -> UserRow \cup {None}]
        /\ token \in [Tokens -> TokenRow \cup {None}]
    BY DEF IInv, TypeOK
  <1>2. \A x \in Users : user[x] # None =>
            user[x].password \in 0 .. MaxPasswords /\ user[x].role \in Roles
    BY <1>1 DEF UserRow
  <1>3. \A t \in Issued : token[t].user \in Users /\ user[token[t].user] # None
    BY DEF IInv, TokensOK, Registered
  <1>4. ASSUME NEW u \in Users, BeginRegister(r, u)
        PROVE  IInv'
    BY <1>4 DEF BeginRegister
  <1>5. ASSUME NEW u \in Users, BeginLogin(r, u)
        PROVE  IInv'
    BY <1>2, <1>5 DEF BeginLogin
  <1>6. ASSUME NEW a \in Users, NEW u \in Users, NEW role \in Given,
               BeginCreateMember(r, a, u, role)
        PROVE  IInv'
    BY <1>6 DEF BeginCreateMember, MayManage, Registered
  <1>7. ASSUME NEW a \in Users, NEW u \in Users, NEW change \in OneField,
               BeginUpdateMember(r, a, u, change)
        PROVE  IInv'
    <2>1. change \in Changes
      BY DEF OneField, Statuses
    <2>2. QED
      BY <1>2, <1>7, <2>1 DEF BeginUpdateMember, MayManage
  <1>8. ASSUME NEW t \in Tokens, BeginRefresh(r, t)
        PROVE  IInv'
    BY <1>3, <1>8 DEF BeginRefresh
  <1>9. ASSUME NEW f \in Tokens, BeginLogout(r, f)
        PROVE  IInv'
    BY <1>3, <1>9 DEF BeginLogout
  <1>10. ASSUME NEW f \in Tokens, BeginChangePassword(r, f)
         PROVE  IInv'
    BY <1>3, <1>10 DEF BeginChangePassword
  <1>11. QED
    BY <1>4, <1>5, <1>6, <1>7, <1>8, <1>9, <1>10 DEF Arrive

\* The lock a request waits for guards what it reads next.
LEMMA WaitOK ==
    ASSUME IInv, NEW r \in Requests, Wait(r)
    PROVE  IInv'
  <1> DEFINE q == request[r]
  <1>1. PICK stage \in {"identity", "ready", "reuse"} :
            /\ q # None
            /\ MoveTo(r, stage)
            /\ \/ /\ q.op \in {"register", "create"} \/ (q.op = "update" /\ stage = "identity")
                  /\ TakeIdentity(r)
               \/ /\ q.op \in {"login", "password", "logout", "refresh"}
                     \/ (q.op = "update" /\ q.stage = "identity")
                  /\ TakeRow(r)
    BY DEF Wait, LockForRegister, LockForCreate, LockForLogin, LockForPassword,
           LockForLogout, LockForRefresh, LockForReuse, LockForUpdate, LockMember, In
  <1>2. /\ request \in [Requests -> RequestRow \cup {None}]
        /\ q \in RequestRow
        /\ RequestOK(r)
        /\ userLock \in [Users -> Requests \cup {None}]
        /\ identityLock \in Requests \cup {None}
        /\ user \in [Users -> UserRow \cup {None}]
    BY <1>1 DEF IInv, TypeOK
  <1>3. q.user \in Users /\ q.op \in Operations
    BY <1>2 DEF RequestRow
  <1>4. request'[r] = [q EXCEPT !.stage = stage]
    BY <1>1, <1>2 DEF MoveTo
  <1>5. request'[r] \in RequestRow /\ request'[r] # None
    BY <1>2, <1>4, IdentityAssumption DEF RequestRow, Stages
  <1>6. TypeOK'
    <2>1. request' \in [Requests -> RequestRow \cup {None}]
      BY <1>1, <1>2, <1>4, <1>5 DEF MoveTo
    <2>2. /\ identityLock' \in Requests \cup {None}
          /\ userLock' \in [Users -> Requests \cup {None}]
      BY <1>1, <1>2, <1>3 DEF TakeIdentity, TakeRow
    <2>3. QED
      BY <1>1, <2>1, <2>2 DEF IInv, TypeOK, MoveTo
  <1>7. Holds(r)'
    <2>1. /\ request'[r].op = q.op /\ request'[r].stage = stage
          /\ request'[r].user = q.user
      BY <1>2, <1>4 DEF RequestRow
    <2>2. CASE TakeIdentity(r)
      BY <1>1, <1>2, <1>3, <2>1, <2>2 DEF TakeIdentity, TakeRow, RequestOK, Holds
    <2>3. CASE TakeRow(r)
      BY <1>1, <1>2, <1>3, <2>1, <2>3 DEF TakeIdentity, TakeRow, RequestOK, Holds
    <2>4. QED
      BY <1>1, <2>2, <2>3
  <1>8. Refers(r)'
    BY <1>1, <1>2, <1>4 DEF MoveTo, RequestOK, Refers, Issued, Registered, RequestRow
  <1>9. Read(r)'
    BY <1>1, <1>2, <1>3, <1>4
    DEF Wait, LockForRegister, LockForCreate, LockForLogin, LockForPassword,
        LockForLogout, LockForRefresh, LockForReuse, LockForUpdate, LockMember, In,
        MoveTo, Read, SignupAllowed, StillVerified, Spent, ChangeAllowed, RemovesOwner,
        ActiveOwners, Registered, RequestRow
  <1>10. QED
    BY <1>1, <1>2, <1>6, <1>7, <1>8, <1>9, QuietStep
    DEF MoveTo, TakeIdentity, TakeRow, RequestOK

\* A request that ends lets its locks go, whatever it has written.
LEMMA EndedRequest ==
    ASSUME TypeOK, NEW r \in Requests, EndRequest(r)
    PROVE  /\ request' \in [Requests -> RequestRow \cup {None}]
           /\ identityLock' \in Requests \cup {None}
           /\ userLock' \in [Users -> Requests \cup {None}]
           /\ request'[r] = None
           /\ \A x \in Requests \ {r} : request'[x] = request[x]
           /\ \A x \in Requests \ {r} : identityLock = x => identityLock' = x
           /\ \A x \in Requests \ {r}, u \in Users : userLock[u] = x => userLock'[u] = x
  BY DEF TypeOK, EndRequest

LEMMA RollBackOK ==
    ASSUME IInv, NEW r \in Requests, Refuse(r) \/ Fail(r)
    PROVE  IInv'
  <1>1. EndRequest(r) /\ UNCHANGED <<user, token>>
    BY DEF Refuse, Fail
  <1>2. TypeOK'
    BY <1>1, EndedRequest DEF IInv, TypeOK
  <1>3. RequestOK(r)'
    BY <1>1, EndedRequest DEF IInv, RequestOK
  <1>4. /\ identityLock' = identityLock \/ identityLock = r
        /\ \A u \in Users : userLock'[u] = userLock[u] \/ userLock[u] = r
    BY <1>1 DEF EndRequest, IInv, TypeOK
  <1>5. QED
    BY <1>1, <1>2, <1>3, <1>4, QuietStep, EndedRequest DEF IInv

-----------------------------------------------------------------------------
(* Steps that write and commit.                                            *)

\* A token that may be used after a step is of a new family, or of one that had such a
\* token before.
StaysDead ==
    \A t \in Tokens : token'[t] # None /\ ~token'[t].revoked =>
        \/ token'[t].family \notin Issued
        \/ \E s \in Issued : token[s].family = token'[t].family /\ ~token[s].revoked

LEMMA UntouchedStaysDead ==
    ASSUME token' = token
    PROVE  StaysDead
  BY DEF StaysDead, Issued

\* A commit keeps the invariant if the tables stay right and the rows that others
\* hold are left alone.
LEMMA CommittedOK ==
    ASSUME IInv, NEW r \in Requests, EndRequest(r),
           user' \in [Users -> UserRow \cup {None}],
           token' \in [Tokens -> TokenRow \cup {None}],
           Tables',
           \A x \in Requests \ {r} : SparesRows(x)
    PROVE  IInv'
  <1>1. TypeOK'
    BY EndedRequest DEF IInv, TypeOK
  <1>2. ASSUME NEW x \in Requests
        PROVE  RequestOK(x)'
    <2>1. CASE x = r
      BY <2>1, EndedRequest DEF IInv, RequestOK
    <2>2. CASE x # r
      <3>1. Spares(x)
        BY <2>2, EndedRequest DEF IInv, Spares
      <3>2. QED
        BY <3>1, SparedRequestOK DEF IInv
    <2>3. QED
      BY <2>1, <2>2
  <1>3. QED
    BY <1>1, <1>2 DEF IInv, Tables

\* A token that starts a family, for a user who is active and knows the password.
LEMMA NewFamily ==
    ASSUME IInv, NEW u \in Users, NEW t \in Tokens \ Issued,
           NEW password \in 1 .. MaxPasswords,
           FirstToken(u, t, password),
           user' \in [Users -> UserRow \cup {None}],
           user'[u] # None, user'[u].status = "active", user'[u].password = password,
           \A x \in Registered : user'[x] = user[x]
    PROVE  /\ token' \in [Tokens -> TokenRow \cup {None}]
           /\ TokensOK' /\ FamiliesAreChains'
           /\ DisabledUsersHaveNoSession' /\ SessionsKnowThePassword'
           /\ StaysDead
  <1> DEFINE new == [user |-> u, family |-> t, revoked |-> FALSE,
                     replacedBy |-> None, proved |-> password]
  <1>1. token \in [Tokens -> TokenRow \cup {None}]
    BY DEF IInv, TypeOK
  <1>2. new \in TokenRow /\ new # None
    <2>1. new \in TokenRow
      BY DEF TokenRow
    <2>2. QED
      BY <2>1, IdentityAssumption
  <1>3. /\ token' \in [Tokens -> TokenRow \cup {None}]
        /\ token'[t] = new
        /\ \A x \in Tokens \ {t} : token'[x] = token[x]
    BY <1>1, <1>2 DEF FirstToken
  <1>4. /\ t \notin Issued
        /\ Issued' = Issued \cup {t}
        /\ Issued \subseteq Tokens
    BY <1>2, <1>3 DEF Issued
  <1>5. \A x \in Issued : /\ token[x].family \in Issued
                          /\ token[x].replacedBy \in Issued \cup {None}
                          /\ token[x].user \in Registered
    BY DEF IInv, TokensOK
  <1>6. t # None
    BY IdentityAssumption
  <1>7. Registered \cup {u} \subseteq Registered'
    BY DEF Registered
  <1>8. TokensOK'
    <2>1. \A x \in Issued : token'[x] = token[x] /\ token'[token[x].family] = token[token[x].family]
      BY <1>3, <1>4, <1>5
    <2>2. QED
      BY <1>2, <1>3, <1>4, <1>7, <2>1 DEF IInv, TokensOK
  <1>9. FamiliesAreChains'
    <2>1. \A x \in Issued : token'[x] = token[x]
      BY <1>3, <1>4
    <2>2. ASSUME NEW x \in Issued, token[x].family # x
          PROVE  \E s \in Issued' : /\ token'[s].family = token'[x].family
                                    /\ {y \in Issued' : token'[y].replacedBy = x} = {s}
      <3>1. PICK s \in Issued : /\ token[s].family = token[x].family
                                /\ {y \in Issued : token[y].replacedBy = x} = {s}
        BY <2>2 DEF IInv, FamiliesAreChains
      <3>2. {y \in Issued' : token'[y].replacedBy = x} = {s}
        BY <1>3, <1>4, <2>1, <3>1, IdentityAssumption DEF Issued
      <3>3. QED
        BY <1>4, <2>1, <3>1, <3>2
    <2>3. ASSUME NEW x \in Issued', token'[x] # None, ~token'[x].revoked,
                 NEW y \in Issued', token'[y].family = token'[x].family, ~token'[y].revoked
          PROVE  x = y
      BY <1>3, <1>4, <1>5, <2>1, <2>3 DEF IInv, FamiliesAreChains, Live, FamilyOf, Issued
    <2>4. ASSUME NEW x \in Issued'
          PROVE  /\ token'[x].family \in Issued'
                 /\ token'[x].family # x => x \in Issued /\ token[x].family # x
      BY <1>3, <1>4, <1>5, <2>1
    <2>5. QED
      BY <1>4, <2>2, <2>3, <2>4 DEF FamiliesAreChains, Live, FamilyOf
  <1>10. DisabledUsersHaveNoSession'
    BY <1>3, <1>4, <1>5 DEF IInv, DisabledUsersHaveNoSession, Live
  <1>11. SessionsKnowThePassword'
    BY <1>3, <1>4, <1>5 DEF IInv, SessionsKnowThePassword, Live
  <1>12. StaysDead
    BY <1>3, <1>4 DEF StaysDead, Issued
  <1>13. QED
    BY <1>3, <1>8, <1>9, <1>10, <1>11, <1>12

\* Tokens that are only revoked, or proved again, stay in their chains.
LEMMA SameChains ==
    ASSUME IInv,
           \A t \in Tokens :
              /\ token'[t] = None <=> token[t] = None
              /\ token[t] # None =>
                    /\ token'[t].user = token[t].user
                    /\ token'[t].family = token[t].family
                    /\ token'[t].replacedBy = token[t].replacedBy
                    /\ token[t].revoked => token'[t].revoked,
           \A t \in Tokens : token'[t] # None => token'[t].revoked \in BOOLEAN,
           Registered \subseteq Registered'
    PROVE  TokensOK' /\ FamiliesAreChains'
  <1>1. Issued' = Issued
    BY DEF Issued
  <1>2. TokensOK'
    BY <1>1 DEF IInv, TokensOK, Issued
  <1>3. \A t \in Tokens : Live(t)' => Live(t)
    BY DEF Live, IInv, TypeOK, TokenRow
  <1>4. ASSUME NEW x \in Issued, token[x].family # x
        PROVE  \E s \in Issued : /\ token'[s].family = token'[x].family
                                 /\ {y \in Issued : token'[y].replacedBy = x} = {s}
    <2>1. PICK s \in Issued : /\ token[s].family = token[x].family
                              /\ {y \in Issued : token[y].replacedBy = x} = {s}
      BY <1>4 DEF IInv, FamiliesAreChains
    <2>2. {y \in Issued : token'[y].replacedBy = x} = {y \in Issued : token[y].replacedBy = x}
      BY DEF Issued
    <2>3. QED
      BY <2>1, <2>2 DEF Issued
  <1>5. \A x \in Issued : /\ token'[x].family = token[x].family
                          /\ token[x].family \in Issued
    BY DEF IInv, TokensOK, Issued
  <1>6. ASSUME NEW x \in Issued, Live(x)', NEW y \in Issued,
               token'[y].family = token'[x].family, Live(y)'
        PROVE  x = y
    <2>1. Live(x) /\ Live(y)
      BY <1>3, <1>6 DEF Issued
    <2>2. y \in FamilyOf(token[x].family)
      BY <1>5, <1>6 DEF FamilyOf
    <2>3. QED
      BY <2>1, <2>2 DEF IInv, FamiliesAreChains
  <1>7. FamiliesAreChains'
    BY <1>1, <1>4, <1>5, <1>6 DEF FamiliesAreChains, FamilyOf
  <1>8. QED
    BY <1>2, <1>7

\* The request at hand, as the commits below use it.
LEMMA AtCommit ==
    ASSUME IInv, NEW r \in Requests, request[r] # None
    PROVE  /\ request[r] \in RequestRow
           /\ request[r].user \in Users
           /\ Holds(r) /\ Refers(r) /\ Read(r)
           /\ user \in [Users -> UserRow \cup {None}]
           /\ token \in [Tokens -> TokenRow \cup {None}]
           /\ None \notin Requests
           /\ Tables
  <1>1. request[r] \in RequestRow
    BY DEF IInv, TypeOK
  <1>2. QED
    BY <1>1, IdentityAssumption DEF IInv, TypeOK, RequestOK, RequestRow, Tables

\* The first user signs up: nobody else is there, and the identity lock is held.
LEMMA RegisterOK ==
    ASSUME IInv, NEW r \in Requests, NEW t \in Tokens, CommitRegister(r, t)
    PROVE  IInv' /\ StaysDead
  <1> DEFINE u == request[r].user
             row == [role |-> "owner", status |-> "active", password |-> 1,
                     mustChange |-> FALSE]
  <1>1. /\ request[r] # None /\ request[r].op = "register" /\ request[r].stage = "ready"
        /\ t \in Tokens \ Issued
        /\ user' = [user EXCEPT ![u] = row]
        /\ FirstToken(u, t, 1)
        /\ EndRequest(r)
    BY DEF CommitRegister, In
  <1>2. u \in Users /\ Holds(r) /\ Read(r) /\ None \notin Requests
        /\ user \in [Users -> UserRow \cup {None}]
    BY <1>1, AtCommit
  <1>3. Registered = {} /\ identityLock = r
    BY <1>1, <1>2 DEF Holds, Read
  <1>4. row \in UserRow
    BY IdentityAssumption DEF UserRow, Roles, Statuses
  <1>5. row # None
    BY <1>4, IdentityAssumption
  <1>6. /\ user' \in [Users -> UserRow \cup {None}]
        /\ user'[u] = row
    BY <1>1, <1>2, <1>4
  <1>7. Issued = {}
    BY <1>3 DEF IInv, TokensOK
  <1>8. 1 \in 1 .. MaxPasswords
    BY IdentityAssumption
  <1>9. /\ token' \in [Tokens -> TokenRow \cup {None}]
        /\ TokensOK' /\ FamiliesAreChains'
        /\ DisabledUsersHaveNoSession' /\ SessionsKnowThePassword'
        /\ StaysDead
    BY <1>1, <1>2, <1>3, <1>5, <1>6, <1>8, NewFamily
  <1>10. u \in ActiveOwners'
    BY <1>2, <1>5, <1>6 DEF ActiveOwners, Registered
  <1>11. AnOwnerRemains'
    BY <1>10 DEF AnOwnerRemains
  <1>12. ASSUME NEW x \in Requests \ {r}
         PROVE  SparesRows(x)
    BY <1>3, <1>7 DEF SparesRows, Registered, Issued
  <1>13. QED
    BY <1>1, <1>6, <1>9, <1>11, <1>12, CommittedOK DEF Tables

\* A login opens a family of its own, under the lock on the row it has verified.
LEMMA LoginOK ==
    ASSUME IInv, NEW r \in Requests, NEW t \in Tokens, CommitLogin(r, t)
    PROVE  IInv' /\ StaysDead
  <1> DEFINE u == request[r].user
  <1>1. /\ request[r] # None /\ request[r].op = "login" /\ request[r].stage = "ready"
        /\ t \in Tokens \ Issued
        /\ FirstToken(u, t, request[r].verified)
        /\ EndRequest(r)
        /\ user' = user
    BY DEF CommitLogin, In
  <1>2. /\ u \in Users /\ Refers(r) /\ Read(r)
        /\ user \in [Users -> UserRow \cup {None}]
        /\ token \in [Tokens -> TokenRow \cup {None}]
    BY <1>1, AtCommit
  <1>3. /\ user[u] # None
        /\ user[u].password = request[r].verified
        /\ user[u].status = "active"
    BY <1>1, <1>2 DEF Refers, Read, StillVerified
  <1>4. request[r].verified \in 1 .. MaxPasswords
    BY <1>2, <1>3 DEF UserRow
  <1>5. /\ token' \in [Tokens -> TokenRow \cup {None}]
        /\ TokensOK' /\ FamiliesAreChains'
        /\ DisabledUsersHaveNoSession' /\ SessionsKnowThePassword'
        /\ StaysDead
    BY <1>1, <1>2, <1>3, <1>4, NewFamily
  <1>6. AnOwnerRemains'
    BY <1>1 DEF IInv, AnOwnerRemains, Registered, ActiveOwners
  <1>7. ASSUME NEW x \in Requests \ {r}
        PROVE  SparesRows(x)
    <2>1. \A y \in Tokens : token[y] # None => token'[y] = token[y]
      BY <1>1, <1>2 DEF FirstToken, Issued
    <2>2. ActiveOwners' = ActiveOwners
      BY <1>1 DEF ActiveOwners, Registered
    <2>3. QED
      BY <1>1, <2>1, <2>2 DEF SparesRows
  <1>8. QED
    BY <1>1, <1>2, <1>5, <1>6, <1>7, CommittedOK DEF Tables

\* The rows that RotateRefreshToken leaves of a row.
LEMMA RotatedRows ==
    ASSUME NEW row \in TokenRow, NEW t
    PROVE  /\ LET new == [row EXCEPT !.revoked = FALSE, !.replacedBy = None] IN
              /\ new.user = row.user /\ new.family = row.family /\ ~new.revoked
              /\ new.replacedBy = None /\ new.proved = row.proved
           /\ LET spent == [row EXCEPT !.replacedBy = t, !.revoked = TRUE] IN
              /\ spent.user = row.user /\ spent.family = row.family /\ spent.revoked
              /\ spent.replacedBy = t /\ spent.proved = row.proved
  <1> DEFINE one == [row EXCEPT !.revoked = FALSE]
             new == [one EXCEPT !.replacedBy = None]
             two == [row EXCEPT !.replacedBy = t]
             spent == [two EXCEPT !.revoked = TRUE]
  <1>1. /\ one.user = row.user /\ one.family = row.family /\ one.revoked = FALSE
        /\ one.proved = row.proved
    BY DEF TokenRow
  <1>2. /\ two.user = row.user /\ two.family = row.family /\ two.replacedBy = t
        /\ two.proved = row.proved
    BY DEF TokenRow
  <1>3. QED
    BY <1>1, <1>2 DEF TokenRow

\* A refresh replaces the one live token of its family, which nobody has used since.
LEMMA RefreshOK ==
    ASSUME IInv, NEW r \in Requests, NEW t \in Tokens, CommitRefresh(r, t)
    PROVE  IInv' /\ StaysDead
  <1> DEFINE u == request[r].user
             old == request[r].token
             new == [token[old] EXCEPT !.revoked = FALSE, !.replacedBy = None]
             spent == [token[old] EXCEPT !.replacedBy = t, !.revoked = TRUE]
  <1>1. /\ request[r] # None /\ request[r].op = "refresh" /\ request[r].stage = "ready"
        /\ t \in Tokens \ Issued
        /\ token' = [token EXCEPT ![t] = new, ![old].replacedBy = t, ![old].revoked = TRUE]
        /\ EndRequest(r)
        /\ user' = user
    BY DEF CommitRefresh, In
  <1>2. /\ u \in Users /\ Holds(r) /\ Refers(r) /\ Read(r) /\ None \notin Requests
        /\ user \in [Users -> UserRow \cup {None}]
        /\ token \in [Tokens -> TokenRow \cup {None}]
        /\ request[r] \in RequestRow
    BY <1>1, AtCommit
  <1>3. /\ old \in Issued /\ old \in Tokens /\ token[old] # None /\ token[old].user = u
        /\ userLock[u] = r
        /\ ~token[old].revoked /\ token[old].replacedBy = None
        /\ user[u].status = "active"
    BY <1>1, <1>2 DEF Holds, Refers, Read, Spent, Issued
  <1>4. token[old] \in TokenRow
    BY <1>2, <1>3
  <1>5. /\ new \in TokenRow /\ spent \in TokenRow
    BY <1>1, <1>4 DEF TokenRow
  <1>6. new # None /\ spent # None
    BY <1>5, IdentityAssumption
  <1>7. /\ token' \in [Tokens -> TokenRow \cup {None}]
        /\ token'[t] = new /\ token'[old] = spent
        /\ \A x \in Tokens \ {t, old} : token'[x] = token[x]
        /\ t # old
    BY <1>1, <1>2, <1>3, <1>4, <1>5
  <1>8. /\ new.user = u /\ new.family = token[old].family /\ ~new.revoked
        /\ new.replacedBy = None /\ new.proved = token[old].proved
        /\ spent.user = u /\ spent.family = token[old].family /\ spent.revoked
        /\ spent.replacedBy = t
    BY <1>3, <1>4, RotatedRows
  <1> HIDE DEF new, spent
  <1>9. /\ Issued' = Issued \cup {t} /\ t \notin Issued /\ t \in Tokens
        /\ Issued \subseteq Tokens
    <2>1. t \notin Issued /\ t \in Tokens /\ Issued \subseteq Tokens
      BY <1>1 DEF Issued
    <2>2. \A x \in Tokens : x \in Issued' <=> x \in Issued \/ x = t
      BY <1>3, <1>6, <1>7 DEF Issued
    <2>3. Issued' \subseteq Tokens
      BY DEF Issued
    <2>4. QED
      BY <2>1, <2>2, <2>3
  <1>10. \A x \in Issued : /\ token'[x].user = token[x].user
                           /\ token'[x].family = token[x].family
                           /\ x # old => token'[x] = token[x]
    BY <1>3, <1>7, <1>8, <1>9
  <1>11. \A x \in Issued : LET f == token[x].family IN
                           /\ f \in Issued /\ token[f].user = token[x].user
                           /\ token[f].family = f
                           /\ token[x].replacedBy \in Issued \cup {None}
                           /\ token[x].user \in Registered
    BY DEF IInv, TokensOK
  <1>12. TokensOK'
    <2>1. Registered' = Registered
      BY <1>1 DEF Registered
    <2>2. ASSUME NEW x \in Issued'
          PROVE  LET f == token'[x].family IN
                 /\ token'[x].user \in Registered
                 /\ f \in Issued'
                 /\ token'[f].user = token'[x].user
                 /\ token'[f].family = f
                 /\ token'[x].replacedBy \in Issued' \cup {None}
      <3>1. CASE x = t
        BY <1>3, <1>7, <1>8, <1>9, <1>10, <1>11, <3>1
      <3>2. CASE x = old
        BY <1>3, <1>7, <1>8, <1>9, <1>10, <1>11, <3>2
      <3>3. CASE x \in Issued \ {old}
        BY <1>9, <1>10, <1>11, <3>3
      <3>4. QED
        BY <1>9, <2>2, <3>1, <3>2, <3>3
    <2>3. QED
      BY <2>1, <2>2 DEF TokensOK
  <1>13. FamiliesAreChains'
    <2>1. ASSUME NEW x \in Issued', token'[x].family # x
          PROVE  \E s \in Issued' : /\ token'[s].family = token'[x].family
                                    /\ {y \in Issued' : token'[y].replacedBy = x} = {s}
      <3>1. CASE x = t
        <4>1. {y \in Issued' : token'[y].replacedBy = t} = {old}
          BY <1>3, <1>7, <1>8, <1>9, <1>10, <1>11, IdentityAssumption
        <4>2. QED
          BY <1>3, <1>7, <1>8, <1>9, <3>1, <4>1
      <3>2. CASE x \in Issued
        <4>1. token[x].family # x
          BY <1>10, <2>1, <3>2
        <4>2. PICK s \in Issued : /\ token[s].family = token[x].family
                                  /\ {y \in Issued : token[y].replacedBy = x} = {s}
          BY <4>1, <3>2 DEF IInv, FamiliesAreChains
        <4>3. x # None /\ x # t
          BY <1>9, <3>2, IdentityAssumption
        <4>4. {y \in Issued' : token'[y].replacedBy = x}
                = {y \in Issued : token[y].replacedBy = x}
          BY <1>3, <1>7, <1>8, <1>9, <1>10, <4>3
        <4>5. QED
          BY <1>9, <1>10, <3>2, <4>2, <4>4
      <3>3. QED
        BY <1>9, <2>1, <3>1, <3>2
    <2>2. ASSUME NEW x \in Issued', ~token'[x].revoked,
                 NEW y \in Issued', ~token'[y].revoked,
                 token'[x].family = token'[y].family
          PROVE  x = y
      <3>1. \A z \in Issued : token[z].family = token[old].family /\ ~token[z].revoked
                                => z = old
        BY <1>3 DEF IInv, FamiliesAreChains, Live, FamilyOf, Issued
      <3>2. \A z \in Issued, w \in Issued :
               token[z].family = token[w].family /\ ~token[z].revoked /\ ~token[w].revoked
                  => z = w
        BY DEF IInv, FamiliesAreChains, Live, FamilyOf, Issued
      <3>3. x # old /\ y # old
        BY <1>7, <1>8, <2>2
      <3>4. QED
        BY <1>7, <1>8, <1>9, <1>10, <2>2, <3>1, <3>2, <3>3
    <2>3. \A x \in Issued' : token'[x].family \in Issued'
      BY <1>12 DEF TokensOK
    <2>4. QED
      BY <2>1, <2>2, <2>3 DEF FamiliesAreChains, Live, FamilyOf
  <1>14. /\ DisabledUsersHaveNoSession'
         /\ SessionsKnowThePassword'
    <2>1. Live(old)
      BY <1>3 DEF Live
    <2>2. ASSUME NEW x \in Issued', Live(x)'
          PROVE  \E y \in Issued : /\ Live(y)
                                   /\ token'[x].user = token[y].user
                                   /\ token'[x].proved = token[y].proved
      <3>1. CASE x = t
        BY <1>3, <1>7, <1>8, <2>1, <3>1
      <3>2. CASE x # t
        BY <1>7, <1>8, <1>9, <1>10, <2>2, <3>2 DEF Live
      <3>3. QED
        BY <3>1, <3>2
    <2>3. QED
      BY <1>1, <2>2 DEF IInv, DisabledUsersHaveNoSession, SessionsKnowThePassword
  <1>15. AnOwnerRemains'
    BY <1>1 DEF IInv, AnOwnerRemains, Registered, ActiveOwners
  <1>16. ASSUME NEW x \in Requests \ {r}
         PROVE  SparesRows(x)
    <2>1. \A y \in Tokens : token[y] # None => y \in Issued
      BY DEF Issued
    <2>2. ActiveOwners' = ActiveOwners
      BY <1>1 DEF ActiveOwners, Registered
    <2>3. \A y \in Tokens : token[y] # None => token'[y] # None
      BY <1>6, <1>7
    <2>4. \A v \in Users : userLock[v] = x => v # u
      BY <1>3, <1>16
    <2>5. \A y \in Tokens : token[y] # None /\ token[y].user # u => token'[y] = token[y]
      BY <1>3, <1>10, <2>1
    <2>6. QED
      BY <1>1, <1>10, <2>1, <2>2, <2>3, <2>4, <2>5 DEF SparesRows
  <1>17. StaysDead
    BY <1>3, <1>7, <1>8, <1>9, <1>10 DEF StaysDead, Issued
  <1>18. QED
    BY <1>1, <1>2, <1>7, <1>12, <1>13, <1>14, <1>15, <1>16, <1>17, CommittedOK DEF Tables

\* RevokeRefreshFamily and RevokeUserRefreshTokens change nothing but revoked.
LEMMA RevokedRows ==
    ASSUME TypeOK, NEW S, NEW x \in Tokens
    PROVE  LET row == Revoke(S)[x] IN
           /\ row \in TokenRow \cup {None}
           /\ row = None <=> token[x] = None
           /\ x \notin S => row = token[x]
           /\ token[x] # None =>
                 /\ row.user = token[x].user /\ row.family = token[x].family
                 /\ row.replacedBy = token[x].replacedBy /\ row.proved = token[x].proved
                 /\ token[x].revoked => row.revoked
                 /\ x \in S => row.revoked
  <1>1. token[x] \in TokenRow \cup {None}
    BY DEF TypeOK
  <1>2. CASE x \in S /\ token[x] # None
    <2> DEFINE row == [token[x] EXCEPT !.revoked = TRUE]
    <2>1. Revoke(S)[x] = row
      BY <1>2 DEF Revoke
    <2>2. row \in TokenRow
      BY <1>1, <1>2 DEF TokenRow
    <2>3. row # None
      BY <2>2, IdentityAssumption
    <2>4. /\ row.user = token[x].user /\ row.family = token[x].family
          /\ row.replacedBy = token[x].replacedBy /\ row.proved = token[x].proved
          /\ row.revoked = TRUE
      BY <1>1, <1>2 DEF TokenRow
    <2>5. QED
      BY <1>2, <2>1, <2>2, <2>3, <2>4
  <1>3. CASE ~(x \in S /\ token[x] # None)
    BY <1>1, <1>3 DEF Revoke
  <1>4. QED
    BY <1>2, <1>3

\* A family is revoked under the lock on its user's row.
LEMMA RevokeFamilyOK ==
    ASSUME IInv, NEW r \in Requests, CommitRevokeFamily(r)
    PROVE  IInv' /\ StaysDead
  <1> DEFINE u == request[r].user
             S == FamilyOf(token[request[r].token].family)
  <1>1. /\ request[r] # None /\ request[r].op \in {"refresh", "logout"}
        /\ request[r].stage \in {"ready", "reuse"}
        /\ token' = Revoke(S)
        /\ EndRequest(r)
        /\ user' = user
    BY DEF CommitRevokeFamily, In
  <1>2. /\ u \in Users /\ userLock[u] = r /\ request[r].token \in Issued
        /\ token[request[r].token].user = u
        /\ user \in [Users -> UserRow \cup {None}]
        /\ token \in [Tokens -> TokenRow \cup {None}]
    BY <1>1, AtCommit DEF Holds, Refers
  <1>3. \A x \in S : token[x].user = u
    BY <1>2 DEF IInv, TokensOK, FamilyOf
  <1>4. TypeOK
    BY DEF IInv
  <1>5. /\ token' \in [Tokens -> TokenRow \cup {None}]
        /\ \A x \in Tokens : token'[x] = Revoke(S)[x]
    BY <1>1, <1>4, RevokedRows DEF Revoke
  <1>6. \A x \in Tokens :
           /\ token'[x] = None <=> token[x] = None
           /\ x \notin S => token'[x] = token[x]
           /\ token[x] # None =>
                 /\ token'[x].user = token[x].user /\ token'[x].family = token[x].family
                 /\ token'[x].replacedBy = token[x].replacedBy
                 /\ token'[x].proved = token[x].proved
                 /\ token[x].revoked => token'[x].revoked
    BY <1>4, <1>5, RevokedRows
  <1>7. \A x \in Tokens : token'[x] # None => token'[x].revoked \in BOOLEAN
    BY <1>5 DEF TokenRow
  <1>8. TokensOK' /\ FamiliesAreChains'
    BY <1>1, <1>6, <1>7, SameChains DEF Registered
  <1>9. DisabledUsersHaveNoSession' /\ SessionsKnowThePassword'
    <2>1. ASSUME NEW x \in Issued', Live(x)'
          PROVE  /\ x \in Issued /\ Live(x)
                 /\ token'[x].user = token[x].user /\ token'[x].proved = token[x].proved
      <3>1. x \in Tokens /\ token'[x] # None /\ ~token'[x].revoked
        BY <2>1 DEF Issued, Live
      <3>2. QED
        BY <1>6, <3>1 DEF Issued, Live
    <2>2. QED
      BY <1>1, <2>1 DEF IInv, DisabledUsersHaveNoSession, SessionsKnowThePassword
  <1>10. AnOwnerRemains'
    BY <1>1 DEF IInv, AnOwnerRemains, Registered, ActiveOwners
  <1>11. ASSUME NEW x \in Requests \ {r}
         PROVE  SparesRows(x)
    <2>1. ActiveOwners' = ActiveOwners
      BY <1>1 DEF ActiveOwners, Registered
    <2>2. \A v \in Users : userLock[v] = x => v # u
      BY <1>2, <1>11
    <2>3. \A y \in Tokens : token[y].user # u => token'[y] = token[y]
      BY <1>3, <1>6
    <2>4. QED
      BY <1>1, <1>6, <2>1, <2>2, <2>3 DEF SparesRows
  <1>12. StaysDead
    BY <1>6 DEF StaysDead, Issued
  <1>13. QED
    BY <1>1, <1>2, <1>5, <1>8, <1>9, <1>10, <1>11, <1>12, CommittedOK DEF Tables

\* What ChangePassword writes: the row of the user, the caller's family and the others.
LEMMA PasswordWrites ==
    ASSUME IInv, NEW r \in Requests, CommitPassword(r)
    PROVE  LET u == request[r].user
               new == user[u].password + 1
               mine == FamilyOf(request[r].token)
               S == TokensOf(u)
           IN  /\ user' \in [Users -> UserRow \cup {None}]
               /\ user'[u] = [user[u] EXCEPT !.password = new, !.mustChange = FALSE]
               /\ user'[u] # None
               /\ user'[u].status = user[u].status /\ user'[u].role = user[u].role
               /\ user'[u].password = new
               /\ \A x \in Users \ {u} : user'[x] = user[x]
               /\ token' = [x \in Tokens |-> token'[x]]
               /\ \A x \in mine :
                     /\ x \in Tokens /\ token[x] # None /\ token[x].user = u
                     /\ token'[x] \in TokenRow /\ token'[x] # None
                     /\ token'[x].user = u /\ token'[x].family = token[x].family
                     /\ token'[x].replacedBy = token[x].replacedBy
                     /\ token'[x].proved = new
                     /\ token'[x].revoked = token[x].revoked
               /\ \A x \in Tokens \ mine :
                     /\ token'[x] \in TokenRow \cup {None}
                     /\ token'[x] = None <=> token[x] = None
                     /\ x \notin S => token'[x] = token[x]
                     /\ token[x] # None =>
                           /\ token'[x].user = token[x].user
                           /\ token'[x].family = token[x].family
                           /\ token'[x].replacedBy = token[x].replacedBy
                           /\ token'[x].proved = token[x].proved
                           /\ token[x].revoked => token'[x].revoked
                           /\ x \in S => token'[x].revoked
  <1> DEFINE u == request[r].user
             new == user[u].password + 1
             mine == FamilyOf(request[r].token)
             row == [user[u] EXCEPT !.password = new, !.mustChange = FALSE]
             S == TokensOf(u)
  <1>1. /\ request[r] # None /\ request[r].op = "password" /\ request[r].stage = "ready"
        /\ user' = [user EXCEPT ![u].password = new, ![u].mustChange = FALSE]
        /\ token' = [t \in Tokens |-> IF t \in mine THEN [token[t] EXCEPT !.proved = new]
                                      ELSE Revoke(S)[t]]
        /\ EndRequest(r)
    BY DEF CommitPassword, In
  <1>2. /\ u \in Users /\ userLock[u] = r /\ request[r].token \in Issued
        /\ token[request[r].token].user = u
        /\ token[request[r].token].family = request[r].token
        /\ user[u] # None /\ user[u].status = "active"
        /\ user[u].password < MaxPasswords
        /\ user \in [Users -> UserRow \cup {None}]
        /\ token \in [Tokens -> TokenRow \cup {None}]
    BY <1>1, AtCommit DEF Holds, Refers, Read
  <1>3. user[u] \in UserRow
    BY <1>2
  <1>4. new \in 1 .. MaxPasswords
    BY <1>2, <1>3, IdentityAssumption DEF UserRow
  <1>5. /\ row \in UserRow /\ row # None
        /\ row.status = user[u].status /\ row.role = user[u].role /\ row.password = new
    <2>1. row \in UserRow
      BY <1>3, <1>4 DEF UserRow
    <2>2. row # None
      BY <2>1, IdentityAssumption
    <2>3. /\ row.status = user[u].status /\ row.role = user[u].role
          /\ row.password = new
      <3> DEFINE half == [user[u] EXCEPT !.password = new]
      <3>1. /\ half.status = user[u].status /\ half.role = user[u].role
            /\ half.password = new
        BY <1>3 DEF UserRow
      <3>2. QED
        BY <1>3, <3>1 DEF UserRow
    <2>4. QED
      BY <2>1, <2>2, <2>3
  <1>6. /\ user' \in [Users -> UserRow \cup {None}]
        /\ user'[u] = row
        /\ \A x \in Users \ {u} : user'[x] = user[x]
    BY <1>1, <1>2, <1>3, <1>5
  <1> HIDE DEF row, new
  <1>7. \A x \in mine : /\ x \in Tokens /\ token[x] \in TokenRow /\ token[x] # None
                        /\ token[x].user = u
    BY <1>2 DEF IInv, TokensOK, FamilyOf, Issued
  <1>8. ASSUME NEW x \in mine
        PROVE  /\ token'[x] \in TokenRow /\ token'[x] # None
               /\ token'[x].user = u /\ token'[x].family = token[x].family
               /\ token'[x].replacedBy = token[x].replacedBy
               /\ token'[x].proved = new
               /\ token'[x].revoked = token[x].revoked
    <2> DEFINE proven == [token[x] EXCEPT !.proved = new]
    <2>1. token'[x] = proven
      BY <1>1, <1>7
    <2>2. proven \in TokenRow
      BY <1>4, <1>7 DEF TokenRow
    <2>3. proven # None
      BY <2>2, IdentityAssumption
    <2>4. /\ proven.user = u /\ proven.family = token[x].family
          /\ proven.replacedBy = token[x].replacedBy /\ proven.proved = new
          /\ proven.revoked = token[x].revoked
      BY <1>7 DEF TokenRow
    <2>5. QED
      BY <2>1, <2>2, <2>3, <2>4
  <1>9. ASSUME NEW x \in Tokens \ mine
        PROVE  /\ token'[x] \in TokenRow \cup {None}
               /\ token'[x] = None <=> token[x] = None
               /\ x \notin S => token'[x] = token[x]
               /\ token[x] # None =>
                     /\ token'[x].user = token[x].user
                     /\ token'[x].family = token[x].family
                     /\ token'[x].replacedBy = token[x].replacedBy
                     /\ token'[x].proved = token[x].proved
                     /\ token[x].revoked => token'[x].revoked
                     /\ x \in S => token'[x].revoked
    <2>1. token'[x] = Revoke(S)[x]
      BY <1>1, <1>9
    <2>2. TypeOK
      BY DEF IInv
    <2>3. QED
      BY <2>1, <2>2, RevokedRows
  <1>10. token' = [x \in Tokens |-> token'[x]]
    BY <1>1
  <1>11. user'[u] = [user[u] EXCEPT !.password = new, !.mustChange = FALSE]
    BY <1>6 DEF row
  <1>12. QED
    BY <1>5, <1>6, <1>7, <1>8, <1>9, <1>10, <1>11 DEF new

\* A new password leaves the user one session, which has set it.
LEMMA PasswordOK ==
    ASSUME IInv, NEW r \in Requests, CommitPassword(r)
    PROVE  IInv' /\ StaysDead
  <1> DEFINE u == request[r].user
             new == user[u].password + 1
             mine == FamilyOf(request[r].token)
             S == TokensOf(u)
  <1>1. /\ request[r] # None /\ request[r].op = "password" /\ request[r].stage = "ready"
        /\ EndRequest(r)
    BY DEF CommitPassword, In
  <1>2. /\ u \in Users /\ userLock[u] = r /\ request[r].token \in Issued
        /\ token[request[r].token].user = u
        /\ token[request[r].token].family = request[r].token
        /\ user[u] # None /\ user[u].status = "active"
        /\ user[u].password < MaxPasswords
        /\ user \in [Users -> UserRow \cup {None}]
        /\ token \in [Tokens -> TokenRow \cup {None}]
    BY <1>1, AtCommit DEF Holds, Refers, Read
  <1>5. /\ user'[u] # None
        /\ user'[u].status = user[u].status /\ user'[u].role = user[u].role
        /\ user'[u].password = new
    BY PasswordWrites, ZenonT(60)
  <1>6. /\ user' \in [Users -> UserRow \cup {None}]
        /\ \A x \in Users \ {u} : user'[x] = user[x]
    BY PasswordWrites, ZenonT(60)
  <1>7. \A x \in mine : x \in Tokens /\ token[x] # None /\ token[x].user = u
    BY PasswordWrites, ZenonT(60)
  <1>8. \A x \in mine :
           /\ token'[x] \in TokenRow /\ token'[x] # None
           /\ token'[x].user = u /\ token'[x].family = token[x].family
           /\ token'[x].replacedBy = token[x].replacedBy
           /\ token'[x].proved = new
           /\ token'[x].revoked = token[x].revoked
    BY PasswordWrites, ZenonT(60)
  <1>9. \A x \in Tokens \ mine :
           /\ token'[x] \in TokenRow \cup {None}
           /\ token'[x] = None <=> token[x] = None
           /\ x \notin S => token'[x] = token[x]
           /\ token[x] # None =>
                 /\ token'[x].user = token[x].user
                 /\ token'[x].family = token[x].family
                 /\ token'[x].replacedBy = token[x].replacedBy
                 /\ token'[x].proved = token[x].proved
                 /\ token[x].revoked => token'[x].revoked
                 /\ x \in S => token'[x].revoked
    BY PasswordWrites, ZenonT(60)
  <1> HIDE DEF new
  <1>10. token' \in [Tokens -> TokenRow \cup {None}]
    <2>1. \A x \in Tokens : token'[x] \in TokenRow \cup {None}
      BY <1>8, <1>9
    <2>2. token' = [x \in Tokens |-> token'[x]]
      BY PasswordWrites, ZenonT(60)
    <2>3. QED
      BY <2>1, <2>2
  <1>11. TokensOK' /\ FamiliesAreChains'
    <2>1. \A x \in Tokens : token'[x] # None => token'[x].revoked \in BOOLEAN
      BY <1>10 DEF TokenRow
    <2>2. Registered \subseteq Registered'
      BY <1>5, <1>6 DEF Registered
    <2>3. QED
      BY <1>7, <1>8, <1>9, <2>1, <2>2, SameChains
  <1>12. ASSUME NEW x \in Tokens, Live(x)'
         PROVE  \/ x \in mine /\ token'[x].user = u /\ token'[x].proved = new
                \/ /\ Live(x) /\ token[x].user # u
                   /\ token'[x].user = token[x].user /\ token'[x].proved = token[x].proved
    <2>1. CASE x \in mine
      BY <1>8, <2>1
    <2>2. CASE x \notin mine
      BY <1>9, <1>12, <2>2 DEF Live, TokensOf, Issued
    <2>3. QED
      BY <2>1, <2>2
  <1>13. Issued \subseteq Tokens /\ Issued' \subseteq Tokens
    BY DEF Issued
  <1>14. \A x \in Tokens : Live(x) => x \in Issued /\ token[x].user \in Users
    BY DEF Live, Issued, IInv, TokensOK, Registered
  <1>15. DisabledUsersHaveNoSession'
    BY <1>2, <1>5, <1>6, <1>12, <1>13, <1>14 DEF IInv, DisabledUsersHaveNoSession
  <1>16. SessionsKnowThePassword'
    BY <1>2, <1>5, <1>6, <1>12, <1>13, <1>14 DEF IInv, SessionsKnowThePassword
  <1>17. Registered' = Registered /\ ActiveOwners' = ActiveOwners
    BY <1>2, <1>5, <1>6 DEF ActiveOwners, Registered
  <1>18. AnOwnerRemains'
    BY <1>17 DEF IInv, AnOwnerRemains
  <1>19. ASSUME NEW x \in Requests \ {r}
         PROVE  SparesRows(x)
    <2>1. \A v \in Users : userLock[v] = x => v # u
      BY <1>2, <1>19
    <2>2. \A y \in Tokens : token[y] # None /\ token[y].user # u => token'[y] = token[y]
      BY <1>7, <1>9 DEF TokensOf
    <2>3. \A y \in Tokens : token[y] # None => /\ token'[y] # None
                                               /\ token'[y].user = token[y].user
                                               /\ token'[y].family = token[y].family
      BY <1>7, <1>8, <1>9
    <2>4. \A v \in Users : user[v] = None <=> user'[v] = None
      BY <1>2, <1>5, <1>6
    <2>5. QED
      BY <1>6, <1>17, <2>1, <2>2, <2>3, <2>4 DEF SparesRows
  <1>20. StaysDead
    BY <1>7, <1>8, <1>9 DEF StaysDead, Issued
  <1>21. QED
    BY <1>1, <1>6, <1>10, <1>11, <1>15, <1>16, <1>18, <1>19, <1>20, CommittedOK DEF Tables

\* A new member has no session yet, and no row that another request could work on.
LEMMA CreateOK ==
    ASSUME IInv, NEW r \in Requests, CommitCreate(r)
    PROVE  IInv' /\ StaysDead
  <1> DEFINE u == request[r].user
             row == [role |-> request[r].change.role, status |-> "active",
                     password |-> 1, mustChange |-> TRUE]
  <1>1. /\ request[r] # None /\ request[r].op = "create" /\ request[r].stage = "ready"
        /\ user' = [user EXCEPT ![u] = row]
        /\ EndRequest(r)
        /\ token' = token
    BY DEF CommitCreate, In
  <1>2. /\ u \in Users /\ identityLock = r /\ user[u] = None
        /\ request[r].change.role \in Roles
        /\ user \in [Users -> UserRow \cup {None}]
        /\ token \in [Tokens -> TokenRow \cup {None}]
    BY <1>1, AtCommit DEF Holds, Refers, Read
  <1>3. row \in UserRow
    BY <1>2, IdentityAssumption DEF UserRow, Statuses
  <1>4. row # None
    BY <1>3, IdentityAssumption
  <1>5. /\ user' \in [Users -> UserRow \cup {None}]
        /\ user'[u] # None
        /\ \A x \in Users \ {u} : user'[x] = user[x]
    BY <1>1, <1>2, <1>3, <1>4
  <1>6. u \notin Registered /\ \A x \in Registered : x \in Registered' /\ user'[x] = user[x]
    BY <1>2, <1>5 DEF Registered
  <1>7. Issued' = Issued /\ \A t \in Issued : token[t].user \in Registered
    BY <1>1 DEF Issued, IInv, TokensOK
  <1>8. TokensOK' /\ FamiliesAreChains'
    <2>1. TokensOK'
      BY <1>1, <1>6, <1>7 DEF IInv, TokensOK
    <2>2. FamiliesAreChains'
      BY <1>1, <1>7 DEF IInv, FamiliesAreChains, Live, FamilyOf
    <2>3. QED
      BY <2>1, <2>2
  <1>9. DisabledUsersHaveNoSession' /\ SessionsKnowThePassword'
    BY <1>1, <1>6, <1>7
    DEF IInv, DisabledUsersHaveNoSession, SessionsKnowThePassword, Live
  <1>10. AnOwnerRemains'
    <2>1. Registered # {}
      BY <1>1, AtCommit DEF Refers
    <2>2. PICK a \in ActiveOwners : TRUE
      BY <2>1 DEF IInv, AnOwnerRemains
    <2>3. a \in ActiveOwners'
      BY <1>6, <2>2 DEF ActiveOwners
    <2>4. QED
      BY <2>3 DEF AnOwnerRemains
  <1>11. ASSUME NEW x \in Requests \ {r}
         PROVE  SparesRows(x)
    BY <1>1, <1>2, <1>5, <1>6 DEF SparesRows, Registered
  <1>12. StaysDead
    BY <1>1, UntouchedStaysDead
  <1>13. QED
    BY <1>1, <1>2, <1>5, <1>8, <1>9, <1>10, <1>11, <1>12, CommittedOK DEF Tables

\* What UpdateMember writes: the row, and if it disables the user, all tokens.
LEMMA UpdateWrites ==
    ASSUME IInv, NEW r \in Requests, CommitUpdate(r)
    PROVE  LET u == request[r].user
               change == request[r].change
               role == OrElse(change.role, user[u].role)
               status == OrElse(change.status, user[u].status)
               S == TokensOf(u)
           IN  /\ role \in Roles /\ status \in Statuses
               /\ user' \in [Users -> UserRow \cup {None}]
               /\ user'[u] = [user[u] EXCEPT !.role = role, !.status = status]
               /\ user'[u] # None
               /\ user'[u].role = role /\ user'[u].status = status
               /\ user'[u].password = user[u].password
               /\ \A x \in Users \ {u} : user'[x] = user[x]
               /\ token' = [x \in Tokens |-> token'[x]]
               /\ \A x \in Tokens :
                     /\ token'[x] \in TokenRow \cup {None}
                     /\ token'[x] = None <=> token[x] = None
                     /\ x \notin S => token'[x] = token[x]
                     /\ change.status # "disabled" => token'[x] = token[x]
                     /\ token[x] # None =>
                           /\ token'[x].user = token[x].user
                           /\ token'[x].family = token[x].family
                           /\ token'[x].replacedBy = token[x].replacedBy
                           /\ token'[x].proved = token[x].proved
                           /\ token[x].revoked => token'[x].revoked
                           /\ x \in S /\ change.status = "disabled" => token'[x].revoked
  <1> DEFINE u == request[r].user
             change == request[r].change
             role == OrElse(change.role, user[u].role)
             status == OrElse(change.status, user[u].status)
             row == [user[u] EXCEPT !.role = role, !.status = status]
             S == TokensOf(u)
  <1>1. /\ request[r] # None /\ request[r].op = "update" /\ request[r].stage = "ready"
        /\ user' = [user EXCEPT ![u].role = OrElse(change.role, @),
                                ![u].status = OrElse(change.status, @)]
        /\ token' = IF change.status = "disabled" THEN Revoke(S) ELSE token
        /\ EndRequest(r)
    BY DEF CommitUpdate, In
  <1>2. /\ u \in Users /\ userLock[u] = r /\ identityLock = r
        /\ user[u] # None
        /\ ChangeAllowed(user[u], change, request[r].by)
        /\ user \in [Users -> UserRow \cup {None}]
        /\ token \in [Tokens -> TokenRow \cup {None}]
        /\ request[r] \in RequestRow
    BY <1>1, AtCommit DEF Holds, Refers, Read
  <1>3. /\ user[u] \in UserRow
        /\ change.role \in Roles \cup {None} /\ change.status \in Statuses \cup {None}
        /\ None \notin Roles /\ None \notin Statuses
    BY <1>2, IdentityAssumption DEF RequestRow, Changes
  <1>4. role \in Roles /\ status \in Statuses
    BY <1>3 DEF OrElse, UserRow
  <1>5. /\ row \in UserRow /\ row # None
        /\ row.role = role /\ row.status = status /\ row.password = user[u].password
    <2>1. row \in UserRow
      BY <1>3, <1>4 DEF UserRow
    <2>2. row # None
      BY <2>1, IdentityAssumption
    <2>3. row.role = role /\ row.status = status /\ row.password = user[u].password
      <3> DEFINE half == [user[u] EXCEPT !.role = role]
      <3>1. half.role = role /\ half.status = user[u].status
            /\ half.password = user[u].password
        BY <1>3 DEF UserRow
      <3>2. QED
        BY <1>3, <3>1 DEF UserRow
    <2>4. QED
      BY <2>1, <2>2, <2>3
  <1>6. /\ user' \in [Users -> UserRow \cup {None}]
        /\ user'[u] = row
        /\ \A x \in Users \ {u} : user'[x] = user[x]
    <2>1. user' = [user EXCEPT ![u] = row]
      BY <1>1, <1>2, <1>3 DEF UserRow
    <2>2. QED
      BY <1>2, <1>5, <2>1
  <1> HIDE DEF row
  <1>7. ASSUME NEW x \in Tokens
        PROVE  /\ token'[x] \in TokenRow \cup {None}
               /\ token'[x] = None <=> token[x] = None
               /\ x \notin S => token'[x] = token[x]
               /\ change.status # "disabled" => token'[x] = token[x]
               /\ token[x] # None =>
                     /\ token'[x].user = token[x].user /\ token'[x].family = token[x].family
                     /\ token'[x].replacedBy = token[x].replacedBy
                     /\ token'[x].proved = token[x].proved
                     /\ token[x].revoked => token'[x].revoked
                     /\ x \in S /\ change.status = "disabled" => token'[x].revoked
    <2>1. TypeOK
      BY DEF IInv
    <2>2. CASE change.status = "disabled"
      <3>1. token'[x] = Revoke(S)[x]
        BY <1>1, <2>2
      <3>2. QED
        BY <2>1, <2>2, <3>1, RevokedRows
    <2>3. CASE change.status # "disabled"
      BY <1>1, <1>2, <2>3
    <2>4. QED
      BY <2>2, <2>3
  <1>8. token' = [x \in Tokens |-> token'[x]]
    BY <1>1, <1>2 DEF Revoke
  <1>9. user'[u] = [user[u] EXCEPT !.role = role, !.status = status]
    BY <1>6 DEF row
  <1>10. QED
    BY <1>4, <1>5, <1>6, <1>7, <1>8, <1>9

\* UpdateMember: another owner is left, and a disabled user loses every session.
LEMMA UpdateOK ==
    ASSUME IInv, NEW r \in Requests, CommitUpdate(r)
    PROVE  IInv' /\ StaysDead
  <1> DEFINE u == request[r].user
             change == request[r].change
             role == OrElse(change.role, user[u].role)
             status == OrElse(change.status, user[u].status)
             S == TokensOf(u)
  <1>1. /\ request[r] # None /\ request[r].op = "update" /\ request[r].stage = "ready"
        /\ EndRequest(r)
    BY DEF CommitUpdate, In
  <1>2. /\ u \in Users /\ userLock[u] = r /\ identityLock = r
        /\ user[u] # None
        /\ ChangeAllowed(user[u], change, request[r].by)
        /\ user \in [Users -> UserRow \cup {None}]
        /\ token \in [Tokens -> TokenRow \cup {None}]
        /\ request[r] \in RequestRow
    BY <1>1, AtCommit DEF Holds, Refers, Read
  <1>3. /\ user[u] \in UserRow
        /\ change.role \in Roles \cup {None} /\ change.status \in Statuses \cup {None}
        /\ None \notin Roles /\ None \notin Statuses
    BY <1>2, IdentityAssumption DEF RequestRow, Changes
  <1>5. /\ user'[u] # None
        /\ user'[u].role = role /\ user'[u].status = status
        /\ user'[u].password = user[u].password
    BY UpdateWrites
  <1>6. /\ user' \in [Users -> UserRow \cup {None}]
        /\ \A x \in Users \ {u} : user'[x] = user[x]
    BY UpdateWrites
  <1>7. \A x \in Tokens :
           /\ token'[x] \in TokenRow \cup {None}
           /\ token'[x] = None <=> token[x] = None
           /\ x \notin S => token'[x] = token[x]
           /\ token[x] # None =>
                 /\ token'[x].user = token[x].user /\ token'[x].family = token[x].family
                 /\ token'[x].replacedBy = token[x].replacedBy
                 /\ token'[x].proved = token[x].proved
                 /\ token[x].revoked => token'[x].revoked
                 /\ x \in S /\ change.status = "disabled" => token'[x].revoked
    BY UpdateWrites
  <1>8. token' \in [Tokens -> TokenRow \cup {None}]
    <2>1. token' = [x \in Tokens |-> token'[x]]
      BY UpdateWrites
    <2>2. QED
      BY <1>7, <2>1
  <1>9. TokensOK' /\ FamiliesAreChains'
    <2>1. \A x \in Tokens : token'[x] # None => token'[x].revoked \in BOOLEAN
      BY <1>8 DEF TokenRow
    <2>2. Registered \subseteq Registered'
      BY <1>5, <1>6 DEF Registered
    <2>3. QED
      BY <1>7, <2>1, <2>2, SameChains
  <1>10. ASSUME NEW x \in Issued', Live(x)'
         PROVE  /\ x \in Issued /\ Live(x)
                /\ token[x].user \in Users
                /\ token'[x].user = token[x].user /\ token'[x].proved = token[x].proved
                /\ token[x].user = u => change.status # "disabled"
    <2>1. x \in Tokens /\ token'[x] # None /\ ~token'[x].revoked
      BY <1>10 DEF Issued, Live
    <2>2. x \in Issued /\ Live(x)
      BY <1>7, <2>1 DEF Issued, Live
    <2>3. QED
      BY <1>7, <2>1, <2>2 DEF TokensOf, IInv, TokensOK, Registered
  <1>11. DisabledUsersHaveNoSession'
    <2>1. ASSUME NEW x \in Issued', Live(x)'
          PROVE  user'[token'[x].user].status = "active"
      <3>1. user[token[x].user].status = "active"
        BY <1>10, <2>1 DEF IInv, DisabledUsersHaveNoSession
      <3>2. CASE token[x].user = u
        BY <1>3, <1>5, <1>6, <1>10, <2>1, <3>1, <3>2 DEF OrElse, Statuses
      <3>3. CASE token[x].user # u
        BY <1>6, <1>10, <2>1, <3>1, <3>3
      <3>4. QED
        BY <3>2, <3>3
    <2>2. QED
      BY <2>1 DEF DisabledUsersHaveNoSession
  <1>12. SessionsKnowThePassword'
    BY <1>5, <1>6, <1>10 DEF IInv, SessionsKnowThePassword
  <1>13. AnOwnerRemains'
    <2>1. ActiveOwners # {}
      BY <1>2 DEF IInv, AnOwnerRemains, Registered
    <2>2. CASE RemovesOwner(user[u], change)
      <3>1. Cardinality(ActiveOwners) > 1
        BY <1>2, <2>2 DEF ChangeAllowed
      <3>2. PICK a \in ActiveOwners : a # u
        <4>1. ActiveOwners # {u}
          <5>1. Cardinality({u}) = 1
            BY FS_Singleton
          <5>2. QED
            BY <3>1, <5>1
        <4>2. QED
          BY <2>1, <4>1
      <3>3. a \in ActiveOwners'
        BY <1>6, <3>2 DEF ActiveOwners, Registered
      <3>4. QED
        BY <3>3 DEF AnOwnerRemains
    <2>3. CASE ~RemovesOwner(user[u], change)
      <3>1. PICK a \in ActiveOwners : TRUE
        BY <2>1
      <3>2. CASE a # u
        <4>1. a \in ActiveOwners'
          BY <1>6, <3>1, <3>2 DEF ActiveOwners, Registered
        <4>2. QED
          BY <4>1 DEF AnOwnerRemains
      <3>3. CASE a = u
        <4>1. user[u].role = "owner" /\ user[u].status = "active"
          BY <3>3, <3>1 DEF ActiveOwners
        <4>2. role = "owner" /\ status = "active"
          BY <2>3, <4>1 DEF RemovesOwner, OrElse
        <4>3. u \in ActiveOwners'
          BY <1>2, <1>5, <1>6, <4>2 DEF ActiveOwners, Registered
        <4>4. QED
          BY <4>3 DEF AnOwnerRemains
      <3>4. QED
        BY <3>2, <3>3
    <2>4. QED
      BY <2>2, <2>3
  <1>14. ASSUME NEW x \in Requests \ {r}
         PROVE  SparesRows(x)
    <2>1. \A v \in Users : userLock[v] = x => v # u
      BY <1>2, <1>14
    <2>2. \A y \in Tokens : token[y] # None /\ token[y].user # u => token'[y] = token[y]
      BY <1>7 DEF TokensOf
    <2>3. \A v \in Users : user[v] # None => user'[v] # None
      BY <1>5, <1>6
    <2>4. QED
      BY <1>2, <1>6, <1>7, <2>1, <2>2, <2>3 DEF SparesRows
  <1>15. StaysDead
    BY <1>7 DEF StaysDead, Issued
  <1>16. QED
    BY <1>1, <1>6, <1>8, <1>9, <1>11, <1>12, <1>13, <1>14, <1>15, CommittedOK DEF Tables

-----------------------------------------------------------------------------
(* The theorems.                                                           *)

\* Nobody is there, and nobody asks.
LEMMA InitOK == Init => IInv
  <1> SUFFICES ASSUME Init PROVE IInv
    OBVIOUS
  <1>1. Issued = {} /\ Registered = {}
    BY DEF Init, Issued, Registered
  <1>2. TypeOK
    BY DEF Init, TypeOK
  <1>3. \A r \in Requests : RequestOK(r)
    BY DEF Init, RequestOK
  <1>4. QED
    BY <1>1, <1>2, <1>3
    DEF IInv, TokensOK, FamiliesAreChains, DisabledUsersHaveNoSession,
        SessionsKnowThePassword, AnOwnerRemains

LEMMA NextOK ==
    ASSUME IInv, [Next]_vars
    PROVE  IInv' /\ StaysDead
  <1>1. ASSUME NEW r \in Requests, Commit(r)
        PROVE  IInv' /\ StaysDead
    BY <1>1, RegisterOK, LoginOK, RefreshOK, RevokeFamilyOK, PasswordOK, CreateOK, UpdateOK
    DEF Commit
  <1>2. CASE UNCHANGED vars
    <2>1. TypeOK' /\ Tables'
      BY <1>2, TablesUnchanged DEF IInv, TypeOK, Tables, vars
    <2>2. ASSUME NEW x \in Requests
          PROVE  RequestOK(x)'
      <3>1. Spares(x)
        BY <1>2 DEF vars, Spares, SparesRows, ActiveOwners, Registered
      <3>2. QED
        BY <3>1, SparedRequestOK DEF IInv
    <2>3. StaysDead
      BY <1>2, UntouchedStaysDead DEF vars
    <2>4. QED
      BY <2>1, <2>2, <2>3 DEF IInv, Tables
  <1>3. ASSUME NEW r \in Requests, Arrive(r) \/ Wait(r) \/ Refuse(r) \/ Fail(r)
        PROVE  IInv' /\ StaysDead
    <2>1. token' = token
      BY <1>3
      DEF Arrive, BeginRegister, BeginLogin, BeginCreateMember, BeginUpdateMember,
          BeginRefresh, BeginLogout, BeginChangePassword, Begin,
          Wait, LockForRegister, LockForCreate, LockForLogin, LockForPassword,
          LockForLogout, LockForRefresh, LockForReuse, LockForUpdate, LockMember, MoveTo,
          Refuse, Fail
    <2>2. QED
      BY <1>3, <2>1, ArriveOK, WaitOK, RollBackOK, UntouchedStaysDead
  <1>4. QED
    BY <1>1, <1>2, <1>3 DEF Next

\* The invariant holds throughout.
THEOREM Invariant == Spec => []IInv
  <1>1. IInv /\ [Next]_vars => IInv'
    BY NextOK
  <1>2. QED
    BY InitOK, <1>1, PTL DEF Spec

\* Rows, locks and requests have their types.
THEOREM TypeCorrect == Spec => []TypeOK
  <1>1. IInv => TypeOK
    BY DEF IInv
  <1>2. QED
    BY Invariant, <1>1, PTL

\* However often a refresh token is presented, and whatever runs beside, a family
\* stays one chain of which only the last token may be used.
THEOREM ChainsStay == Spec => []FamiliesAreChains
  <1>1. IInv => FamiliesAreChains
    BY DEF IInv
  <1>2. QED
    BY Invariant, <1>1, PTL

\* No login or refresh gives a session to a user who is being disabled.
THEOREM NoSessionWhenDisabled == Spec => []DisabledUsersHaveNoSession
  <1>1. IInv => DisabledUsersHaveNoSession
    BY DEF IInv
  <1>2. QED
    BY Invariant, <1>1, PTL

\* No session survives a change of the password but the one that made it.
THEOREM PasswordsAreKnown == Spec => []SessionsKnowThePassword
  <1>1. IInv => SessionsKnowThePassword
    BY DEF IInv
  <1>2. QED
    BY Invariant, <1>1, PTL

\* Owners cannot remove each other until none is left.
THEOREM OwnerStays == Spec => []AnOwnerRemains
  <1>1. IInv => AnOwnerRemains
    BY DEF IInv
  <1>2. QED
    BY Invariant, <1>1, PTL

\* A session that has ended, for whatever reason, is never continued.
THEOREM EndedSessionsStayEnded == Spec => DeadFamiliesStayDead
  <1>1. IInv /\ [Next]_vars
          => [\A f \in Issued :
                (\A t \in FamilyOf(f) : token[t].revoked)
                   => \A t \in Tokens : token'[t] # None /\ token'[t].family = f
                                           => token'[t].revoked]_vars
    <2> SUFFICES ASSUME IInv, [Next]_vars,
                        NEW f \in Issued, \A t \in FamilyOf(f) : token[t].revoked,
                        NEW t \in Tokens, token'[t] # None, token'[t].family = f
                 PROVE  token'[t].revoked
      OBVIOUS
    <2>1. StaysDead
      BY NextOK
    <2>2. \A s \in Issued : token[s].family = f => token[s].revoked
      BY DEF FamilyOf
    <2>3. QED
      BY <2>1, <2>2 DEF StaysDead
  <1>2. QED
    BY Invariant, <1>1, PTL DEF Spec, DeadFamiliesStayDead

\* What an administrator's request changes is a member when it changes it, whatever the
\* person was when the request was made, and stays one.
THEOREM AdminsKeepToMembers == Spec => AdminsChangeOnlyMembers
  <1>1. ASSUME IInv, [Next]_vars, NEW r \in Requests,
               request[r] # None, request[r].op = "update", request[r].by = "admin",
               request'[r] = None, user' # user
        PROVE  /\ user[request[r].user].role = "member"
               /\ user'[request[r].user].role = "member"
    <2> DEFINE u == request[r].user
               change == request[r].change
    <2>1. PICK x \in Requests : Arrive(x) \/ Wait(x) \/ Commit(x) \/ Refuse(x) \/ Fail(x)
      BY <1>1 DEF Next, vars
    <2>2. Commit(x)
      BY <1>1, <2>1
      DEF Arrive, BeginRegister, BeginLogin, BeginCreateMember, BeginUpdateMember,
          BeginRefresh, BeginLogout, BeginChangePassword, Begin,
          Wait, LockForRegister, LockForCreate, LockForLogin, LockForPassword,
          LockForLogout, LockForRefresh, LockForReuse, LockForUpdate, LockMember, MoveTo,
          Refuse, Fail
    <2>3. EndRequest(x)
      BY <2>2 DEF Commit, CommitRegister, CommitLogin, CommitRefresh, CommitRevokeFamily,
                  CommitPassword, CommitCreate, CommitUpdate
    <2>4. x = r
      BY <1>1, <2>3 DEF EndRequest, IInv, TypeOK
    <2>5. CommitUpdate(r)
      BY <1>1, <2>2, <2>4
      DEF Commit, CommitRegister, CommitLogin, CommitRefresh, CommitRevokeFamily,
          CommitPassword, CommitCreate, In
    <2>6. ChangeAllowed(user[u], change, "admin")
      BY <1>1, <2>5 DEF IInv, RequestOK, Read, CommitUpdate, In
    <2>7. user[u].role = "member" /\ change.role \in {None, "member"}
      BY <2>6 DEF ChangeAllowed
    <2>8. user'[u].role = OrElse(change.role, user[u].role)
      BY <2>5, UpdateWrites, <1>1
    <2>9. QED
      BY <2>7, <2>8 DEF OrElse
  <1>2. IInv /\ [Next]_vars
          => [\A r \in Requests :
                LET q == request[r] IN
                q # None /\ q.op = "update" /\ q.by = "admin" /\ request'[r] = None
                   => \/ user' = user
                      \/ user[q.user].role = "member" /\ user'[q.user].role = "member"]_vars
    BY <1>1
  <1>3. QED
    BY Invariant, <1>2, PTL DEF Spec, AdminsChangeOnlyMembers

-----------------------------------------------------------------------------
(* Identity implements Accounts: a commit is one step of it, all else is none. *)

Sessions == [f \in Tokens |-> SessionOf(f)]

\* A token that names a family is the session of that family.
Names(f) == token[f] # None /\ token[f].family = f

\* A family belongs to one user.
LEMMA FamilyFacts ==
    ASSUME IInv, NEW f \in Tokens, NEW t \in FamilyOf(f)
    PROVE  /\ f \in Issued /\ Names(f)
           /\ t \in Tokens /\ token[t] # None /\ token[t].user = token[f].user
  BY DEF FamilyOf, IInv, TokensOK, Issued, Names

LEMMA SessionFacts ==
    ASSUME IInv, NEW f \in Tokens
    PROVE  /\ ~Names(f) => SessionOf(f) = None
           /\ Names(f) => /\ f \in FamilyOf(f)
                          /\ SessionOf(f) \in SessionRow /\ SessionOf(f) # None
                          /\ SessionOf(f) = [user |-> token[f].user, open |-> IsOpen(f),
                                             proved |-> token[f].proved]
  <1>1. ~Names(f) => SessionOf(f) = None
    BY DEF Names, SessionOf
  <1>2. ASSUME Names(f)
        PROVE  /\ f \in FamilyOf(f)
               /\ SessionOf(f) \in SessionRow /\ SessionOf(f) # None
               /\ SessionOf(f) = [user |-> token[f].user, open |-> IsOpen(f),
                                  proved |-> token[f].proved]
    <2>1. token[f] \in TokenRow
      BY <1>2 DEF Names, IInv, TypeOK
    <2>2. SessionOf(f) = [user |-> token[f].user, open |-> IsOpen(f),
                          proved |-> token[f].proved]
      BY <1>2 DEF Names, SessionOf
    <2>3. IsOpen(f) \in BOOLEAN
      BY DEF IsOpen
    <2>4. SessionOf(f) \in SessionRow
      BY <2>1, <2>2, <2>3 DEF SessionRow, TokenRow
    <2>5. SessionOf(f) # None
      BY <2>4, IdentityAssumption
    <2>6. f \in FamilyOf(f)
      BY <1>2 DEF Names, FamilyOf, Issued
    <2>7. QED
      BY <2>2, <2>4, <2>5, <2>6
  <1>3. QED
    BY <1>1, <1>2

\* A step that leaves every token of a family alone, and adds none to it.
LEMMA SessionUntouched ==
    ASSUME NEW f \in Tokens, FamilyOf(f)' = FamilyOf(f),
           \A t \in FamilyOf(f) : token'[t] = token[t]
    PROVE  SessionOf(f)' = SessionOf(f)
  <1>1. f \in FamilyOf(f) <=> Names(f)
    BY DEF FamilyOf, Issued, Names
  <1>2. f \in FamilyOf(f)' <=> Names(f)'
    BY DEF FamilyOf, Issued, Names
  <1>3. IsOpen(f)' = IsOpen(f)
    BY DEF IsOpen, Live
  <1>4. CASE Names(f)
    <2>1. token'[f] = token[f]
      BY <1>1, <1>4
    <2>2. QED
      BY <1>1, <1>2, <1>3, <1>4, <2>1 DEF SessionOf, Names
  <1>5. CASE ~Names(f)
    BY <1>1, <1>2, <1>5 DEF SessionOf, Names
  <1>6. QED
    BY <1>4, <1>5

\* The two writes of Accounts to a session there is.
LEMMA SessionUpdates ==
    ASSUME NEW a, NEW b, NEW c, NEW d,
           NEW row, row = [user |-> a, open |-> b, proved |-> c]
    PROVE  /\ [row EXCEPT !.open = d] = [user |-> a, open |-> d, proved |-> c]
           /\ [row EXCEPT !.proved = d] = [user |-> a, open |-> b, proved |-> d]
  OBVIOUS

\* A step that leaves tokens to their users and families, and revokes one family.
LEMMA SessionClosed ==
    ASSUME IInv, NEW f \in Tokens, Names(f), Names(f)', FamilyOf(f)' = FamilyOf(f),
           \A t \in FamilyOf(f) : token'[t].revoked,
           token'[f].user = token[f].user, token'[f].proved = token[f].proved
    PROVE  SessionOf(f)' = [SessionOf(f) EXCEPT !.open = FALSE]
  <1>1. IsOpen(f)' = FALSE
    BY DEF IsOpen, Live
  <1>2. SessionOf(f)' = [user |-> token[f].user, open |-> IsOpen(f)',
                         proved |-> token[f].proved]
    BY DEF SessionOf, Names
  <1>3. SessionOf(f) = [user |-> token[f].user, open |-> IsOpen(f),
                        proved |-> token[f].proved]
    BY SessionFacts
  <1>4. SessionOf(f)' = [SessionOf(f) EXCEPT !.open = IsOpen(f)']
    BY <1>2, <1>3, SessionUpdates
  <1>5. QED
    BY <1>1, <1>4, Zenon

\* Who is in which family, if a step leaves tokens to their families.
LEMMA SameFamilies ==
    ASSUME \A t \in Tokens :
              /\ token'[t] = None <=> token[t] = None
              /\ token[t] # None => token'[t].family = token[t].family
    PROVE  \A f \in Tokens : FamilyOf(f)' = FamilyOf(f) /\ (Names(f)' <=> Names(f))
  BY DEF FamilyOf, Issued, Names

\* A token that starts a family opens a session that was never there.
LEMMA OpenRefines ==
    ASSUME IInv, NEW u \in Users, NEW t \in Tokens \ Issued,
           NEW password \in 1 .. MaxPasswords, FirstToken(u, t, password)
    PROVE  Account!Open(t, u, password)
  <1> DEFINE new == [user |-> u, family |-> t, revoked |-> FALSE,
                     replacedBy |-> None, proved |-> password]
  <1>1. new \in TokenRow
    BY DEF TokenRow
  <1>2. new # None
    BY <1>1, IdentityAssumption
  <1>3. /\ token'[t] = new /\ token'[t] # None
        /\ \A x \in Tokens \ {t} : token'[x] = token[x]
    BY <1>2 DEF FirstToken, IInv, TypeOK
  <1>4. \A x \in Issued : token[x].family \in Issued
    BY DEF IInv, TokensOK
  <1>5. SessionOf(t) = None
    BY SessionFacts DEF Names, Issued
  <1>6. SessionOf(t)' = [user |-> u, open |-> TRUE, proved |-> password]
    <2>1. t \in FamilyOf(t)' /\ Live(t)'
      BY <1>3 DEF FamilyOf, Issued, Live
    <2>2. IsOpen(t)' = TRUE
      BY <2>1 DEF IsOpen
    <2>3. QED
      BY <1>3, <2>2 DEF SessionOf
  <1>7. ASSUME NEW f \in Tokens \ {t}
        PROVE  SessionOf(f)' = SessionOf(f)
    <2>1. \A x \in Tokens : x \in FamilyOf(f)' <=> x \in FamilyOf(f)
      BY <1>3, <1>7 DEF FamilyOf, Issued
    <2>2. FamilyOf(f)' = FamilyOf(f)
      BY <2>1 DEF FamilyOf, Issued
    <2>3. \A x \in FamilyOf(f) : token'[x] = token[x]
      BY <1>3 DEF FamilyOf, Issued
    <2>4. QED
      BY <2>2, <2>3, SessionUntouched
  <1>8. QED
    BY <1>5, <1>6, <1>7 DEF Account!Open

\* The sessions of a user are the families of the user's tokens.
LEMMA SessionsOfUser ==
    ASSUME IInv, NEW u \in Users, NEW f \in Tokens
    PROVE  /\ f \in Account!SessionsOf(u) <=> Names(f) /\ token[f].user = u
           /\ f \in Account!SessionsOf(u) => FamilyOf(f) \subseteq TokensOf(u)
           /\ f \notin Account!SessionsOf(u) => FamilyOf(f) \cap TokensOf(u) = {}
  <1>1. f \in Account!SessionsOf(u) <=> SessionOf(f) # None /\ SessionOf(f).user = u
    BY DEF Account!SessionsOf
  <1>2. f \in Account!SessionsOf(u) <=> Names(f) /\ token[f].user = u
    BY <1>1, SessionFacts
  <1>3. \A t \in FamilyOf(f) : t \in TokensOf(u) <=> token[f].user = u
    BY FamilyFacts DEF TokensOf, FamilyOf
  <1>4. FamilyOf(f) # {} => Names(f)
    BY FamilyFacts
  <1>5. QED
    BY <1>2, <1>3, <1>4

LEMMA RegisterRefines ==
    ASSUME IInv, NEW r \in Requests, NEW t \in Tokens, CommitRegister(r, t)
    PROVE  Account!SignUp(request[r].user, t)
  <1> DEFINE u == request[r].user
  <1>1. /\ request[r] # None /\ request[r].op = "register" /\ request[r].stage = "ready"
        /\ t \in Tokens \ Issued
        /\ user' = [user EXCEPT ![u] = [role |-> "owner", status |-> "active",
                                        password |-> 1, mustChange |-> FALSE]]
        /\ FirstToken(u, t, 1)
    BY DEF CommitRegister, In
  <1>2. u \in Users /\ Registered = {}
    BY <1>1, AtCommit DEF Read
  <1>3. \A x \in Users : user[x] = None
    BY <1>2 DEF Registered
  <1>4. Account!Open(t, u, 1)
    BY <1>1, <1>2, IdentityAssumption, OpenRefines
  <1>5. Account!NewUser(u, "owner", FALSE)
    BY <1>1, <1>2, <1>3 DEF Account!NewUser
  <1>6. QED
    BY <1>3, <1>4, <1>5 DEF Account!SignUp

\* The password that was verified is still the user's: the row is locked.
LEMMA LoginRefines ==
    ASSUME IInv, NEW r \in Requests, NEW t \in Tokens, CommitLogin(r, t)
    PROVE  Account!LogIn(request[r].user, t)
  <1> DEFINE u == request[r].user
  <1>1. /\ request[r] # None /\ request[r].op = "login" /\ request[r].stage = "ready"
        /\ t \in Tokens \ Issued
        /\ FirstToken(u, t, request[r].verified)
        /\ user' = user
    BY DEF CommitLogin, In
  <1>2. /\ u \in Users /\ Refers(r) /\ Read(r)
        /\ user \in [Users -> UserRow \cup {None}]
    BY <1>1, AtCommit
  <1>3. /\ user[u] # None /\ user[u].status = "active"
        /\ user[u].password = request[r].verified
        /\ user[u].password \in 1 .. MaxPasswords
    BY <1>1, <1>2 DEF Refers, Read, StillVerified, UserRow
  <1>4. Account!Open(t, u, user[u].password)
    BY <1>1, <1>2, <1>3, OpenRefines
  <1>5. QED
    BY <1>1, <1>3, <1>4 DEF Account!LogIn

\* A refresh is not seen: the session is open before, for its old token, and after.
LEMMA RefreshRefines ==
    ASSUME IInv, NEW r \in Requests, NEW t \in Tokens, CommitRefresh(r, t)
    PROVE  user' = user /\ Sessions' = Sessions
  <1> DEFINE old == request[r].token
             new == [token[old] EXCEPT !.revoked = FALSE, !.replacedBy = None]
             spent == [token[old] EXCEPT !.replacedBy = t, !.revoked = TRUE]
  <1>1. /\ request[r] # None /\ request[r].op = "refresh" /\ request[r].stage = "ready"
        /\ t \in Tokens \ Issued
        /\ ~token[old].revoked
        /\ token' = [token EXCEPT ![t] = new, ![old].replacedBy = t, ![old].revoked = TRUE]
        /\ user' = user
    BY DEF CommitRefresh, In
  <1>2. /\ old \in Issued /\ old \in Tokens /\ token[old] # None
        /\ token \in [Tokens -> TokenRow \cup {None}]
    BY <1>1, AtCommit DEF Refers, Issued
  <1>3. token[old] \in TokenRow
    BY <1>2
  <1>4. new \in TokenRow /\ spent \in TokenRow
    BY <1>1, <1>3 DEF TokenRow
  <1>5. new # None /\ spent # None
    BY <1>4, IdentityAssumption
  <1>6. /\ token'[t] = new /\ token'[old] = spent
        /\ \A x \in Tokens \ {t, old} : token'[x] = token[x]
        /\ t # old
    BY <1>1, <1>2, <1>3, <1>4
  <1>7. /\ new.user = token[old].user /\ new.family = token[old].family /\ ~new.revoked
        /\ spent.user = token[old].user /\ spent.family = token[old].family
        /\ spent.proved = token[old].proved
    BY <1>3, RotatedRows
  <1> HIDE DEF new, spent
  <1>8. PICK g \in Tokens : g = token[old].family /\ g \in Issued
    BY <1>2 DEF IInv, TokensOK, Issued
  <1>9. ASSUME NEW f \in Tokens \ {g}
        PROVE  SessionOf(f)' = SessionOf(f)
    <2>1. \A x \in Tokens : x \in FamilyOf(f)' <=> x \in FamilyOf(f)
      BY <1>1, <1>2, <1>5, <1>6, <1>7, <1>8, <1>9 DEF FamilyOf, Issued
    <2>2. FamilyOf(f)' = FamilyOf(f)
      BY <2>1 DEF FamilyOf, Issued
    <2>3. \A x \in FamilyOf(f) : token'[x] = token[x]
      BY <1>1, <1>6, <1>8, <1>9 DEF FamilyOf, Issued
    <2>4. QED
      BY <2>2, <2>3, SessionUntouched
  <1>10. SessionOf(g)' = SessionOf(g)
    <2>1. g \in Tokens /\ Names(g) /\ g # t
      BY <1>1, <1>2, <1>8 DEF Names, IInv, TokensOK, Issued
    <2>2. /\ token'[g] # None /\ token'[g].family = g
          /\ token'[g].user = token[g].user /\ token'[g].proved = token[g].proved
      BY <1>5, <1>6, <1>7, <1>8, <2>1 DEF Names
    <2>3. IsOpen(g) = TRUE
      BY <1>1, <1>2, <1>8 DEF IsOpen, FamilyOf, Live
    <2>4. IsOpen(g)' = TRUE
      BY <1>5, <1>6, <1>7, <1>8 DEF IsOpen, FamilyOf, Live, Issued
    <2>5. QED
      BY <2>1, <2>2, <2>3, <2>4 DEF SessionOf, Names
  <1>11. \A f \in Tokens : SessionOf(f)' = SessionOf(f)
    BY <1>9, <1>10
  <1>12. QED
    BY <1>1, <1>11 DEF Sessions

\* A logout and a token presented twice close the family, open or not.
LEMMA RevokeFamilyRefines ==
    ASSUME IInv, NEW r \in Requests, CommitRevokeFamily(r)
    PROVE  \E f \in Tokens : Account!EndSession(f)
  <1> DEFINE S == FamilyOf(token[request[r].token].family)
  <1>1. /\ request[r] # None /\ request[r].op \in {"refresh", "logout"}
        /\ token' = Revoke(S)
        /\ user' = user
    BY DEF CommitRevokeFamily, In
  <1>2. request[r].token \in Issued
    BY <1>1, AtCommit DEF Refers
  <1>3. PICK f \in Tokens : f = token[request[r].token].family /\ Names(f)
    BY <1>2 DEF IInv, TokensOK, Issued, Names
  <1>4. \A x \in Tokens :
           /\ token'[x] = None <=> token[x] = None
           /\ x \notin FamilyOf(f) => token'[x] = token[x]
           /\ token[x] # None =>
                 /\ token'[x].user = token[x].user /\ token'[x].family = token[x].family
                 /\ token'[x].proved = token[x].proved
                 /\ x \in FamilyOf(f) => token'[x].revoked
    <2>1. TypeOK /\ \A x \in Tokens : token'[x] = Revoke(S)[x]
      BY <1>1 DEF IInv
    <2>2. QED
      BY <1>3, <2>1, RevokedRows
  <1>5. \A g \in Tokens : FamilyOf(g)' = FamilyOf(g) /\ (Names(g)' <=> Names(g))
    BY <1>4, SameFamilies
  <1>6. SessionOf(f)' = [SessionOf(f) EXCEPT !.open = FALSE]
    <2>1. \A x \in FamilyOf(f) : token'[x].revoked
      BY <1>4, FamilyFacts
    <2>2. token'[f].user = token[f].user /\ token'[f].proved = token[f].proved
      BY <1>3, <1>4 DEF Names
    <2>3. QED
      BY <1>3, <1>5, <2>1, <2>2, SessionClosed
  <1>7. ASSUME NEW g \in Tokens \ {f}
        PROVE  SessionOf(g)' = SessionOf(g)
    <2>1. \A x \in FamilyOf(g) : token'[x] = token[x]
      BY <1>4, <1>7 DEF FamilyOf, Issued
    <2>2. QED
      BY <1>5, <2>1, SessionUntouched
  <1>8. SessionOf(f) # None
    BY <1>3, SessionFacts
  <1>9. Account!EndSession(f)
    BY <1>1, <1>6, <1>7, <1>8 DEF Account!EndSession, Account!Closed
  <1>10. QED
    BY <1>9

LEMMA CreateRefines ==
    ASSUME IInv, NEW r \in Requests, CommitCreate(r)
    PROVE  Account!CreateMember(request[r].user, request[r].change.role)
  <1>1. /\ request[r] # None /\ request[r].op = "create" /\ request[r].stage = "ready"
        /\ user' = [user EXCEPT ![request[r].user] =
                       [role |-> request[r].change.role, status |-> "active",
                        password |-> 1, mustChange |-> TRUE]]
        /\ token' = token
    BY DEF CommitCreate, In
  <1>2. user[request[r].user] = None /\ Registered # {}
    BY <1>1, AtCommit DEF Refers, Read
  <1>3. \E x \in Users : user[x] # None
    BY <1>2 DEF Registered
  <1>4. \A f \in Tokens : SessionOf(f)' = SessionOf(f)
    BY <1>1 DEF SessionOf, IsOpen, FamilyOf, Live, Issued
  <1>5. QED
    BY <1>1, <1>2, <1>3, <1>4 DEF Account!CreateMember, Account!NewUser

\* The caller's family rests on the new password from now on, all others of the user are
\* closed, also one that a login opened meanwhile.
LEMMA PasswordRefines ==
    ASSUME IInv, NEW r \in Requests, CommitPassword(r)
    PROVE  \E f \in Tokens : Account!ChangePassword(f)
  <1>1. /\ request[r] # None /\ request[r].op = "password" /\ request[r].stage = "ready"
        /\ user' = [user EXCEPT ![request[r].user].password = user[request[r].user].password + 1,
                                ![request[r].user].mustChange = FALSE]
    BY DEF CommitPassword, In
  <1>2. PICK u \in Users, f \in Tokens :
            /\ u = request[r].user /\ f = request[r].token
            /\ Names(f) /\ token[f].user = u
            /\ user[u] # None /\ user[u].status = "active"
    BY <1>1, AtCommit DEF Refers, Read, Names, Issued
  <1>3. PICK new : new = user[u].password + 1
    OBVIOUS
  <1>4. \A x \in Tokens :
           /\ token'[x] = None <=> token[x] = None
           /\ token[x] # None => token'[x].user = token[x].user
                                 /\ token'[x].family = token[x].family
           /\ x \in FamilyOf(f) => /\ token'[x].proved = new
                                   /\ token'[x].revoked = token[x].revoked
           /\ x \notin FamilyOf(f) /\ token[x] # None =>
                 /\ token'[x].proved = token[x].proved
                 /\ x \in TokensOf(u) => token'[x].revoked
           /\ x \notin FamilyOf(f) \cup TokensOf(u) => token'[x] = token[x]
    <2> DEFINE mine == FamilyOf(request[r].token)
               S == TokensOf(request[r].user)
    <2>1. \A x \in mine :
             /\ token[x] # None /\ token[x].user = request[r].user
             /\ token'[x] # None /\ token'[x].user = request[r].user
             /\ token'[x].family = token[x].family
             /\ token'[x].proved = user[request[r].user].password + 1
             /\ token'[x].revoked = token[x].revoked
      BY PasswordWrites, ZenonT(90)
    <2>2. \A x \in Tokens \ mine :
             /\ token'[x] \in TokenRow \cup {None}
             /\ token'[x] = None <=> token[x] = None
             /\ x \notin S => token'[x] = token[x]
             /\ token[x] # None =>
                   /\ token'[x].user = token[x].user
                   /\ token'[x].family = token[x].family
                   /\ token'[x].replacedBy = token[x].replacedBy
                   /\ token'[x].proved = token[x].proved
                   /\ token[x].revoked => token'[x].revoked
                   /\ x \in S => token'[x].revoked
      BY PasswordWrites, ZenonT(60)
    <2>3. mine = FamilyOf(f) /\ S = TokensOf(u) /\ new = user[request[r].user].password + 1
      BY <1>2, <1>3
    <2> HIDE DEF mine, S
    <2>4. QED
      BY <1>2, <2>1, <2>2, <2>3
  <1>5. \A g \in Tokens : FamilyOf(g)' = FamilyOf(g) /\ (Names(g)' <=> Names(g))
    BY <1>4, SameFamilies
  <1>6. SessionOf(f)' = [SessionOf(f) EXCEPT !.proved = new]
    <2>1. f \in FamilyOf(f) /\ \A x \in FamilyOf(f) : x \in Tokens /\ token[x] # None
      BY <1>2, SessionFacts, FamilyFacts
    <2>2. IsOpen(f)' = IsOpen(f)
      BY <1>4, <1>5, <2>1 DEF IsOpen, Live
    <2>3. SessionOf(f)' = [user |-> token[f].user, open |-> IsOpen(f), proved |-> new]
      BY <1>2, <1>4, <1>5, <2>1, <2>2 DEF SessionOf, Names
    <2>4. SessionOf(f) = [user |-> token[f].user, open |-> IsOpen(f),
                          proved |-> token[f].proved]
      BY <1>2, SessionFacts
    <2>5. QED
      BY <2>3, <2>4, SessionUpdates
  <1>7. ASSUME NEW g \in Tokens \ {f}
        PROVE  /\ g \in Account!SessionsOf(u) => SessionOf(g)' = [SessionOf(g) EXCEPT !.open = FALSE]
               /\ g \notin Account!SessionsOf(u) => SessionOf(g)' = SessionOf(g)
    <2>1. \A x \in FamilyOf(g) : x \in Tokens /\ token[x] # None /\ x \notin FamilyOf(f)
      BY <1>7 DEF FamilyOf, Issued
    <2>2. CASE g \in Account!SessionsOf(u)
      <3>1. Names(g) /\ FamilyOf(g) \subseteq TokensOf(u) /\ g \in FamilyOf(g)
        BY <2>2, SessionsOfUser, SessionFacts
      <3>2. /\ \A x \in FamilyOf(g) : token'[x].revoked
            /\ token'[g].user = token[g].user /\ token'[g].proved = token[g].proved
        BY <1>4, <2>1, <3>1
      <3>3. QED
        BY <1>5, <2>2, <3>1, <3>2, SessionClosed
    <2>3. CASE g \notin Account!SessionsOf(u)
      <3>1. FamilyOf(g) \cap TokensOf(u) = {}
        BY <2>3, SessionsOfUser
      <3>2. \A x \in FamilyOf(g) : token'[x] = token[x]
        BY <1>4, <2>1, <3>1
      <3>3. QED
        BY <1>5, <2>3, <3>2, SessionUntouched
    <2>4. QED
      BY <2>2, <2>3
  <1>8. SessionOf(f) # None /\ SessionOf(f).user = u
    BY <1>2, SessionFacts
  <1>9. Account!ChangePassword(f)
    BY <1>1, <1>2, <1>3, <1>6, <1>7, <1>8 DEF Account!ChangePassword, Account!Closed
  <1>10. QED
    BY <1>9

\* Another active owner is there when the last but one goes, and a user who is disabled
\* has no open session, whatever was done before.
LEMMA UpdateRefines ==
    ASSUME IInv, NEW r \in Requests, CommitUpdate(r)
    PROVE  \E u \in Users, role \in Account!Roles, status \in Account!Statuses :
              Account!UpdateMember(u, role, status)
  <1>1. /\ request[r] # None /\ request[r].op = "update" /\ request[r].stage = "ready"
        /\ token' = IF request[r].change.status = "disabled"
                      THEN Revoke(TokensOf(request[r].user)) ELSE token
    BY DEF CommitUpdate, In
  <1>2. request[r].user \in Users /\ user[request[r].user] # None
    BY <1>1, AtCommit DEF Refers
  <1>3. PICK u \in Users, role \in Roles, status \in Statuses :
            /\ u = request[r].user
            /\ role = OrElse(request[r].change.role, user[u].role)
            /\ status = OrElse(request[r].change.status, user[u].status)
    BY <1>2, UpdateWrites
  <1>4. /\ user[u] # None /\ user'[u] # None
        /\ user'[u].role = role /\ user'[u].status = status
        /\ \A x \in Users \ {u} : user'[x] = user[x]
    BY <1>2, <1>3, UpdateWrites
  <1>5. \A x \in Tokens :
           /\ token'[x] = None <=> token[x] = None
           /\ x \notin TokensOf(u) => token'[x] = token[x]
           /\ token[x] # None =>
                 /\ token'[x].user = token[x].user /\ token'[x].family = token[x].family
                 /\ token'[x].proved = token[x].proved
    BY <1>3, UpdateWrites
  <1>6. user' = [user EXCEPT ![u].role = role, ![u].status = status]
    <2>1. /\ user'[u] = [user[u] EXCEPT !.role = role, !.status = status]
          /\ user \in [Users -> UserRow \cup {None}]
          /\ user' \in [Users -> UserRow \cup {None}]
      BY <1>1, <1>3, AtCommit, UpdateWrites
    <2>2. QED
      BY <1>4, <2>1
  <1>7. IInv'
    BY UpdateOK
  <1>8. Account!ActiveOwner(u) /\ ~(role = "owner" /\ status = "active")
           => \E x \in Users \ {u} : Account!ActiveOwner(x)
    <2>1. ActiveOwners' # {}
      BY <1>4, <1>7 DEF IInv, AnOwnerRemains, Registered
    <2>2. PICK x \in Users : user'[x] # None /\ user'[x].role = "owner" /\ user'[x].status = "active"
      BY <2>1 DEF ActiveOwners, Registered
    <2>3. CASE x = u
      BY <1>4, <2>2, <2>3
    <2>4. CASE x # u
      BY <1>4, <2>2, <2>4 DEF Account!ActiveOwner
    <2>5. QED
      BY <2>3, <2>4
  <1>9. CASE status = "active"
    <2>1. request[r].change.status # "disabled"
      BY <1>3, <1>9, IdentityAssumption DEF OrElse, Statuses
    <2>2. \A f \in Tokens : SessionOf(f)' = SessionOf(f)
      BY <1>1, <2>1 DEF SessionOf, IsOpen, FamilyOf, Live, Issued
    <2>3. Account!UpdateMember(u, role, status)
      BY <1>4, <1>6, <1>8, <1>9, <2>2 DEF Account!UpdateMember
    <2>4. QED
      BY <2>3 DEF Account!Roles, Account!Statuses, Roles, Statuses
  <1>10. CASE status # "active"
    <2>1. ASSUME NEW x \in TokensOf(u)
          PROVE  token'[x].revoked
      <3>1. x \in Tokens /\ token'[x] # None /\ token'[x].user = u
        BY <1>5 DEF TokensOf, Issued
      <3>2. x \in Issued' /\ user'[token'[x].user].status # "active"
        BY <1>4, <1>10, <3>1 DEF Issued
      <3>3. ~Live(x)'
        BY <1>7, <3>2 DEF IInv, DisabledUsersHaveNoSession
      <3>4. QED
        BY <3>1, <3>3 DEF Live
    <2>2. \A g \in Tokens : FamilyOf(g)' = FamilyOf(g) /\ (Names(g)' <=> Names(g))
      BY <1>5, SameFamilies
    <2>3. ASSUME NEW g \in Account!SessionsOf(u)
          PROVE  SessionOf(g)' = [SessionOf(g) EXCEPT !.open = FALSE]
      <3>1. g \in Tokens
        BY DEF Account!SessionsOf
      <3>2. Names(g) /\ FamilyOf(g) \subseteq TokensOf(u) /\ g \in FamilyOf(g)
        BY <3>1, SessionsOfUser, SessionFacts
      <3>3. token[g] # None
        BY <3>2 DEF Names
      <3>4. token'[g].user = token[g].user /\ token'[g].proved = token[g].proved
        BY <1>5, <3>1, <3>3
      <3>5. QED
        BY <2>1, <2>2, <3>1, <3>2, <3>4, SessionClosed
    <2>4. ASSUME NEW g \in Tokens, g \notin Account!SessionsOf(u)
          PROVE  SessionOf(g)' = SessionOf(g)
      <3>1. \A x \in FamilyOf(g) : x \in Tokens /\ x \notin TokensOf(u)
        BY <2>4, SessionsOfUser, FamilyFacts
      <3>2. QED
        BY <1>5, <2>2, <3>1, SessionUntouched
    <2>5. Account!UpdateMember(u, role, status)
      BY <1>4, <1>6, <1>8, <1>10, <2>3, <2>4 DEF Account!UpdateMember, Account!Closed
    <2>6. QED
      BY <2>5 DEF Account!Roles, Account!Statuses, Roles, Statuses
  <1>11. QED
    BY <1>9, <1>10

LEMMA NextRefines ==
    ASSUME IInv, [Next]_vars
    PROVE  Account!Next \/ (user' = user /\ Sessions' = Sessions)
  <1>1. ASSUME NEW r \in Requests, Commit(r)
        PROVE  Account!Next \/ (user' = user /\ Sessions' = Sessions)
    <2>1. request[r] # None
      BY <1>1
      DEF Commit, CommitRegister, CommitLogin, CommitRefresh, CommitRevokeFamily,
          CommitPassword, CommitCreate, CommitUpdate, In
    <2>2. request[r].user \in Users
      BY <2>1, AtCommit
    <2>3. ASSUME CommitCreate(r)
          PROVE  Account!Next
      <3>1. request[r].change.role \in Account!Roles
        BY <2>1, <2>3, AtCommit DEF CommitCreate, In, Refers, Roles, Account!Roles
      <3>2. QED
        BY <2>2, <2>3, <3>1, CreateRefines DEF Account!Next
    <2>4. ASSUME NEW t \in Tokens, CommitRegister(r, t) \/ CommitLogin(r, t)
          PROVE  Account!Next
      BY <2>2, <2>4, RegisterRefines, LoginRefines DEF Account!Next
    <2>5. ASSUME CommitRevokeFamily(r) \/ CommitPassword(r) \/ CommitUpdate(r)
          PROVE  Account!Next
      BY <2>5, RevokeFamilyRefines, PasswordRefines, UpdateRefines DEF Account!Next
    <2>6. QED
      BY <1>1, <2>3, <2>4, <2>5, RefreshRefines DEF Commit
  <1>2. ASSUME UNCHANGED <<user, token>>
        PROVE  user' = user /\ Sessions' = Sessions
    BY <1>2 DEF Sessions, SessionOf, IsOpen, FamilyOf, Live, Issued
  <1>3. ASSUME NEW r \in Requests, Arrive(r) \/ Wait(r) \/ Refuse(r) \/ Fail(r)
        PROVE  UNCHANGED <<user, token>>
    BY <1>3
    DEF Arrive, BeginRegister, BeginLogin, BeginCreateMember, BeginUpdateMember,
        BeginRefresh, BeginLogout, BeginChangePassword, Begin,
        Wait, LockForRegister, LockForCreate, LockForLogin, LockForPassword,
        LockForLogout, LockForRefresh, LockForReuse, LockForUpdate, LockMember, MoveTo,
        Refuse, Fail
  <1>4. QED
    BY <1>1, <1>2, <1>3 DEF Next, vars

\* The locks the identity service takes are enough: its overlapping transactions and
\* rotating tokens come to one request at a time on users and sessions.
THEOREM IdentityIsAtomic == Spec => ImplementsAccounts
  <1>1. Init => Account!Init
    BY DEF Init, Account!Init, SessionOf
  <1>2. IInv /\ [Next]_vars => [Account!Next]_(Account!vars)
    BY NextRefines DEF Account!vars, Sessions
  <1>3. QED
    BY <1>1, <1>2, Invariant, PTL DEF Spec, ImplementsAccounts, Account!Spec
=============================================================================
