------------------------------- MODULE Identity -------------------------------
(***************************************************************************)
(* People and their sessions: core/services/identity.  A session is a      *)
(* family of refresh tokens that replace one another; Register, Login,     *)
(* Refresh, Logout, ChangePassword, CreateMember and UpdateMember read     *)
(* some rows without a lock, open a transaction, take the identity lock    *)
(* (pg_advisory_xact_lock), the lock of a user's row or both, read under   *)
(* the lock, and write.                                                    *)
(*                                                                         *)
(* A request in progress is a record of what it has read; its writes       *)
(* appear when it commits.  Passwords are version numbers: a hash is       *)
(* salted, so setting a password, even the same one, makes a new version.  *)
(* A password that does not match, a malformed token and a request that    *)
(* is refused before its transaction change nothing and are left out.      *)
(* Anyone may present any token ever issued, any number of times: replies  *)
(* are lost, clients retry, tokens are copied.                             *)
(***************************************************************************)
EXTENDS Naturals, FiniteSets

CONSTANTS
    Users,        \* people, up to their e-mail address
    Tokens,       \* refresh tokens; a family is called after its first token
    Requests,     \* requests that run at the same time
    MaxPasswords, \* bound on the passwords a user has
    Given,        \* bound on the roles CreateMember and UpdateMember are asked for
    None          \* no row, no lock, no token

Roles    == {"owner", "admin", "member"}
Statuses == {"active", "disabled"}

(* A row of users; password is the version of password_hash. *)
UserRow == [role : Roles, status : Statuses, password : 1 .. MaxPasswords,
            mustChange : BOOLEAN]

(* A row of refresh_tokens: replacedBy and revokedAt, the latter up to being set.
   proved is no column: the version of the password whose knowledge the session
   rests on. *)
TokenRow == [user : Users, family : Tokens, revoked : BOOLEAN,
             replacedBy : Tokens \cup {None}, proved : 1 .. MaxPasswords]

(* A session, as Accounts sees it; open while one of its tokens may be used. *)
SessionRow == [user : Users, open : BOOLEAN, proved : 1 .. MaxPasswords]

(* What UpdateMember is asked to set; None is a field not supplied. *)
Changes == [role : Roles \cup {None}, status : Statuses \cup {None}]

Operations == {"register", "login", "refresh", "logout", "password", "create", "update"}

(* Stages of a request: nothing locked yet; identity lock held; locks held, rows read
   and the writes decided, which are those of a spent token ("reuse") or not. *)
Stages == {"begun", "identity", "ready", "reuse"}

(* by is the role of the caller of an update, as read before the transaction. *)
RequestRow == [op : Operations, stage : Stages, user : Users, token : Tokens \cup {None},
               by : Roles, change : Changes, verified : 0 .. MaxPasswords]

ASSUME IdentityAssumption ==
    /\ None \notin Users \cup Tokens \cup Requests
    /\ None \notin UserRow \cup TokenRow \cup SessionRow \cup RequestRow \cup Roles \cup Statuses
    /\ MaxPasswords \in Nat \ {0}
    /\ Given \subseteq {"owner", "admin", "member"}
    /\ IsFiniteSet(Users) /\ IsFiniteSet(Tokens) /\ IsFiniteSet(Requests)

VARIABLES
    user,         \* users: a row or None
    token,        \* refresh_tokens: a row or None
    identityLock, \* the request with the advisory lock
    userLock,     \* the request with the lock on a user's row
    request       \* what each request has read so far, or None

vars == <<user, token, identityLock, userLock, request>>

TypeOK ==
    /\ user \in [Users -> UserRow \cup {None}]
    /\ token \in [Tokens -> TokenRow \cup {None}]
    /\ identityLock \in Requests \cup {None}
    /\ userLock \in [Users -> Requests \cup {None}]
    /\ request \in [Requests -> RequestRow \cup {None}]

Init ==
    /\ user = [u \in Users |-> None]
    /\ token = [t \in Tokens |-> None]
    /\ identityLock = None
    /\ userLock = [u \in Users |-> None]
    /\ request = [r \in Requests |-> None]

-----------------------------------------------------------------------------
(* What the statements read.                                               *)

Registered == {u \in Users : user[u] # None}
Issued     == {t \in Tokens : token[t] # None}
Live(t)    == token[t] # None /\ ~token[t].revoked
FamilyOf(f) == {t \in Issued : token[t].family = f}

\* CountActiveOwners.
ActiveOwners ==
    {u \in Registered : user[u].role = "owner" /\ user[u].status = "active"}

In(r, op, stage) == request[r] # None /\ request[r].op = op /\ request[r].stage = stage

\* Bound: tokens are left for a request that creates one and those under way.
Room ==
    LET creating == {r \in Requests : request[r] # None
                        /\ request[r].op \in {"register", "login", "refresh"}}
    IN  Cardinality(Tokens \ Issued) > Cardinality(creating)

(* FromAccessToken and Authorize: role and status are read when the request arrives,
   and not read again. *)
MayManage(a) ==
    /\ user[a] # None
    /\ user[a].status = "active" /\ ~user[a].mustChange
    /\ user[a].role \in {"owner", "admin"}

-----------------------------------------------------------------------------
(* Requests arrive: what is checked and read before the transaction.       *)

Begin(r, op, u, t, by, change, verified) ==
    /\ request[r] = None
    /\ request' = [request EXCEPT ![r] =
            [op |-> op, stage |-> "begun", user |-> u, token |-> t, by |-> by,
             change |-> change, verified |-> verified]]
    /\ UNCHANGED <<user, token, identityLock, userLock>>

NoChange == [role |-> None, status |-> None]

\* Register reads nothing before its transaction.
BeginRegister(r, u) == Room /\ Begin(r, "register", u, None, "member", NoChange, 0)

\* Login: FindUserByEmail, then the password is verified against the row found.
BeginLogin(r, u) ==
    /\ user[u] # None
    /\ Room
    /\ Begin(r, "login", u, None, "member", NoChange, user[u].password)

\* Refresh and Logout: FindRefreshToken.
BeginRefresh(r, t) ==
    /\ t \in Issued
    /\ Room
    /\ Begin(r, "refresh", token[t].user, t, "member", NoChange, 0)

\* Logout revokes the family, so any of its tokens does as well as its first.
BeginLogout(r, f) ==
    /\ f \in Issued /\ token[f].family = f
    /\ Begin(r, "logout", token[f].user, f, "member", NoChange, 0)

\* ChangePassword with an access token of a family, which is not asked whether it
\* was revoked.
BeginChangePassword(r, f) ==
    /\ f \in Issued /\ token[f].family = f
    /\ user[token[f].user].status = "active"
    /\ Begin(r, "password", token[f].user, f, "member", NoChange, 0)

\* CreateMember: only an owner gives another role than member.
BeginCreateMember(r, a, u, role) ==
    /\ MayManage(a)
    /\ role = "member" \/ user[a].role = "owner"
    /\ Begin(r, "create", u, None, "member", [NoChange EXCEPT !.role = role], 0)

BeginUpdateMember(r, a, u, change) ==
    /\ MayManage(a)
    /\ user[u] # None
    /\ Begin(r, "update", u, None, user[a].role, change, 0)

-----------------------------------------------------------------------------
(* Inside the transaction: a lock, and the reads that follow it at once, which it
   guards.  The writes are steps of their own, so that it matters that the lock is
   held until then.                                                        *)

MoveTo(r, stage) ==
    /\ request' = [request EXCEPT ![r].stage = stage]
    /\ UNCHANGED <<user, token>>

\* Mutant of TakeIdentity: the advisory lock is not kept.
TakeIdentityNot(r) == identityLock = None /\ UNCHANGED <<identityLock, userLock>>

\* LockIdentity: pg_advisory_xact_lock.
TakeIdentity(r) ==
    /\ identityLock = None
    /\ identityLock' = r
    /\ UNCHANGED userLock

\* Mutant of TakeRow: GetUser instead of GetUserForUpdate.
TakeRowUnlocked(r) ==
    userLock[request[r].user] = None /\ UNCHANGED <<identityLock, userLock>>

\* GetUserForUpdate.
TakeRow(r) ==
    /\ userLock[request[r].user] = None
    /\ userLock' = [userLock EXCEPT ![request[r].user] = r]
    /\ UNCHANGED identityLock

\* SignupAllowed: CountUsers.
SignupAllowed == Registered = {}

\* Mutant of StillVerified: the hash verified is not compared with the locked row's.
StillActive(r) == user[request[r].user].status = "active"

\* Login: the locked row still has the hash that was verified, and is active.
StillVerified(r) ==
    /\ user[request[r].user].password = request[r].verified
    /\ user[request[r].user].status = "active"

\* Refresh: the token was replaced, or revoked with its family.
Spent(t) == token[t].revoked \/ token[t].replacedBy # None

\* Mutant of RemovesOwner: only a change of the role is seen to remove an owner.
RemovesOwnerByRole(row, change) ==
    /\ row.role = "owner" /\ row.status = "active"
    /\ change.role \notin {None, "owner"}

RemovesOwner(row, change) ==
    /\ row.role = "owner" /\ row.status = "active"
    /\ change.role \notin {None, "owner"} \/ change.status \notin {None, "active"}

\* Mutant of ChangeAllowed: the role the person has by now is not looked at.
ChangeAllowedAsAsked(row, change, by) ==
    /\ by = "admin" => change.role \in {None, "member"}
    /\ RemovesOwner(row, change) => Cardinality(ActiveOwners) > 1

\* UpdateMember: an administrator manages members only, and does not make them more;
\* the last active owner stays.
ChangeAllowed(row, change, by) ==
    /\ by = "admin" => row.role = "member" /\ change.role \in {None, "member"}
    /\ RemovesOwner(row, change) => Cardinality(ActiveOwners) > 1

LockForRegister(r) ==
    /\ In(r, "register", "begun")
    /\ SignupAllowed
    /\ TakeIdentity(r) /\ MoveTo(r, "ready")

\* CreateMember: users_email_unique refuses a second row of a user.
LockForCreate(r) ==
    /\ In(r, "create", "begun")
    /\ user[request[r].user] = None
    /\ TakeIdentity(r) /\ MoveTo(r, "ready")

LockForLogin(r) ==
    /\ In(r, "login", "begun")
    /\ StillVerified(r)
    /\ TakeRow(r) /\ MoveTo(r, "ready")

\* ChangePassword: the current password given fits the locked row (or Fail).
LockForPassword(r) ==
    /\ In(r, "password", "begun")
    /\ user[request[r].user].status = "active"
    /\ user[request[r].user].password < MaxPasswords
    /\ TakeRow(r) /\ MoveTo(r, "ready")

LockForLogout(r) ==
    /\ In(r, "logout", "begun")
    /\ TakeRow(r) /\ MoveTo(r, "ready")

\* Refresh: the user's row and GetRefreshTokenForUpdate.  A token past the absolute
\* expiry of its family is refused with no write, as by Fail.
LockForRefresh(r) ==
    /\ In(r, "refresh", "begun")
    /\ ~Spent(request[r].token)
    /\ user[request[r].user].status = "active"
    /\ TakeRow(r) /\ MoveTo(r, "ready")

LockForReuse(r) ==
    /\ In(r, "refresh", "begun")
    /\ Spent(request[r].token)
    /\ TakeRow(r) /\ MoveTo(r, "reuse")

\* UpdateMember: LockIdentity, then the row.
LockForUpdate(r) ==
    /\ In(r, "update", "begun")
    /\ TakeIdentity(r) /\ MoveTo(r, "identity")

LockMember(r) ==
    /\ In(r, "update", "identity")
    /\ ChangeAllowed(user[request[r].user], request[r].change, request[r].by)
    /\ TakeRow(r) /\ MoveTo(r, "ready")

-----------------------------------------------------------------------------
(* The writes and the commit; a request that ends lets its locks go.       *)

EndRequest(r) ==
    /\ request' = [request EXCEPT ![r] = None]
    /\ identityLock' = IF identityLock = r THEN None ELSE identityLock
    /\ userLock' = [u \in Users |-> IF userLock[u] = r THEN None ELSE userLock[u]]

Revoke(S) == [t \in Tokens |->
                 IF t \in S /\ token[t] # None THEN [token[t] EXCEPT !.revoked = TRUE]
                                               ELSE token[t]]

TokensOf(u) == {t \in Issued : token[t].user = u}

\* Mutant of FirstToken: a login continues an earlier session of the user.
FirstTokenContinued(u, t, password) ==
    \E f \in {t} \cup {token[s].family : s \in TokensOf(u)} :
        token' = [token EXCEPT ![t] = [user |-> u, family |-> f, revoked |-> FALSE,
                                       replacedBy |-> None, proved |-> password]]

\* newSession without a predecessor: the token names a new family.
FirstToken(u, t, password) ==
    token' = [token EXCEPT ![t] = [user |-> u, family |-> t, revoked |-> FALSE,
                                   replacedBy |-> None, proved |-> password]]

\* Register: CreateUser and newSession.
CommitRegister(r, t) ==
    LET u == request[r].user IN
    /\ In(r, "register", "ready")
    /\ t \notin Issued
    /\ user' = [user EXCEPT ![u] = [role |-> "owner", status |-> "active",
                                    password |-> 1, mustChange |-> FALSE]]
    /\ FirstToken(u, t, 1)
    /\ EndRequest(r)

\* Login: newSession.
CommitLogin(r, t) ==
    /\ In(r, "login", "ready")
    /\ t \notin Issued
    /\ FirstToken(request[r].user, t, request[r].verified)
    /\ EndRequest(r)
    /\ UNCHANGED user

\* Mutant of CommitRefresh: the predecessor is not rotated out.
CommitRefreshKeeping(r, t) ==
    LET old == request[r].token IN
    /\ In(r, "refresh", "ready")
    /\ t \notin Issued
    /\ token' = [token EXCEPT ![t] = [token[old] EXCEPT !.revoked = FALSE],
                              ![old].replacedBy = t]
    /\ EndRequest(r)
    /\ UNCHANGED user

\* Refresh: newSession with a predecessor, whose family and expiry it takes over, and
\* RotateRefreshToken, which finds no row if the predecessor is revoked.
CommitRefresh(r, t) ==
    LET old == request[r].token IN
    /\ In(r, "refresh", "ready")
    /\ t \notin Issued
    /\ ~token[old].revoked
    /\ token' = [token EXCEPT ![t] = [token[old] EXCEPT !.revoked = FALSE,
                                                        !.replacedBy = None],
                              ![old].replacedBy = t, ![old].revoked = TRUE]
    /\ EndRequest(r)
    /\ UNCHANGED user

\* Refresh with a spent token, and Logout: RevokeRefreshFamily.
CommitRevokeFamily(r) ==
    /\ In(r, "refresh", "reuse") \/ In(r, "logout", "ready")
    /\ token' = Revoke(FamilyOf(token[request[r].token].family))
    /\ EndRequest(r)
    /\ UNCHANGED user

\* Mutant of CommitPassword: the sessions of others are left alone.
CommitPasswordOnly(r) ==
    LET u == request[r].user  new == user[u].password + 1 IN
    /\ In(r, "password", "ready")
    /\ user' = [user EXCEPT ![u].password = new, ![u].mustChange = FALSE]
    /\ token' = [t \in Tokens |->
                    IF t \in FamilyOf(request[r].token)
                    THEN [token[t] EXCEPT !.proved = new] ELSE token[t]]
    /\ EndRequest(r)

\* ChangePassword: SetPassword, and RevokeUserRefreshTokens but for the caller's
\* family, which from now on rests on the new password.
CommitPassword(r) ==
    LET u == request[r].user  new == user[u].password + 1 IN
    /\ In(r, "password", "ready")
    /\ user' = [user EXCEPT ![u].password = new, ![u].mustChange = FALSE]
    /\ token' = [t \in Tokens |->
                    IF t \in FamilyOf(request[r].token)
                    THEN [token[t] EXCEPT !.proved = new]
                    ELSE Revoke(TokensOf(u))[t]]
    /\ EndRequest(r)

\* CreateMember: CreateUser, with a temporary password.
CommitCreate(r) ==
    LET u == request[r].user IN
    /\ In(r, "create", "ready")
    /\ user' = [user EXCEPT ![u] = [role |-> request[r].change.role, status |-> "active",
                                    password |-> 1, mustChange |-> TRUE]]
    /\ EndRequest(r)
    /\ UNCHANGED token

\* COALESCE(new, old) of the statement UpdateMember.
OrElse(new, old) == IF new = None THEN old ELSE new

\* UpdateMember: the fields supplied, and RevokeUserRefreshTokens if it disables.
CommitUpdate(r) ==
    LET u == request[r].user  change == request[r].change IN
    /\ In(r, "update", "ready")
    /\ user' = [user EXCEPT ![u].role = OrElse(change.role, @),
                            ![u].status = OrElse(change.status, @)]
    /\ token' = IF change.status = "disabled" THEN Revoke(TokensOf(u)) ELSE token
    /\ EndRequest(r)

\* Refused by what was read under the lock: the transaction rolls back.
Refuse(r) ==
    /\ request[r] # None
    /\ LET q == request[r] IN
       \/ q.op = "register" /\ identityLock = None /\ ~SignupAllowed
       \/ q.op = "create" /\ identityLock = None /\ user[q.user] # None
       \/ In(r, "update", "identity") /\ userLock[q.user] = None
            /\ ~ChangeAllowed(user[q.user], q.change, q.by)
       \/ In(r, "login", "begun") /\ userLock[q.user] = None /\ ~StillVerified(r)
       \/ In(r, "password", "begun") /\ userLock[q.user] = None
            /\ (user[q.user].status # "active" \/ user[q.user].password = MaxPasswords)
       \/ In(r, "refresh", "begun") /\ userLock[q.user] = None
            /\ ~Spent(q.token) /\ user[q.user].status # "active"
    /\ EndRequest(r)
    /\ UNCHANGED <<user, token>>

\* Any statement may fail, or the process stop: the transaction rolls back.
Fail(r) ==
    /\ request[r] # None
    /\ EndRequest(r)
    /\ UNCHANGED <<user, token>>

-----------------------------------------------------------------------------
\* Bound: UpdateMember is asked to change one field.
OneField == {[NoChange EXCEPT !.role = role] : role \in Given}
       \cup {[NoChange EXCEPT !.status = status] : status \in Statuses}

Arrive(r) ==
    \/ \E u \in Users :
          \/ BeginRegister(r, u)
          \/ BeginLogin(r, u)
          \/ \E a \in Users, role \in Given : BeginCreateMember(r, a, u, role)
          \/ \E a \in Users, change \in OneField : BeginUpdateMember(r, a, u, change)
    \/ \E t \in Tokens :
          BeginRefresh(r, t) \/ BeginLogout(r, t) \/ BeginChangePassword(r, t)

\* Statements that wait for a lock.
Wait(r) ==
    \/ LockForRegister(r) \/ LockForCreate(r)
    \/ LockForLogin(r) \/ LockForPassword(r) \/ LockForLogout(r) \/ LockForRefresh(r)
    \/ LockForReuse(r) \/ LockForUpdate(r) \/ LockMember(r)

Commit(r) ==
    \/ \E t \in Tokens : CommitRegister(r, t) \/ CommitLogin(r, t) \/ CommitRefresh(r, t)
    \/ CommitRevokeFamily(r) \/ CommitPassword(r) \/ CommitCreate(r) \/ CommitUpdate(r)

Next == \E r \in Requests : Arrive(r) \/ Wait(r) \/ Commit(r) \/ Refuse(r) \/ Fail(r)

Spec == Init /\ [][Next]_vars

-----------------------------------------------------------------------------
(* Properties.                                                             *)

(* A family is a chain: every token but its first has replaced exactly one other of
   the family, and only the last may be used.  Two refreshes with one token must not
   both be answered with a new one. *)
FamiliesAreChains ==
    \A t \in Issued :
        /\ token[t].family \in Issued
        /\ token[t].family # t =>
              \E s \in Issued : /\ token[s].family = token[t].family
                                /\ {x \in Issued : token[x].replacedBy = t} = {s}
        /\ Live(t) => \A x \in FamilyOf(token[t].family) : Live(x) => x = t

(* A disabled user has no usable session, however a login, a refresh or another
   update was interleaved with the update that disabled them. *)
DisabledUsersHaveNoSession ==
    \A t \in Issued : Live(t) => user[token[t].user].status = "active"

(* Every usable session rests on the user's present password: it was opened with
   it, or it is the one that set it. *)
SessionsKnowThePassword ==
    \A t \in Issued : Live(t) => token[t].proved = user[token[t].user].password

(* Owners that demote or disable each other, or themselves, leave one. *)
AnOwnerRemains == Registered # {} => ActiveOwners # {}

(* A family without a usable token - its user logged out, was disabled, changed the
   password elsewhere, or a spent token of it was presented - never gets one again. *)
DeadFamiliesStayDead ==
    [][\A f \in Issued :
          (\A t \in FamilyOf(f) : token[t].revoked)
             => \A t \in Tokens : token'[t] # None /\ token'[t].family = f
                                     => token'[t].revoked]_vars

(* "Admin chỉ sửa member" (api/openapi.yaml:339): a request that began as an
   administrator's changes nobody but a member, and leaves him one, although the person
   was chosen before the locks and may have been made more, by an owner, while they were
   waited for.  (UpdateMember reads the row again; its caller's role it does not.) *)
AdminsChangeOnlyMembers ==
    [][\A r \in Requests :
          LET q == request[r] IN
          q # None /\ q.op = "update" /\ q.by = "admin" /\ request'[r] = None
             => \/ user' = user
                \/ user[q.user].role = "member" /\ user'[q.user].role = "member"]_vars

(* What those who hold the tokens of a family see of it. *)
IsOpen(f) == \E t \in FamilyOf(f) : Live(t)

SessionOf(f) ==
    IF token[f] # None /\ token[f].family = f
      THEN [user |-> token[f].user, open |-> IsOpen(f), proved |-> token[f].proved]
      ELSE None

Account == INSTANCE Accounts WITH Sessions <- Tokens, session <- [f \in Tokens |-> SessionOf(f)]

(* Overlapping transactions and rotating tokens come to what Accounts does one request
   at a time: a password verified before the transaction, two refreshes with one token,
   sign-ups and owners that race, show nowhere.  Who asks for a new or changed member is
   not seen by Accounts: the role of the caller is read before the transaction and not
   again, and a manager who is demoted or disabled meanwhile still gets his way. *)
ImplementsAccounts == Account!Spec
=============================================================================
