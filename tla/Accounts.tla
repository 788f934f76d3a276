------------------------------ MODULE Accounts ------------------------------
(***************************************************************************)
(* What the identity service promises, as if each request were served at   *)
(* one instant: a session is opened for an active user who knows the       *)
(* present password, stays closed once closed, and users change one        *)
(* request at a time.  Tokens, their rotation, locks and failures are      *)
(* not seen, nor is who may ask for a change of a member: the caller's     *)
(* role is read earlier than the change is made, and not again.            *)
(*                                                                         *)
(* Module Identity, in which a session is a family of refresh tokens and   *)
(* requests overlap, is shown to implement this specification.             *)
(***************************************************************************)
EXTENDS Naturals

CONSTANTS Users, Sessions, None

VARIABLES
    user,    \* role, status, password and mustChange of each user, or None
    session  \* user, open, and proved, the password it rests on; None before it is opened

vars == <<user, session>>

Roles    == {"owner", "admin", "member"}
Statuses == {"active", "disabled"}

Init ==
    /\ user = [u \in Users |-> None]
    /\ session = [f \in Sessions |-> None]

NewUser(u, role, mustChange) ==
    /\ user[u] = None
    /\ user' = [user EXCEPT ![u] = [role |-> role, status |-> "active", password |-> 1,
                                    mustChange |-> mustChange]]

\* A session that was never there.
Open(f, u, password) ==
    /\ session[f] = None
    /\ session' = [session EXCEPT ![f] = [user |-> u, open |-> TRUE, proved |-> password]]

Closed(f) == [session[f] EXCEPT !.open = FALSE]

SessionsOf(u) == {f \in Sessions : session[f] # None /\ session[f].user = u}

\* Only while there is nobody, so one of two sign-ups succeeds.
SignUp(u, f) ==
    /\ \A x \in Users : user[x] = None
    /\ NewUser(u, "owner", FALSE)
    /\ Open(f, u, 1)

\* The password given is the user's at this instant.
LogIn(u, f) ==
    /\ user[u] # None /\ user[u].status = "active"
    /\ Open(f, u, user[u].password)
    /\ UNCHANGED user

\* The user logs out, or a token that was replaced is presented.
EndSession(f) ==
    /\ session[f] # None
    /\ session' = [session EXCEPT ![f] = Closed(f)]
    /\ UNCHANGED user

\* Whoever changes the password stays, all other sessions of the user are closed; a
\* session that was closed before stays closed.
ChangePassword(f) ==
    /\ session[f] # None
    /\ LET u == session[f].user  new == user[u].password + 1 IN
       /\ user[u] # None /\ user[u].status = "active"
       /\ user' = [user EXCEPT ![u].password = new, ![u].mustChange = FALSE]
       /\ session' = [g \in Sessions |->
                         IF g = f THEN [session[f] EXCEPT !.proved = new]
                         ELSE IF g \in SessionsOf(u) THEN Closed(g)
                         ELSE session[g]]

CreateMember(u, role) ==
    /\ \E x \in Users : user[x] # None
    /\ NewUser(u, role, TRUE)
    /\ UNCHANGED session

ActiveOwner(u) == user[u] # None /\ user[u].role = "owner" /\ user[u].status = "active"

\* Any role and status, unless it takes the last active owner; a user who is disabled
\* has no open session from then on.
UpdateMember(u, role, status) ==
    /\ user[u] # None
    /\ ActiveOwner(u) /\ ~(role = "owner" /\ status = "active")
          => \E x \in Users \ {u} : ActiveOwner(x)
    /\ user' = [user EXCEPT ![u].role = role, ![u].status = status]
    /\ session' = IF status = "active" THEN session
                  ELSE [f \in Sessions |-> IF f \in SessionsOf(u) THEN Closed(f) ELSE session[f]]

Next ==
    \/ \E u \in Users, f \in Sessions : SignUp(u, f) \/ LogIn(u, f)
    \/ \E f \in Sessions : EndSession(f) \/ ChangePassword(f)
    \/ \E u \in Users, role \in Roles :
          \/ CreateMember(u, role)
          \/ \E status \in Statuses : UpdateMember(u, role, status)

Spec == Init /\ [][Next]_vars
=============================================================================
