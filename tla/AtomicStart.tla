---------------------------- MODULE AtomicStart -----------------------------
(***************************************************************************)
(* What callers of Service.start are promised, as if each request were     *)
(* served at one instant: it is answered by the reservation of its         *)
(* idempotency key, or refused for a reason that holds at that instant, or *)
(* creates its run with everything that belongs to it. Sessions, runs and  *)
(* keys are never seen half way.                                           *)
(*                                                                         *)
(* Module RunStart, with its statements, locks and waits, is shown to      *)
(* implement this specification.                                           *)
(***************************************************************************)
CONSTANTS Requests, Stored, AgentOfStored, Keys, Asked, None

Sessions == Stored \cup Requests

VARIABLES
    session,   \* "absent", "live" or "deleted"
    run,       \* "none", "active" or "ended"
    place,     \* the session of each run
    record,    \* the run a key is reserved for
    expired,   \* the reservation has run out
    asked,     \* what each request asks for
    answer     \* what its caller is told, "none" before

tables == <<session, run, place, record, expired>>
vars   == <<tables, asked, answer>>

AgentAt(s) == IF s \in Stored THEN AgentOfStored[s] ELSE asked[s].agent
NamedAt(s) == IF s \in Stored THEN None ELSE asked[s].name

\* Session s is one that q names, by its id or by its session_key.
NamesSession(q, s) ==
    \/ s = asked[q].continues
    \/ asked[q].name # None /\ NamedAt(s) = asked[q].name

Addressed(q) == {s \in Sessions : session[s] = "live" /\ NamesSession(q, s)}

Busy(s) == \E q \in Requests : run[q] = "active" /\ place[q] = s

\* The key of q answers for it.
Reserved(q) ==
    LET k == asked[q].key IN k # None /\ record[k] # None /\ ~expired[k]

Init ==
    /\ asked \in Asked
    /\ session = [s \in Sessions |-> IF s \in Stored THEN "live" ELSE "absent"]
    /\ run = [q \in Requests |-> "none"]
    /\ place = [q \in Requests |-> None]
    /\ record = [k \in Keys |-> None]
    /\ expired = [k \in Keys |-> FALSE]
    /\ answer = [q \in Requests |-> "none"]

Tell(q, a) ==
    /\ answer[q] = "none"
    /\ answer' = [answer EXCEPT ![q] = a]
    /\ UNCHANGED asked

\* The run is placed in the idle session addressed, which is one of its assistant, or
\* in a new one when none is, and the key is reserved for it. The reply may be lost.
Accept(q) ==
    /\ ~Reserved(q)
    /\ \E s \in Sessions :
          /\ ~Busy(s)
          /\ \/ s \in Addressed(q) /\ AgentAt(s) = asked[q].agent /\ UNCHANGED session
             \/ /\ s = q
                /\ Addressed(q) = {}
                /\ asked[q].continues = None
                /\ session' = [session EXCEPT ![q] = "live"]
          /\ place' = [place EXCEPT ![q] = s]
    /\ run[q] = "none"
    /\ run' = [run EXCEPT ![q] = "active"]
    /\ record' = [k \in Keys |-> IF asked[q].key = k THEN q ELSE record[k]]
    /\ expired' = [k \in Keys |-> IF asked[q].key = k THEN FALSE ELSE expired[k]]
    /\ Tell(q, "accepted") \/ Tell(q, "error")

\* A reservation in force answers with its run, to the same body only.
Replay(q) ==
    /\ Reserved(q)
    /\ Tell(q, IF asked[record[asked[q].key]].body = asked[q].body
                 THEN "replayed" ELSE "key_reused")
    /\ UNCHANGED tables

\* There is no such session: not under the id, not of this assistant, or not any more
\* under the session_key.
RefuseUnknown(q) ==
    /\ ~Reserved(q)
    /\ \/ asked[q].continues # None /\ Addressed(q) = {}
       \/ \E s \in Addressed(q) : AgentAt(s) # asked[q].agent
       \/ /\ Addressed(q) = {}
          /\ \E s \in Sessions : session[s] = "deleted" /\ NamesSession(q, s)
    /\ Tell(q, "not_found")
    /\ UNCHANGED tables

RefuseBusy(q) ==
    /\ ~Reserved(q)
    /\ \E s \in Addressed(q) : AgentAt(s) = asked[q].agent /\ Busy(s)
    /\ Tell(q, "busy")
    /\ UNCHANGED tables

Fail(q) == Tell(q, "error") /\ UNCHANGED tables

EndRun(q) ==
    /\ run[q] = "active"
    /\ run' = [run EXCEPT ![q] = "ended"]
    /\ UNCHANGED <<session, place, record, expired, asked, answer>>

DeleteSession(s) ==
    /\ session[s] = "live"
    /\ ~Busy(s)
    /\ session' = [session EXCEPT ![s] = "deleted"]
    /\ UNCHANGED <<run, place, record, expired, asked, answer>>

Expire(k) ==
    /\ record[k] # None
    /\ expired' = [expired EXCEPT ![k] = TRUE]
    /\ UNCHANGED <<session, run, place, record, asked, answer>>

CleanUp(k) ==
    /\ expired[k]
    /\ record' = [record EXCEPT ![k] = None]
    /\ expired' = [expired EXCEPT ![k] = FALSE]
    /\ UNCHANGED <<session, run, place, asked, answer>>

Next ==
    \/ \E q \in Requests :
          Accept(q) \/ Replay(q) \/ RefuseUnknown(q) \/ RefuseBusy(q) \/ Fail(q) \/ EndRun(q)
    \/ \E s \in Sessions : DeleteSession(s)
    \/ \E k \in Keys : Expire(k) \/ CleanUp(k)

Spec == Init /\ [][Next]_vars
=============================================================================
