------------------------------ MODULE RunStart ------------------------------
(***************************************************************************)
(* How a request becomes a run: the transaction of Service.start, with the *)
(* idempotency key it reserves, the conversation ("session") it continues  *)
(* or creates and the one-active-run rule, beside DeleteSession and the    *)
(* clean-up of expired idempotency keys.                                   *)
(*                                                                         *)
(* Every transaction runs at READ COMMITTED: a statement sees what was     *)
(* committed before it, waits for the row locks and the uncommitted unique *)
(* keys of other transactions, and its own writes appear at the commit. A  *)
(* request is one transaction; its run, and the session it may create, are *)
(* named after it. What becomes of the run is module RunQueue.             *)
(***************************************************************************)
EXTENDS Naturals

CONSTANTS
    Requests,    \* calls of start, and the runs and sessions they may create
    Keys,        \* idempotency keys (of one caller)
    Names,       \* values of session_key (of one API key)
    Agents,      \* assistants
    Bodies,      \* request bodies, up to their hash
    Stored,      \* sessions that exist beforehand
    AgentOfStored, \* the assistant of each stored session
    Asked,       \* what the requests may ask for: their Idempotency-Key, body,
                 \* assistant, session_key and session_id, the last two exclusive
    Deleter,     \* the lock holder that is a DeleteSession transaction
    None,        \* a null identifier
    MaxFaults    \* bound on transactions that fail for reasons of their own

Sessions == Stored \cup Requests

ASSUME RunStartAssumption ==
    /\ Asked \subseteq [Requests -> [key : Keys \cup {None}, body : Bodies, agent : Agents,
                                     name : Names \cup {None}, continues : Sessions \cup {None}]]
    /\ \A f \in Asked, q \in Requests : f[q].name = None \/ f[q].continues = None
    /\ AgentOfStored \in [Stored -> Agents]
    /\ Stored \cap Requests = {}
    /\ None \notin Keys \cup Names \cup Sessions
    /\ Deleter \notin Requests \cup {None}
    /\ MaxFaults \in Nat

VARIABLES
    (* committed rows *)
    session,     \* sessions: "absent", "live" or "deleted" (deleted_at)
    run,         \* runs: "none", "active" (queued or running) or "ended"
    place,       \* the session_id of each run
    record,      \* idempotency_keys: the run a key is reserved for, or None
    expired,     \* the reservation is older than its 24 hours
    (* what uncommitted transactions hold *)
    keyHeld,     \* the request that has inserted the idempotency key
    nameHeld,    \* the request that has inserted a session with the name
    rowHeld,     \* the transaction with the lock on a session row
    (* requests *)
    asked,       \* what each asks for
    pc,          \* the next statement of the request's transaction
    picked,      \* the session it has found or created
    answer,      \* what the caller is told
    faults

rows  == <<session, run, place, record, expired>>
locks == <<keyHeld, nameHeld, rowHeld>>
calls == <<asked, pc, picked, answer>>
vars  == <<rows, locks, calls, faults>>

Stages  == {"reserve", "find", "create", "reread", "check", "commit", "done"}
Answers == {"none", "accepted", "replayed", "key_reused", "not_found", "busy", "error"}

KeyOf(q)     == asked[q].key
BodyOf(q)    == asked[q].body
AgentOf(q)   == asked[q].agent
NameOf(q)    == asked[q].name
Continues(q) == asked[q].continues

\* A session created by a request has its name and its assistant.
AgentAt(s) == IF s \in Stored THEN AgentOfStored[s] ELSE AgentOf(s)
NamedAt(s) == IF s \in Stored THEN None ELSE NameOf(s)

\* The committed sessions that a session_key refers to: sessions_external_key_active
\* is unique over the ones not deleted.
LiveNamed(n) == {s \in Sessions : session[s] = "live" /\ NamedAt(s) = n}

\* SessionHasActiveRuns.
HasActiveRuns(s) == \E q \in Requests : run[q] = "active" /\ place[q] = s

Init ==
    /\ asked \in Asked
    /\ session = [s \in Sessions |-> IF s \in Stored THEN "live" ELSE "absent"]
    /\ run = [q \in Requests |-> "none"]
    /\ place = [q \in Requests |-> None]
    /\ record = [k \in Keys |-> None]
    /\ expired = [k \in Keys |-> FALSE]
    /\ keyHeld = [k \in Keys |-> None]
    /\ nameHeld = [n \in Names |-> None]
    /\ rowHeld = [s \in Sessions |-> None]
    /\ pc = [q \in Requests |-> "reserve"]
    /\ picked = [q \in Requests |-> None]
    /\ answer = [q \in Requests |-> "none"]
    /\ faults = 0

-----------------------------------------------------------------------------
(* Locks and the end of a transaction.                                     *)

\* Mutant of LetGo: the row lock outlives the transaction.
LetGoKeepsRow(q) ==
    /\ keyHeld' = [k \in Keys |-> IF keyHeld[k] = q THEN None ELSE keyHeld[k]]
    /\ nameHeld' = [n \in Names |-> IF nameHeld[n] = q THEN None ELSE nameHeld[n]]
    /\ UNCHANGED rowHeld

\* Everything q holds is let go, by its commit or its rollback.
LetGo(q) ==
    /\ keyHeld' = [k \in Keys |-> IF keyHeld[k] = q THEN None ELSE keyHeld[k]]
    /\ nameHeld' = [n \in Names |-> IF nameHeld[n] = q THEN None ELSE nameHeld[n]]
    /\ rowHeld' = [s \in Sessions |-> IF rowHeld[s] = q THEN None ELSE rowHeld[s]]

Answer(q, a) ==
    /\ pc' = [pc EXCEPT ![q] = "done"]
    /\ answer' = [answer EXCEPT ![q] = a]
    /\ UNCHANGED <<asked, picked>>

\* The function given to WithinTx returns an error: nothing of q is kept.
RollBack(q, a) == Answer(q, a) /\ LetGo(q) /\ UNCHANGED rows

Goto(q, stage) ==
    /\ pc' = [pc EXCEPT ![q] = stage]
    /\ UNCHANGED <<asked, picked, answer>>

\* q has its session and goes on to the one-active-run rule.
Pick(q, s) ==
    /\ pc' = [pc EXCEPT ![q] = "check"]
    /\ picked' = [picked EXCEPT ![q] = s]
    /\ UNCHANGED <<asked, answer>>

\* A session found FOR UPDATE, once nobody else has the row: it must be a session of
\* the assistant the request addresses.
LockSession(q, s) ==
    /\ rowHeld[s] = None
    /\ \/ /\ AgentAt(s) = AgentOf(q)
          /\ Pick(q, s)
          /\ rowHeld' = [rowHeld EXCEPT ![s] = q]
          /\ UNCHANGED <<rows, keyHeld, nameHeld>>
       \/ AgentAt(s) # AgentOf(q) /\ RollBack(q, "not_found")

-----------------------------------------------------------------------------
(* The transaction of start.                                               *)

\* Mutant of Reserve: the key is looked up and not inserted, so nobody waits for it.
ReserveUnheld(q) ==
    /\ pc[q] = "reserve"
    /\ LET k == KeyOf(q) IN
       \/ /\ k = None \/ (k # None /\ (record[k] = None \/ expired[k]))
          /\ Goto(q, "find")
          /\ UNCHANGED <<rows, locks>>
       \/ /\ k # None
          /\ record[k] # None
          /\ ~expired[k]
          /\ RollBack(q, "replayed")
    /\ UNCHANGED faults

\* Mutant of Reserve: the reservation is committed on its own.
ReserveAtOnce(q) ==
    /\ pc[q] = "reserve"
    /\ LET k == KeyOf(q) IN
       \/ k = None /\ Goto(q, "find") /\ UNCHANGED <<rows, locks>>
       \/ /\ k # None
          /\ record[k] = None \/ expired[k]
          /\ record' = [record EXCEPT ![k] = q]
          /\ expired' = [expired EXCEPT ![k] = FALSE]
          /\ Goto(q, "find")
          /\ UNCHANGED <<session, run, place, locks>>
       \/ /\ k # None
          /\ record[k] # None
          /\ ~expired[k]
          /\ RollBack(q, "replayed")
    /\ UNCHANGED faults

\* Reserve: an expired record is deleted, then the key is inserted; a reservation in
\* force answers instead, with its run if the bodies have the same hash. It waits for
\* a transaction that holds the key.
Reserve(q) ==
    /\ pc[q] = "reserve"
    /\ LET k == KeyOf(q) IN
       \/ k = None /\ Goto(q, "find") /\ UNCHANGED <<rows, locks>>
       \/ /\ k # None
          /\ keyHeld[k] = None
          /\ record[k] = None \/ expired[k]
          /\ keyHeld' = [keyHeld EXCEPT ![k] = q]
          /\ Goto(q, "find")
          /\ UNCHANGED <<rows, nameHeld, rowHeld>>
       \/ /\ k # None
          /\ keyHeld[k] = None
          /\ record[k] # None
          /\ ~expired[k]
          /\ RollBack(q, IF BodyOf(record[k]) = BodyOf(q) THEN "replayed" ELSE "key_reused")
    /\ UNCHANGED faults

\* resolveSession with a session_id: GetSessionForUpdate.
FindById(q) ==
    /\ pc[q] = "find"
    /\ Continues(q) # None
    /\ \/ session[Continues(q)] = "live" /\ LockSession(q, Continues(q))
       \/ session[Continues(q)] # "live" /\ RollBack(q, "not_found")
    /\ UNCHANGED faults

\* resolveSession with a session_key: GetSessionByExternalKey, or a new session.
FindByName(q) ==
    /\ pc[q] = "find"
    /\ NameOf(q) # None
    /\ \/ \E s \in LiveNamed(NameOf(q)) : LockSession(q, s)
       \/ LiveNamed(NameOf(q)) = {} /\ Goto(q, "create") /\ UNCHANGED <<rows, locks>>
    /\ UNCHANGED faults

\* resolveSession with neither.
FindNothing(q) ==
    /\ pc[q] = "find"
    /\ Continues(q) = None
    /\ NameOf(q) = None
    /\ Goto(q, "create")
    /\ UNCHANGED <<rows, locks, faults>>

\* Mutant of CreateSession: no unique index.
CreateSessionUnchecked(q) ==
    /\ pc[q] = "create"
    /\ Pick(q, q)
    /\ UNCHANGED <<rows, locks, faults>>

\* Mutant of CreateSession: the session is committed on its own.
CreateSessionAtOnce(q) ==
    /\ pc[q] = "create"
    /\ NameOf(q) = None \/ LiveNamed(NameOf(q)) = {}
    /\ session' = [session EXCEPT ![q] = "live"]
    /\ Pick(q, q)
    /\ UNCHANGED <<run, place, record, expired, locks, faults>>

\* CreateSession: ON CONFLICT DO NOTHING, after waiting for a transaction that has
\* inserted the same name.
CreateSession(q) ==
    /\ pc[q] = "create"
    /\ LET n == NameOf(q) IN
       \/ n = None /\ Pick(q, q) /\ UNCHANGED <<rows, locks>>
       \/ /\ n # None
          /\ nameHeld[n] = None
          /\ LiveNamed(n) = {}
          /\ nameHeld' = [nameHeld EXCEPT ![n] = q]
          /\ Pick(q, q)
          /\ UNCHANGED <<rows, keyHeld, rowHeld>>
       \/ /\ n # None
          /\ nameHeld[n] = None
          /\ LiveNamed(n) # {}
          /\ Goto(q, "reread")
          /\ UNCHANGED <<rows, locks>>
    /\ UNCHANGED faults

\* GetSessionByExternalKey again, for the session that was in the way. It may have
\* been deleted since.
RereadSession(q) ==
    /\ pc[q] = "reread"
    /\ \/ \E s \in LiveNamed(NameOf(q)) : LockSession(q, s)
       \/ LiveNamed(NameOf(q)) = {} /\ RollBack(q, "not_found")
    /\ UNCHANGED faults

\* Mutant of CheckActive: the rule is left out.
CheckNothing(q) ==
    /\ pc[q] = "check"
    /\ Goto(q, "commit")
    /\ UNCHANGED <<rows, locks, faults>>

\* HasActiveRuns: one active run in a session.
CheckActive(q) ==
    /\ pc[q] = "check"
    /\ \/ HasActiveRuns(picked[q]) /\ RollBack(q, "busy")
       \/ ~HasActiveRuns(picked[q]) /\ Goto(q, "commit") /\ UNCHANGED <<rows, locks>>
    /\ UNCHANGED faults

\* Mutant of Commit: the columns of the session and the assistant are swapped.
CommitSwapped(q) ==
    /\ pc[q] = "commit"
    /\ run' = [run EXCEPT ![q] = "active"]
    /\ place' = [place EXCEPT ![q] = AgentOf(q)]
    /\ LetGo(q)
    /\ UNCHANGED <<session, record, expired>>

\* CreateRun, the user's message, the job of an asynchronous run, and the commit, with
\* everything the transaction has written.
Commit(q) ==
    /\ pc[q] = "commit"
    /\ run' = [run EXCEPT ![q] = "active"]
    /\ place' = [place EXCEPT ![q] = picked[q]]
    /\ session' = IF picked[q] = q THEN [session EXCEPT ![q] = "live"] ELSE session
    /\ record' = [k \in Keys |-> IF KeyOf(q) = k THEN q ELSE record[k]]
    /\ expired' = [k \in Keys |-> IF KeyOf(q) = k THEN FALSE ELSE expired[k]]
    /\ LetGo(q)

Accept(q) == Commit(q) /\ Answer(q, "accepted") /\ UNCHANGED faults

\* The commit takes effect and its reply is lost, or the identifier of the root span
\* cannot be had after it.
CommitReplyLost(q) ==
    /\ faults < MaxFaults
    /\ faults' = faults + 1
    /\ Commit(q)
    /\ Answer(q, "error")

\* A statement fails, the caller's context is cancelled or the process dies.
FailTransaction(q) ==
    /\ pc[q] # "done"
    /\ faults < MaxFaults
    /\ faults' = faults + 1
    /\ RollBack(q, "error")

-----------------------------------------------------------------------------
(* Beside it.                                                              *)

\* The run ends, by whatever way RunQueue lets it end.
EndRun(q) ==
    /\ run[q] = "active"
    /\ run' = [run EXCEPT ![q] = "ended"]
    /\ UNCHANGED <<session, place, record, expired, locks, calls, faults>>

\* DeleteSession locks the row...
LockForDelete(s) ==
    /\ session[s] = "live"
    /\ rowHeld[s] = None
    /\ rowHeld' = [rowHeld EXCEPT ![s] = Deleter]
    /\ UNCHANGED <<rows, keyHeld, nameHeld, calls, faults>>

\* Mutant of DeleteSession: active runs are not looked for.
DeleteBusySession(s) ==
    /\ rowHeld[s] = Deleter
    /\ session' = [session EXCEPT ![s] = "deleted"]
    /\ rowHeld' = [rowHeld EXCEPT ![s] = None]
    /\ UNCHANGED <<run, place, record, expired, keyHeld, nameHeld, calls, faults>>

\* ... and hides the session if no run is active in it.
DeleteSession(s) ==
    /\ rowHeld[s] = Deleter
    /\ session' = IF HasActiveRuns(s) THEN session
                  ELSE [session EXCEPT ![s] = "deleted"]
    /\ rowHeld' = [rowHeld EXCEPT ![s] = None]
    /\ UNCHANGED <<run, place, record, expired, keyHeld, nameHeld, calls, faults>>

\* Twenty-four hours pass.
Expire(k) ==
    /\ record[k] # None
    /\ ~expired[k]
    /\ expired' = [expired EXCEPT ![k] = TRUE]
    /\ UNCHANGED <<session, run, place, record, locks, calls, faults>>

\* MaintenanceWorker: DeleteExpiredIdempotency.
CleanUp(k) ==
    /\ record[k] # None
    /\ expired[k]
    /\ keyHeld[k] = None
    /\ record' = [record EXCEPT ![k] = None]
    /\ expired' = [expired EXCEPT ![k] = FALSE]
    /\ UNCHANGED <<session, run, place, locks, calls, faults>>

-----------------------------------------------------------------------------

Start(q) ==
    \/ Reserve(q) \/ FindById(q) \/ FindByName(q) \/ FindNothing(q)
    \/ CreateSession(q) \/ RereadSession(q) \/ CheckActive(q) \/ Accept(q)

Next ==
    \/ \E q \in Requests : Start(q) \/ CommitReplyLost(q) \/ FailTransaction(q) \/ EndRun(q)
    \/ \E s \in Sessions : LockForDelete(s) \/ DeleteSession(s)
    \/ \E k \in Keys : Expire(k) \/ CleanUp(k)

Spec == Init /\ [][Next]_vars

\* Postgres grants a lock to the transactions that wait for it in turn, so a request
\* that can take its next step time and again takes it; a DeleteSession transaction
\* ends. Nothing is assumed of callers, runs and clocks.
Fairness ==
    /\ \A q \in Requests : SF_vars(Start(q))
    /\ \A s \in Sessions : WF_vars(DeleteSession(s))

FairSpec == Spec /\ Fairness

-----------------------------------------------------------------------------
(* Properties.                                                             *)

\* Every variable holds a value of its kind.
TypeOK ==
    /\ session \in [Sessions -> {"absent", "live", "deleted"}]
    /\ run \in [Requests -> {"none", "active", "ended"}]
    /\ place \in [Requests -> Sessions \cup {None}]
    /\ record \in [Keys -> Requests \cup {None}]
    /\ expired \in [Keys -> BOOLEAN]
    /\ keyHeld \in [Keys -> Requests \cup {None}]
    /\ nameHeld \in [Names -> Requests \cup {None}]
    /\ rowHeld \in [Sessions -> Requests \cup {Deleter, None}]
    /\ asked \in Asked
    /\ pc \in [Requests -> Stages]
    /\ picked \in [Requests -> Sessions \cup {None}]
    /\ answer \in [Requests -> Answers]
    /\ faults \in 0..MaxFaults

\* A session has at most one queued or running run, however many requests for it are
\* in flight and whether they name it by id or by key (api/openapi.yaml:1681).
OneActiveRunPerSession ==
    \A p, q \in Requests :
        p # q /\ run[p] = "active" /\ run[q] = "active" => place[p] # place[q]

\* "DeleteSession hides an idle conversation": no active run is ever inside a deleted
\* session, and no request starts one there.
DeletedSessionsAreIdle ==
    \A s \in Sessions : session[s] = "deleted" => ~HasActiveRuns(s)

\* While a reservation is in force its key creates no other run: a caller that repeats
\* a request, even while the first is in flight, does not get a second execution.
OneRunPerKey ==
    [][\A q \in Requests :
          run[q] = "none" /\ run'[q] = "active" /\ KeyOf(q) # None =>
             record[KeyOf(q)] = None \/ expired[KeyOf(q)]]_vars

\* A reservation always names a run that exists and was made with its key: a request
\* that failed half way does not leave a key that answers for nothing.
ReservationsNameRuns ==
    \A k \in Keys :
        record[k] # None => run[record[k]] # "none" /\ KeyOf(record[k]) = k

\* A request leaves everything or nothing: a session of its own comes with its run, and
\* one that was refused, at whatever statement, left neither. (After an error the caller
\* cannot know; its idempotency key tells when it repeats the request.)
AllOrNothing ==
    \A q \in Requests :
        /\ session[q] # "absent" => run[q] # "none"
        /\ answer[q] \notin {"none", "accepted", "error"} => run[q] = "none"

\* Two live sessions never share a session_key.
OneSessionPerName ==
    \A s, t \in Sessions :
        s # t /\ session[s] = "live" /\ session[t] = "live" /\ NamedAt(s) # None =>
           NamedAt(s) # NamedAt(t)

Atomic == INSTANCE AtomicStart

\* Transactions at READ COMMITTED, with the locks they take, serve each request as if at
\* one instant: its answer is true at that instant, an accepted request leaves its run,
\* session and reservation together, a refused one leaves nothing, and what is addressed,
\* of which assistant it is and whether it is idle do not change under its feet.
ImplementsAtomicStart == Atomic!Spec

\* h holds what the next statement of q needs: the idempotency key, the row of the session
\* it is about to lock, or the name of the session it is about to create.
WaitsFor(q, h) ==
    \/ pc[q] = "reserve" /\ KeyOf(q) # None /\ h = keyHeld[KeyOf(q)]
    \/ pc[q] = "create" /\ NameOf(q) # None /\ h = nameHeld[NameOf(q)]
    \/ /\ pc[q] \in {"find", "reread"}
       /\ \E s \in Sessions :
             /\ session[s] = "live"
             /\ s = Continues(q) \/ (NameOf(q) # None /\ NamedAt(s) = NameOf(q))
             /\ h = rowHeld[s]

\* The locks are taken in one order, key before session, and all let go at the end:
\* whoever is waited for is a DeleteSession transaction, which waits for nobody, or an
\* open request that is itself past the statement that waits, so that no circle closes.
WaitsAreOrdered ==
    \A q \in Requests, h \in Requests :
        WaitsFor(q, h) =>
           \/ pc[h] \in {"check", "commit"}
           \/ pc[q] = "reserve" /\ pc[h] \in {"find", "create", "reread"}

\* Requests and deletions never wait for each other for ever: every request is answered.
EveryRequestAnswered == \A q \in Requests : <>(answer[q] # "none")

=============================================================================
