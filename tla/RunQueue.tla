------------------------------ MODULE RunQueue ------------------------------
(***************************************************************************)
(* Executions of agent-service: the runs table, the Postgres-backed job    *)
(* queue with its leases, the goroutines that execute runs, and the        *)
(* processes those goroutines live in.                                     *)
(*                                                                         *)
(* An asynchronous run is a row of runs ("queued") and a row of run_jobs,  *)
(* written in one transaction. A worker goroutine leases the job, reads    *)
(* the run, takes execution ownership with a compare-and-set, executes,    *)
(* writes the final status (and the callback to send) in one transaction   *)
(* and deletes the job. A synchronous or streamed run is executed by the   *)
(* goroutine of its HTTP request, has no job, and starts "running".        *)
(*                                                                         *)
(* One action per database call: between any two of them a lease may       *)
(* lapse, a process may stop or crash, and another goroutine may move.     *)
(* Spans, usage and log lines are written by these same transactions and   *)
(* are left out: no property tells them apart.                             *)
(***************************************************************************)
EXTENDS Naturals, Sequences

CONSTANTS
    Runs,        \* run identifiers
    Executors,   \* goroutines that execute runs
    Workers,     \* worker identities, one per process: <hostname>-<pid>
    WorkerOf,    \* the process each goroutine lives in
    None,        \* a null identifier
    MaxFaults    \* bound on crashes, shutdowns, pauses and failed calls

ASSUME RunQueueAssumption ==
    /\ WorkerOf \in [Executors -> Workers]
    /\ None \notin Runs \cup Workers
    /\ MaxFaults \in Nat

VARIABLES
    (* table runs *)
    status,           \* lifecycle status, "absent" before the row exists
    mode,             \* how the caller asked for the run
    wanted,           \* webhook_url is set (and an API key asked for it)
    cancelRequested,  \* cancel_requested_at is set
    errorCode,        \* error_code
    outbox,           \* the rows of webhook_deliveries for the run: their events
    (* table run_jobs *)
    lease,            \* "none" (no row), "free", "held" or "lapsed"
    lockedBy,         \* locked_by
    (* goroutines *)
    pc,               \* what the goroutine does next
    target,           \* the run it is working on
    verdict,          \* the outcome it is about to write
    ctx,              \* the cause its context was cancelled with
    misses,           \* consecutive failed heartbeats
    (* processes *)
    process,          \* "up", "stopping" or "down"
    (* history and bounds *)
    executions,       \* how often execution ownership was handed to a goroutine
    faults            \* how much of MaxFaults is used up

runTable   == <<status, mode, wanted, cancelRequested, errorCode, outbox>>
jobTable   == <<lease, lockedBy>>
goroutines == <<pc, target, verdict, ctx, misses>>
vars == <<runTable, jobTable, goroutines, process, executions, faults>>

Terminal == {"succeeded", "failed", "cancelled"}
Active   == {"queued", "running"}

Modes  == {"sync", "stream", "async"}
Causes == {"parent", "requested", "sink", "deadline", "dependency"}
Codes  == {"none", "interrupted", "run_cancelled", "run_timeout", "internal"}

\* The stages of ProcessJob before the final status is written: while a
\* goroutine is in one of them its heartbeat extends the lease.
Processing == {"claimed", "start", "prepare", "execute"}

\* The final status that Transition and finish choose for a failure code.
StatusFor(code) ==
    CASE code = "none"          -> "succeeded"
      [] code = "run_cancelled" -> "cancelled"
      [] OTHER                  -> "failed"

\* failureFromCause: the failure code of a cancelled context.
FailureFromCause(cause) ==
    CASE cause = "deadline"   -> "run_timeout"
      [] cause = "dependency" -> "internal"
      [] OTHER                -> "run_cancelled"

IsJob(e) == target[e] \in Runs /\ mode[target[e]] = "async"

\* The goroutine's process extends a lease by its worker identity alone: it
\* holds the job whenever the row names that identity and has not lapsed.
HoldsLease(e, r) == lease[r] = "held" /\ lockedBy[r] = WorkerOf[e]

\* Some goroutine of the identity that holds the lease is working on the run: it
\* renews the lease three times as often as needed while it processes the run, and
\* writing the outcome or deleting the job (5 s each) takes less than is left of it.
Attended(r) ==
    \E e \in Executors : target[e] = r /\ WorkerOf[e] = lockedBy[r]

Fault == faults < MaxFaults /\ faults' = faults + 1

Init ==
    /\ status = [r \in Runs |-> "absent"]
    /\ mode \in [Runs -> Modes]
    /\ wanted \in [Runs -> BOOLEAN]
    /\ \A r \in Runs : wanted[r] => mode[r] = "async"
    /\ cancelRequested = [r \in Runs |-> FALSE]
    /\ errorCode = [r \in Runs |-> "none"]
    /\ outbox = [r \in Runs |-> << >>]
    /\ lease = [r \in Runs |-> "none"]
    /\ lockedBy = [r \in Runs |-> None]
    /\ pc = [e \in Executors |-> "idle"]
    /\ target = [e \in Executors |-> None]
    /\ verdict = [e \in Executors |-> "none"]
    /\ ctx = [e \in Executors |-> "none"]
    /\ misses = [e \in Executors |-> 0]
    /\ process = [w \in Workers |-> "up"]
    /\ executions = [r \in Runs |-> 0]
    /\ faults = 0

-----------------------------------------------------------------------------
(* The statements of queries/runs.sql and queries/async.sql.               *)

\* INSERT INTO run_jobs: due at once and unlocked.
InsertJob(r) ==
    /\ lease' = [lease EXCEPT ![r] = "free"]
    /\ UNCHANGED lockedBy

\* Mutant: a lapsed lock is never taken over.
ClaimOnlyUnlockedJob(w, r) ==
    /\ lease[r] = "free"
    /\ lease' = [lease EXCEPT ![r] = "held"]
    /\ lockedBy' = [lockedBy EXCEPT ![r] = w]

\* ClaimRunJobs: a due job that is unlocked or whose lock has lapsed.
ClaimRunJob(w, r) ==
    /\ lease[r] \in {"free", "lapsed"}
    /\ lease' = [lease EXCEPT ![r] = "held"]
    /\ lockedBy' = [lockedBy EXCEPT ![r] = w]

\* CompleteRunJob: delete the row while it names this worker, lapsed or not.
CompleteRunJob(w, r) ==
    IF lockedBy[r] = w
      THEN /\ lease' = [lease EXCEPT ![r] = "none"]
           /\ lockedBy' = [lockedBy EXCEPT ![r] = None]
      ELSE UNCHANGED jobTable

\* Mutant: a running run may be started again.
CanStartActiveRun(r) == status[r] \in Active

\* StartQueuedRun: compare-and-set from queued to running.
CanStartQueuedRun(r) == status[r] = "queued"

\* Mutant: no condition on the status.
CanFinishAnyRun(r) == status[r] # "absent"

\* FinishRun, and in the same transaction the insert of the callback.
CanFinishRun(r) == status[r] \in Active

FinishRun(r, code) ==
    /\ status' = [status EXCEPT ![r] = StatusFor(code)]
    /\ errorCode' = [errorCode EXCEPT ![r] = code]
    /\ outbox' = IF wanted[r]
                   THEN [outbox EXCEPT ![r] = Append(@, StatusFor(code))]
                   ELSE outbox
    /\ UNCHANGED <<mode, wanted, cancelRequested>>

-----------------------------------------------------------------------------
(* Goroutine bookkeeping.                                                  *)

\* e is done with its run, whatever became of it.
Release(e) ==
    /\ pc' = [pc EXCEPT ![e] = "idle"]
    /\ target' = [target EXCEPT ![e] = None]
    /\ verdict' = [verdict EXCEPT ![e] = "none"]
    /\ ctx' = [ctx EXCEPT ![e] = "none"]
    /\ misses' = [misses EXCEPT ![e] = 0]

\* e takes up run r at the given stage.
TakeUp(e, r, stage) ==
    /\ pc' = [pc EXCEPT ![e] = stage]
    /\ target' = [target EXCEPT ![e] = r]
    /\ UNCHANGED <<verdict, ctx, misses>>

Goto(e, stage) ==
    /\ pc' = [pc EXCEPT ![e] = stage]
    /\ UNCHANGED <<target, verdict, ctx, misses>>

\* e is going to write the outcome; from here on its context is not consulted.
Conclude(e, code) ==
    /\ pc' = [pc EXCEPT ![e] = "finish"]
    /\ verdict' = [verdict EXCEPT ![e] = code]
    /\ ctx' = [ctx EXCEPT ![e] = "none"]
    /\ misses' = [misses EXCEPT ![e] = 0]
    /\ UNCHANGED target

\* The first cause wins, as in context.WithCancelCause.
CancelContext(e, cause) ==
    /\ ctx[e] = "none"
    /\ ctx' = [ctx EXCEPT ![e] = cause]
    /\ UNCHANGED <<pc, target, verdict, misses>>

-----------------------------------------------------------------------------
(* Callers.                                                                *)

\* EnqueueAsync: run and job in one transaction. A process that is up serves it.
EnqueueAsync(r) ==
    /\ status[r] = "absent"
    /\ mode[r] = "async"
    /\ status' = [status EXCEPT ![r] = "queued"]
    /\ InsertJob(r)
    /\ UNCHANGED <<mode, wanted, cancelRequested, errorCode, outbox>>
    /\ UNCHANGED <<goroutines, process, executions, faults>>

\* RunSync and RunStream: the request's own goroutine executes the run.
StartInline(e, r) ==
    /\ pc[e] = "idle"
    /\ process[WorkerOf[e]] = "up"
    /\ status[r] = "absent"
    /\ mode[r] # "async"
    /\ status' = [status EXCEPT ![r] = "running"]
    /\ executions' = [executions EXCEPT ![r] = @ + 1]
    /\ TakeUp(e, r, "execute")
    /\ UNCHANGED <<mode, wanted, cancelRequested, errorCode, outbox>>
    /\ UNCHANGED <<jobTable, process, faults>>

\* Mutant: an ended run is flagged too.
RequestAnyRunCancel(r) ==
    /\ status[r] # "absent"
    /\ ~cancelRequested[r]
    /\ cancelRequested' = [cancelRequested EXCEPT ![r] = TRUE]
    /\ UNCHANGED <<status, mode, wanted, errorCode, outbox>>
    /\ UNCHANGED <<jobTable, goroutines, process, executions, faults>>

\* CancelRun: an idempotent flag on a run that has not ended.
RequestRunCancel(r) ==
    /\ status[r] \in Active
    /\ ~cancelRequested[r]
    /\ cancelRequested' = [cancelRequested EXCEPT ![r] = TRUE]
    /\ UNCHANGED <<status, mode, wanted, errorCode, outbox>>
    /\ UNCHANGED <<jobTable, goroutines, process, executions, faults>>

-----------------------------------------------------------------------------
(* A worker goroutine: RunWorker.process and Service.ProcessJob.           *)

\* RunWorker.Run leases one job, unless its context is cancelled.
Claim(e, r) ==
    /\ pc[e] = "idle"
    /\ process[WorkerOf[e]] = "up"
    /\ ClaimRunJob(WorkerOf[e], r)
    /\ TakeUp(e, r, "claimed")
    /\ UNCHANGED <<runTable, process, executions, faults>>

\* Mutant: a running run is taken for someone else's business, its job removed.
InspectRunTrustsOwner(e) ==
    /\ pc[e] = "claimed"
    /\ ctx[e] = "none"
    /\ \/ status[target[e]] \in Terminal \cup {"running"} /\ Goto(e, "complete")
       \/ status[target[e]] = "queued" /\ Goto(e, "start")
    /\ UNCHANGED <<runTable, jobTable, process, executions, faults>>

\* Mutant: the cancellation flag of a queued run is not looked at.
InspectRunIgnoresCancel(e) ==
    /\ pc[e] = "claimed"
    /\ ctx[e] = "none"
    /\ \/ status[target[e]] \in Terminal /\ Goto(e, "complete")
       \/ status[target[e]] = "running" /\ Conclude(e, "interrupted")
       \/ status[target[e]] = "queued" /\ Goto(e, "start")
    /\ UNCHANGED <<runTable, jobTable, process, executions, faults>>

\* Mutant: a run cancelled in the queue is finished without a failure.
InspectRunForgetsFailure(e) ==
    /\ pc[e] = "claimed"
    /\ ctx[e] = "none"
    /\ \/ status[target[e]] \in Terminal /\ Goto(e, "complete")
       \/ status[target[e]] = "running" /\ Conclude(e, "interrupted")
       \/ /\ status[target[e]] = "queued"
          /\ IF cancelRequested[target[e]] THEN Conclude(e, "none") ELSE Goto(e, "start")
    /\ UNCHANGED <<runTable, jobTable, process, executions, faults>>

\* claimAsyncJob reads the run and decides what to do with it.
InspectRun(e) ==
    /\ pc[e] = "claimed"
    /\ ctx[e] = "none"
    /\ LET r == target[e] IN
       \/ /\ status[r] \in Terminal
          /\ Goto(e, "complete")
       \/ /\ status[r] = "running"
          /\ Conclude(e, "interrupted")
       \/ /\ status[r] = "queued"
          /\ cancelRequested[r]
          /\ Conclude(e, "run_cancelled")
       \/ /\ status[r] = "queued"
          /\ ~cancelRequested[r]
          /\ Goto(e, "start")
    /\ UNCHANGED <<runTable, jobTable, process, executions, faults>>

\* StartQueuedRun gives execution ownership to the first worker; the others
\* get ErrNotFound and leave the job as it is.
StartQueuedRun(e) ==
    /\ pc[e] = "start"
    /\ ctx[e] = "none"
    /\ LET r == target[e] IN
       \/ /\ CanStartQueuedRun(r)
          /\ status' = [status EXCEPT ![r] = "running"]
          /\ executions' = [executions EXCEPT ![r] = @ + 1]
          /\ Goto(e, "prepare")
       \/ /\ ~CanStartQueuedRun(r)
          /\ Release(e)
          /\ UNCHANGED <<status, executions>>
    /\ UNCHANGED <<mode, wanted, cancelRequested, errorCode, outbox>>
    /\ UNCHANGED <<jobTable, process, faults>>

\* The statement commits but its reply never arrives: ownership is lost.
StartReplyLost(e) ==
    /\ pc[e] = "start"
    /\ CanStartQueuedRun(target[e])
    /\ status' = [status EXCEPT ![target[e]] = "running"]
    /\ Release(e)
    /\ Fault
    /\ UNCHANGED <<mode, wanted, cancelRequested, errorCode, outbox>>
    /\ UNCHANGED <<jobTable, process, executions>>

\* A read or the compare-and-set fails because the context was cancelled: the
\* job stays in the queue.
AbandonJob(e) ==
    /\ pc[e] \in {"claimed", "start"}
    /\ ctx[e] # "none"
    /\ Release(e)
    /\ UNCHANGED <<runTable, jobTable, process, executions, faults>>

\* The same because the database failed.
ClaimFails(e) ==
    /\ pc[e] \in {"claimed", "start"}
    /\ Release(e)
    /\ Fault
    /\ UNCHANGED <<runTable, jobTable, process, executions>>

\* A dependency panics while the job is claimed: the run is read again, and a
\* running one is ended without being replayed.
ClaimPanics(e) ==
    /\ pc[e] \in {"claimed", "start"}
    /\ LET r == target[e] IN
       \/ /\ status[r] \in Terminal
          /\ Goto(e, "complete")
       \/ /\ status[r] = "running"
          /\ Conclude(e, "internal")
       \/ /\ status[r] = "queued"
          /\ Release(e)
    /\ Fault
    /\ UNCHANGED <<runTable, jobTable, process, executions>>

\* processStartedJob resolves the agent, its tools, prompt and provider. Any
\* failure, a cancelled context among them, ends the run without execution.
Prepare(e) ==
    /\ pc[e] = "prepare"
    /\ \/ ctx[e] = "none" /\ Goto(e, "execute")
       \/ Conclude(e, "internal")
    /\ UNCHANGED <<runTable, jobTable, process, executions, faults>>

\* watchCancellation sees the durable flag.
ObserveCancel(e) ==
    /\ pc[e] = "execute"
    /\ cancelRequested[target[e]]
    /\ CancelContext(e, "requested")
    /\ UNCHANGED <<runTable, jobTable, process, executions, faults>>

\* watchCancellation cannot read the flag.
WatcherFails(e) ==
    /\ pc[e] = "execute"
    /\ CancelContext(e, "dependency")
    /\ Fault
    /\ UNCHANGED <<runTable, jobTable, process, executions>>

\* The assistant's timeout passes.
TimeOut(e) ==
    /\ pc[e] = "execute"
    /\ CancelContext(e, "deadline")
    /\ UNCHANGED <<runTable, jobTable, process, executions, faults>>

\* The caller of a synchronous or streamed run goes away; a stream may also
\* notice it when an event cannot be written.
CallerLeaves(e) ==
    /\ pc[e] = "execute"
    /\ \/ ~IsJob(e) /\ CancelContext(e, "parent")
       \/ mode[target[e]] = "stream" /\ CancelContext(e, "sink")
    /\ UNCHANGED <<runTable, jobTable, process, executions, faults>>

\* executeStarted: the iterations return. A cancelled context turns success into
\* the failure of its cause; a failure of the iterations themselves stays.
EndExecution(e) ==
    /\ pc[e] = "execute"
    /\ \/ Conclude(e, IF ctx[e] = "none" THEN "none" ELSE FailureFromCause(ctx[e]))
       \/ Conclude(e, "internal")
    /\ UNCHANGED <<runTable, jobTable, process, executions, faults>>

\* finish: the final status and the callback in one transaction. Whoever finds
\* the run already ended gets ErrNotFound and leaves the job as it is.
Finish(e) ==
    /\ pc[e] = "finish"
    /\ \/ /\ CanFinishRun(target[e])
          /\ FinishRun(target[e], verdict[e])
          /\ IF IsJob(e) THEN TakeUp(e, target[e], "complete") ELSE Release(e)
       \/ /\ ~CanFinishRun(target[e])
          /\ Release(e)
          /\ UNCHANGED runTable
    /\ UNCHANGED <<jobTable, process, executions, faults>>

\* finish fails before it commits: loading the tool results, building the
\* callback or the transaction itself returned an error.
FinishFails(e) ==
    /\ pc[e] = "finish"
    /\ Release(e)
    /\ Fault
    /\ UNCHANGED <<runTable, jobTable, process, executions>>

\* The transaction commits but its reply never arrives.
FinishReplyLost(e) ==
    /\ pc[e] = "finish"
    /\ CanFinishRun(target[e])
    /\ FinishRun(target[e], verdict[e])
    /\ Release(e)
    /\ Fault
    /\ UNCHANGED <<jobTable, process, executions>>

\* RunWorker.process deletes the job once ProcessJob returned no error.
Complete(e) ==
    /\ pc[e] = "complete"
    /\ CompleteRunJob(WorkerOf[e], target[e])
    /\ Release(e)
    /\ UNCHANGED <<runTable, process, executions, faults>>

CompleteFails(e) ==
    /\ pc[e] = "complete"
    /\ Release(e)
    /\ Fault
    /\ UNCHANGED <<runTable, jobTable, process, executions>>

-----------------------------------------------------------------------------
(* Leases.                                                                 *)

\* RunWorker.extend: renewing a lease it holds forgets earlier misses.
ExtendLease(e) ==
    /\ pc[e] \in Processing
    /\ IsJob(e)
    /\ ctx[e] = "none"
    /\ HoldsLease(e, target[e])
    /\ misses[e] > 0
    /\ misses' = [misses EXCEPT ![e] = 0]
    /\ UNCHANGED <<pc, target, verdict, ctx>>
    /\ UNCHANGED <<runTable, jobTable, process, executions, faults>>

\* Mutant: misses are counted and the execution goes on.
MissHeartbeatUnnoticed(e) ==
    /\ pc[e] \in Processing
    /\ IsJob(e)
    /\ ctx[e] = "none"
    /\ misses[e] <= 1
    /\ IF HoldsLease(e, target[e]) THEN Fault ELSE UNCHANGED faults
    /\ misses' = [misses EXCEPT ![e] = @ + 1]
    /\ UNCHANGED <<pc, target, verdict, ctx>>
    /\ UNCHANGED <<runTable, jobTable, process, executions>>

\* Two failed renewals in a row cancel the execution. A renewal fails when the
\* lease lapsed or changed hands, and when the database fails.
MissHeartbeat(e) ==
    /\ pc[e] \in Processing
    /\ IsJob(e)
    /\ ctx[e] = "none"
    /\ IF HoldsLease(e, target[e]) THEN Fault ELSE UNCHANGED faults
    /\ \/ /\ misses[e] = 0
          /\ misses' = [misses EXCEPT ![e] = 1]
          /\ UNCHANGED <<pc, target, verdict, ctx>>
       \/ /\ misses[e] = 1
          /\ CancelContext(e, "parent")
    /\ UNCHANGED <<runTable, jobTable, process, executions>>

\* locked_until passes. Nobody renews an abandoned lease.
AbandonedLeaseLapses(r) ==
    /\ lease[r] = "held"
    /\ ~Attended(r)
    /\ lease' = [lease EXCEPT ![r] = "lapsed"]
    /\ UNCHANGED lockedBy
    /\ UNCHANGED <<runTable, goroutines, process, executions, faults>>

\* A lease also lapses under a goroutine that is paused, or cut off from the
\* database, for as long as the lease lasts.
LeaseLapsesUnderPause(r) ==
    /\ lease[r] = "held"
    /\ Attended(r)
    /\ lease' = [lease EXCEPT ![r] = "lapsed"]
    /\ UNCHANGED lockedBy
    /\ Fault
    /\ UNCHANGED <<runTable, goroutines, process, executions>>

-----------------------------------------------------------------------------
(* Processes.                                                              *)

\* The goroutines of w vanish; the database keeps what they committed.
Kill(w) ==
    LET dead == {e \in Executors : WorkerOf[e] = w} IN
    /\ pc' = [e \in Executors |-> IF e \in dead THEN "idle" ELSE pc[e]]
    /\ target' = [e \in Executors |-> IF e \in dead THEN None ELSE target[e]]
    /\ verdict' = [e \in Executors |-> IF e \in dead THEN "none" ELSE verdict[e]]
    /\ ctx' = [e \in Executors |-> IF e \in dead THEN "none" ELSE ctx[e]]
    /\ misses' = [e \in Executors |-> IF e \in dead THEN 0 ELSE misses[e]]
    /\ process' = [process EXCEPT ![w] = "down"]

\* SIGTERM: the context of the worker group, and so of every job, is cancelled.
\* Requests being served keep theirs.
Shutdown(w) ==
    /\ process[w] = "up"
    /\ process' = [process EXCEPT ![w] = "stopping"]
    /\ ctx' = [e \in Executors |->
                 IF /\ WorkerOf[e] = w
                    /\ pc[e] \in Processing
                    /\ IsJob(e)
                    /\ ctx[e] = "none"
                   THEN "parent"
                   ELSE ctx[e]]
    /\ Fault
    /\ UNCHANGED <<pc, target, verdict, misses>>
    /\ UNCHANGED <<runTable, jobTable, executions>>

\* main returns, once the workers have stopped or its patience (10 s for
\* requests, 30 s for workers) is over.
Exit(w) ==
    /\ process[w] = "stopping"
    /\ Kill(w)
    /\ UNCHANGED <<runTable, jobTable, executions, faults>>

Crash(w) ==
    /\ process[w] # "down"
    /\ Kill(w)
    /\ Fault
    /\ UNCHANGED <<runTable, jobTable, executions>>

\* The orchestrator starts the process again; the restarted process may have the
\* worker identity of the old one (same host name, same pid).
Restart(w) ==
    /\ process[w] = "down"
    /\ process' = [process EXCEPT ![w] = "up"]
    /\ UNCHANGED <<runTable, jobTable, goroutines, executions, faults>>

-----------------------------------------------------------------------------

\* What a goroutine does next when it is left to run.
Advance(e) ==
    \/ InspectRun(e) \/ StartQueuedRun(e) \/ AbandonJob(e) \/ Prepare(e)
    \/ EndExecution(e) \/ Finish(e) \/ Complete(e)

\* What happens to a goroutine.
Disturb(e) ==
    \/ StartReplyLost(e) \/ ClaimFails(e) \/ ClaimPanics(e)
    \/ WatcherFails(e) \/ TimeOut(e) \/ CallerLeaves(e)
    \/ FinishFails(e) \/ FinishReplyLost(e) \/ CompleteFails(e)
    \/ ExtendLease(e) \/ MissHeartbeat(e)

Next ==
    \/ \E r \in Runs :
          \/ EnqueueAsync(r) \/ RequestRunCancel(r)
          \/ AbandonedLeaseLapses(r) \/ LeaseLapsesUnderPause(r)
    \/ \E e \in Executors :
          \/ Advance(e) \/ ObserveCancel(e) \/ Disturb(e)
          \/ \E r \in Runs : StartInline(e, r) \/ Claim(e, r)
    \/ \E w \in Workers : Shutdown(w) \/ Exit(w) \/ Crash(w) \/ Restart(w)

Spec == Init /\ [][Next]_vars

(***************************************************************************)
(* Fairness. Worker goroutines poll the queue and a started execution ends *)
(* (the assistant's timeout bounds it); the watcher polls the cancellation *)
(* flag; an unattended lease lapses with time; a stopping process exits    *)
(* and a dead one is restarted. Nothing is assumed of callers, failures,   *)
(* pauses and crashes.                                                     *)
(***************************************************************************)
Fairness ==
    /\ \A e \in Executors :
          /\ WF_vars(Advance(e))
          /\ WF_vars(ObserveCancel(e))
          /\ WF_vars(\E r \in Runs : Claim(e, r))
    /\ \A r \in Runs : WF_vars(AbandonedLeaseLapses(r))
    /\ \A w \in Workers : WF_vars(Exit(w)) /\ WF_vars(Restart(w))

FairSpec == Spec /\ Fairness

-----------------------------------------------------------------------------
(* Properties.                                                             *)

RunsTypeOK ==
    /\ status \in [Runs -> {"absent"} \cup Active \cup Terminal]
    /\ mode \in [Runs -> Modes]
    /\ wanted \in [Runs -> BOOLEAN]
    /\ cancelRequested \in [Runs -> BOOLEAN]
    /\ errorCode \in [Runs -> Codes]
    /\ outbox \in [Runs -> Seq(Terminal)]

JobsTypeOK ==
    /\ lease \in [Runs -> {"none", "free", "held", "lapsed"}]
    /\ lockedBy \in [Runs -> Workers \cup {None}]

GoroutinesTypeOK ==
    /\ pc \in [Executors -> {"idle", "finish", "complete"} \cup Processing]
    /\ target \in [Executors -> Runs \cup {None}]
    /\ verdict \in [Executors -> Codes]
    /\ ctx \in [Executors -> Causes \cup {"none"}]
    /\ misses \in [Executors -> 0..1]

\* Every variable holds a value of its kind; two missed heartbeats are never
\* counted, because the second one cancels the execution.
TypeOK ==
    /\ RunsTypeOK
    /\ JobsTypeOK
    /\ GoroutinesTypeOK
    /\ process \in [Workers -> {"up", "stopping", "down"}]
    /\ executions \in [Runs -> Nat]
    /\ faults \in 0..MaxFaults

\* ProcessJob "executes a leased asynchronous run at most once", however many
\* goroutines come to hold its job: stale leases, restarts and lost replies
\* never hand the same run, with its external side effects, to a second one.
ExecutedAtMostOnce == \A r \in Runs : executions[r] <= 1

\* EnqueueAsync and the queue lose nothing: as long as an accepted asynchronous
\* run has not ended there is a job row from which some worker can pick it up,
\* whoever completes, abandons or fails in whatever order.
NoLostRun ==
    \A r \in Runs :
        mode[r] = "async" /\ status[r] \in Active => lease[r] # "none"

\* finish writes the final status and the callback together: exactly one callback
\* exists for a run that ended and asked for one, it names the status the run
\* ended in, and there is none before. Losers of the race to finish add nothing.
OneCallbackPerEnd ==
    \A r \in Runs :
        outbox[r] = IF wanted[r] /\ status[r] \in Terminal
                      THEN <<status[r]>>
                      ELSE << >>

\* Run.Terminal: "no worker may change the run lifecycle again". A late executor,
\* a late interruption or a late cancellation leaves every column of an ended run.
EndedRunsStay ==
    [][\A r \in Runs :
          status[r] \in Terminal =>
             /\ status'[r] = status[r]
             /\ errorCode'[r] = errorCode[r]
             /\ cancelRequested'[r] = cancelRequested[r]
             /\ outbox'[r] = outbox[r]]_vars

\* claimAsyncJob honours a cancellation of a queued run: once the flag is set and
\* no goroutine is already past reading it, the run is never executed.
CancelledBeforePickup(r) ==
    /\ status[r] = "queued"
    /\ cancelRequested[r]
    /\ \A e \in Executors : ~(pc[e] = "start" /\ target[e] = r)

CancelledInQueueNeverExecutes ==
    \A r \in Runs : [](CancelledBeforePickup(r) => [](executions[r] = 0))

\* The queue and its leases drain: whatever crashes, every accepted asynchronous
\* run ends and its job is removed.
AcceptedRunsEnd ==
    \A r \in Runs :
        status[r] = "queued" ~> (status[r] \in Terminal /\ lease[r] = "none")

Lifecycle == INSTANCE RunLifecycle WITH begun <- executions

\* Queue, leases, crashes and races implement the lifecycle callers rely on.
ImplementsLifecycle == Lifecycle!Spec

-----------------------------------------------------------------------------
(* The inductive invariant behind ExecutedAtMostOnce, NoLostRun and         *)
(* OneCallbackPerEnd.                                                      *)

\* What a goroutine's stage says about the run it works on.
StageOK(e) ==
    /\ pc[e] # "idle" => target[e] \in Runs /\ status[target[e]] # "absent"
    /\ pc[e] \in {"claimed", "start", "prepare", "complete"} =>
          mode[target[e]] = "async"
    /\ pc[e] \in {"prepare", "execute"} => executions[target[e]] = 1
    /\ pc[e] = "finish" /\ verdict[e] = "none" => executions[target[e]] = 1
    /\ pc[e] = "complete" => status[target[e]] \in Terminal

\* Ownership is handed out by leaving "queued" (or "absent"), which happens once.
OwnershipOK(r) ==
    /\ executions[r] <= 1
    /\ status[r] \in {"absent", "queued"} => executions[r] = 0

\* Jobs belong to accepted asynchronous runs, and no such run is without one
\* before it ends.
JobRowOK(r) ==
    /\ lease[r] # "none" => mode[r] = "async" /\ status[r] # "absent"
    /\ mode[r] = "async" /\ status[r] \in Active => lease[r] # "none"

CallbackOK(r) ==
    outbox[r] = IF wanted[r] /\ status[r] \in Terminal THEN <<status[r]>> ELSE << >>

IInv ==
    /\ TypeOK
    /\ \A e \in Executors : StageOK(e)
    /\ \A r \in Runs : OwnershipOK(r) /\ JobRowOK(r) /\ CallbackOK(r)

-----------------------------------------------------------------------------
(* Statements of the documentation that the code does not keep.            *)

\* api/openapi.yaml:1680 and run.go:36: an asynchronous run that loses its lease
\* after it started ends failed/interrupted, and "cancelled" is for runs that
\* somebody asked to cancel.
AsyncCancelledOnRequest ==
    \A r \in Runs :
        mode[r] = "async" /\ status[r] = "cancelled" => cancelRequested[r]

\* run_query_service.go:28: the engine observes a cancellation request.
CancelIsObserved ==
    \A r \in Runs : cancelRequested[r] ~> status[r] \in Terminal
=============================================================================
