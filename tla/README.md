# Verification of the agent platform

TLA+ specifications of `services/agent-service` (Go), the TLC configurations that
check them on small instances, and TLAPS proofs about the core. Paths are relative to
the root of the repository; `core` stands for
`services/agent-service/internal/core`, `postgres` for
`services/agent-service/internal/adapters/outbound/postgres`, `worker` for
`services/agent-service/internal/adapters/inbound/worker`.

## 1. The system

The service answers requests of people and API keys for executions ("runs") of
assistants, executes them in goroutines of one or several identical processes, and
keeps everything it must not forget in one Postgres database. Processes talk to each
other only through its rows.

| Component | State it keeps | Operations | Correct when |
|---|---|---|---|
| Run queue and executors (`core/services/runs/async_run_processor.go`, `run_engine*.go`, `worker/run_worker.go`) | `runs`, `run_jobs`; per goroutine: the job in hand, its context, missed heartbeats | enqueue, claim, take ownership, execute, heartbeat, cancel, finish, complete | a run is executed at most once, is never lost, ends once, gets one callback |
| Process lifecycle (`cmd/agent-service`) | whether it accepts, drains or is gone; worker identity `<host>-<pid>` | start, SIGTERM, drain, crash | none of the above depends on how a process ends |
| Webhook delivery (`core/services/delivery`, `worker/webhook_worker.go`) | `webhook_deliveries`; per dispatcher: a claimed batch | claim, check key, sign and send, record, explicit retry | what was delivered stays so, nothing is given up early or stays pending, attempts are bounded |
| Run start, sessions, idempotency (`core/services/runs/run_starter.go`, `session_query_service.go`, `postgres/idempotency_store.go`) | `sessions`, `runs`, `idempotency_keys`; locks of open transactions | start, delete session, expire, clean up | one run per key, one active run per session, no run in a deleted session, all or nothing |
| Identity (`core/services/identity`) | `users`, `refresh_tokens`, `api_keys`; login windows in memory | sign up, log in, refresh, log out, change password, members, keys | a reused refresh token kills its family, a disabled user has no session, an owner remains |
| Agent loop (`core/services/runs/run_engine_iteration.go`, `run_engine_policy.go`, `core/domain/loop_detector.go`) | iteration, history, tool budget, retry counters, fingerprints | request, inspect the answer, call tools, force a final answer | bounds are kept, every tool call has its result in the history |
| Context memory (`core/services/runs/context_memory.go`, `history_builder.go`) | `messages`, `session_context_snapshots` | page, compact, compare-and-set a snapshot | snapshots only advance, tool results stay with their call, the current run's messages stay |
| Tooling (`core/services/tooling`) | `mcp_servers`, `http_tools`, `api_connections`, bindings | CRUD, catalogue refresh, import, resolve | a refresh never overwrites newer settings, an import is atomic |
| Catalog, skills, reports | their tables | CRUD, parsing, read-only SQL | constraints of the schema |
| HTTP adapter, LLM / MCP / HTTP tool clients, security, network guard | nothing shared | translation, cryptography, filtering | - |
| Admin web application | view state | API client | - |

How they interact. *Start* writes the run, the user's message and, for an asynchronous
run, the job in one transaction; a synchronous or streamed run is executed by the
goroutine of its request. *Finish* writes the final status and the callback row in one
transaction; the *dispatchers* take it from there. Cancellation is a flag on the run
that the executor polls. Deleting a session and starting a run in it meet at the lock
on the session row. Context memory and the loop work inside one execution, on messages
that other executions of the session have written.

What is hard: several goroutines on one row after a lease lapsed; crashes between any two
database calls; statements that commit and whose reply is lost; graceful stops; a
batch that takes longer than its lease; transactions at READ COMMITTED that look first
and write later. The list with lines is `hazards` in `PROJECT.json`; a hazard that no
property covers has a note that says why.

## 2. Plan

| # | Module | Models | Proofs |
|---|---|---|---|
| 1 | `RunLifecycle`, `RunQueue` | promise of a run; queue, leases, executors, processes | `RunQueueProofs` |
| 2 | `WebhookDelivery` | outbox and dispatchers | `WebhookDeliveryProofs` |
| 3 | `RunStart`, `AtomicStart` | the transaction of start, sessions, idempotency; what callers are promised, one step per request | `RunStartProofs` |
| 4 | `Identity`, `Accounts` | refresh families, login and password change, last owner, sign-up; users and sessions, one step per request, whoever asks | `IdentityProofs` |
| 5 | `AgentLoop` | iterations, policy, tool budget, loop detector | `AgentLoopProofs` |
| 6 | `ContextMemory` | messages of a session, several executors (some already replaced), snapshots, pages | `ContextMemoryProofs` |
| 7 | `Tooling` | connections, tools, servers, bindings, catalogue refresh, import | `ToolingProofs`, `ToolingTablesProofs` |

All seven are done: modelled, checked and proved. Each `MC` module and its `.cfg` files
instantiate the module of that name for TLC.

Composition: `RunQueue` refines `RunLifecycle` (`INSTANCE RunLifecycle WITH begun <-
executions`), `RunStart` refines `AtomicStart` (variables of the same name), `Identity`
refines `Accounts` (a session is a family of tokens, `SessionOf`). `RunQueue!FinishRun` is what creates a row in `WebhookDelivery`;
`RunStart!Commit` is what creates a run in `RunQueue`, and `RunStart!EndRun` stands for any
end `RunQueue` allows. `AgentLoop` is what happens in `RunQueue` between the start of an
execution and `EndExecution`; `ContextMemory` is what happens in `AgentLoop` when a request
is built, and takes from `RunQueue` that a run may be ended behind its executor
(`ReplaceRun`) and from `RunStart` that a session has one active run.

What would add most next: catalog's test of a provider, which follows the protocol of
`Tooling`'s refresh; the life of an API key; a composition of `RunStart` and `RunQueue` in
which the executor, and not `EndRun`, ends the run.

## 3. The modules and the code

### RunLifecycle (abstract)

Four variables: the status of a run, whether a callback is wanted, how often execution
ownership was handed out, the callbacks. `Accept`, `Begin`, `End`: accepted once, given
to at most one executor, ended once, with one callback naming the end.

### RunQueue

One action per database call, in the order of the code. Rows of `runs` are
`status`, `mode`, `wanted` (webhook_url), `cancelRequested`, `errorCode`, `outbox`; a
row of `run_jobs` is `lease` (absent, unlocked, locked, lock lapsed) and `lockedBy`. A
goroutine has a stage `pc`, its run, the outcome it is about to write, the cause its
context was cancelled with (the first wins), and missed heartbeats.

* callers: `EnqueueAsync`, `StartInline` (RunSync and RunStream), `RequestRunCancel`;
* a worker: `Claim`, then `InspectRun` (claimAsyncJob reads the run), `StartQueuedRun`
  (compare-and-set), `Prepare`, execution, `Finish`, `Complete`;
* execution: `ObserveCancel`, `WatcherFails`, `TimeOut`, `CallerLeaves`, `EndExecution`;
* what goes wrong: `StartReplyLost`, `FinishReplyLost`, `FinishFails`, `ClaimFails`,
  `ClaimPanics`, `CompleteFails`, `MissHeartbeat`, lapsing leases, `Kill`, `Shutdown`,
  `Exit`, `Crash`, `Restart`.

Leases are extended by worker identity, as in the code, not by goroutine: two
goroutines of a process share it. A lease lapses when nobody of that identity works on the
run (`AbandonedLeaseLapses`), or at any time as a fault (`LeaseLapsesUnderPause`).
`errorCode` keeps the codes the properties tell apart; `internal` stands for every
code that ends a run `failed`.

### WebhookDelivery

A row is `status`, `attempts`, `due`, `lock`; a dispatcher is its `batch` (the rows as
they were when claimed, hence the attempt count it compares later), the `stage` of the
first of them, and the `reply`. `Settle` and `Postpone` are the statements that record an
outcome: they test `status = 'pending'` and not who holds the row. When one finds no
row, or the database refuses the status code, `DropBatch`: `DispatchDue` returns at the
first error. The explicit retry is one action although the code reads the status and
the key before the update: only the update's own test of the status and the key's
revocation between the two reads can differ, and a revocation right after the retry
has the same effect. A lock may lapse whatever its holder does, because a batch of 20
sends of up to 10 s is longer than the 30 s lease.

### RunStart

A request is one transaction, one action per statement; a row or key that another
transaction holds makes a statement wait (the action is not enabled). Writes appear at
the commit. A run and the session it creates are named after the request. `Reserve`,
`FindById`/`FindByName`/`FindNothing`, `CreateSession` (ON CONFLICT DO NOTHING), `RereadSession`,
`CheckActive`, `Accept`; `FailTransaction` rolls back from any statement,
`CommitReplyLost` commits and answers an error. `DeleteSession` is two actions, the lock
and the decision. All requests are of one caller, so a session's owner is never
another; of `validateContinuationOwner` the test of the assistant remains.
What each request asks for (`asked`) is chosen in `Init` among the given forms.

`AtomicStart` has the tables and the answers only, no stages and no locks: `Accept`,
`Replay`, `RefuseUnknown`, `RefuseBusy` and `Fail` serve a request at one instant, and say in
terms of the tables at that instant when each may happen. `Accept` creates the run,
its session and its reservation together. `ImplementsAtomicStart` says that the
transaction does the same. `WaitsFor(q, h)` is what the statements wait for, the holder of
a key, of a session's name or of its row; `WaitsAreOrdered` that `h` is further on
than `q`, so nobody waits in a circle.

### Identity

A request is a record of what it has read so far: the operation, the user, the token,
the caller's role, the change asked for, the version of the password it verified. It
arrives (`Arrive`: what the code reads and checks before the transaction, hence
without a lock), takes the identity lock (`pg_advisory_xact_lock`), the row of its user or
both, reads again under them (`Wait`), and commits, refuses or fails. Register, Login,
Refresh, Logout, ChangePassword, CreateMember and UpdateMember take different locks, in
the order of their code. A spent refresh token makes a commit (`CommitRevokeFamily`)
although the request is refused. Anyone may present any token ever issued. Passwords are
versions; `proved` of a token, which is no column, is the version whose knowledge
the session rests on. Names, tenants, the expiry of tokens and the login limiter are left
out.

`Accounts` knows users and sessions, no tokens, locks or requests in progress: `SignUp`,
`LogIn`, `EndSession`, `ChangePassword`, `CreateMember`, `UpdateMember`. A session is open
or closed and rests on a password. Nothing opens a session but a login with the password the
user has at that moment, and nothing opens one again. A refresh is no step of it at all.
It does not see who asks or whether he may, so `ImplementsAccounts` says nothing about
authorisation. Of the caller the code knows the role it read when the request arrived
(`principal`, `member_service.go:85`) and never reads it again: a manager who is demoted or
disabled while his request waits for the locks still gets his way, and `Identity` has these
behaviours. What is judged again is the person to be changed (`ChangeAllowed`,
`domain.CanUpdateMember` under the locks): `AdminsChangeOnlyMembers` says that a request
that came from an administrator changes only who is a member at the commit, whatever
owners have made of that person since it was chosen.

### AgentLoop

One executor, sequential but for `Cancel`: `BeginIteration` (announcements, forced final
request), `OnAnswer` (`iterate`, the retries of `run_engine_policy.go`, the budget),
`ExecuteTool` and `DetectLoop` (one call of the answer and the loop detector), `Succeed`,
`EndCancelled`, `FailStep`. An answer is reduced to what is told apart: its calls, whether
they are malformed or can be repaired, whether there is text. The detector has two
counters per result, as in `loop_detector.go`: `seen` for a call with its arguments and
`results` for the tool whatever the arguments. Its warnings are texts that the detector
schedules (`scheduled`, `nextContext`) and the next request sends (`warned`), of whatever kind
that request is. `warned` and `wasted` are history. `AskedInformed` says that no request
is made in ignorance of a warning that was due; that a stop is always announced it does not
say, because calls of one answer may go from the warning to the stop (section 4).
`StepsLeft` is made from the iterations, calls and retries left; `EveryStepCounts` says that
every step lowers it.

### ContextMemory

A message is its place in `transcript`, with the run it belongs to, its role and number
of calls. A context snapshot is what it covers and what its summary was made from.
What an executor holds is `kept`, the messages of its units, and `heads`, the first of each
unit; a unit ends where the next one begins (`SameUnit`, `Ends`). `ReadPage` cuts a page as
`safeMessagePageCut` does and groups it as `buildContextUnits` does; `Summarise` chooses
the segment (half of what may be compacted, halved again by each failed attempt),
`WriteSnapshot` and `LoseSnapshot` are the compare-and-set, `AdoptSnapshot` and
`GiveUpSnapshot` what follows a lost one. Whether a request is over its budget, and hence whether
anything is compacted, is a free choice. `replayed` are the messages of the units that are
sent: a unit may hold a message and repeat none of it, namely an orphaned result, one that
follows calls of another run, or calls whose identifier was used before, with their results
(`Replayed`, `Unsafe`, for `buildContextUnits` and `historyToolCallIDs`). `Unreplayable` says
so from the transcript alone, and `ContextIsWhole` that these are all the model is not told:
every other message that was read is in the summary, by one whose summary was made from it,
or among those sent, and none is both. `PrunedResults` are the results a request over its
budget keeps in full (`pruneOldToolResults`); the older ones are sent as a placeholder, and
`LatestResultsInFull` says that those of the run's last calls are not among them. `Init`
chooses what the session held before: complete exchanges, one cut short by a failure, a
result orphaned by a replaced executor, two exchanges under one identifier. `ReplaceRun` ends the active run behind its
executor, which goes on reading, compacting and appending beside the next one.

`late` marks a snapshot that covers a message of its writer's own run which the writer
had never read. It exists because of a case the code leaves open, told in section 4;
the properties claim nothing once there is one.

### Tooling

Every change runs in `mutate`, one transaction under one advisory lock, so each is one
step. What is not under the lock is two steps: `BeginCreateTool`/`CreateTool` (the
connection is validated before), `BeginRefresh`/`RecordSync` (a call of up to 15 s
in between), `PreviewToolImport`/`ImportTools` (an administrator decides in between). A
refresh that fails is recorded too, and what it writes depends on where it failed
(`SyncResults`): the catalogue read before the call when `Connect` failed, none when
`ListTools` did, the fresh one, reported as failing, when `Close` did. Foreign
keys, `ON DELETE CASCADE` and unique slugs are guards and effects of the steps. The import
plans as `planImport` does (`Status`, `Usable`, `Problem`, `Accepted`), again under the lock
with the decisions made on the preview, and writes connections before tools. `by` says
whether a row's contents came from the file. An error of the database inside `mutate` rolls
the whole change back and is left out; `ImportsAsDecided` is about the refusals the code
itself decides on.

## 4. The runs

| Run | Instance | Shows |
|---|---|---|
| `queue_safety` | 1 run of any mode, 3 goroutines, 2 processes, 2 faults | `TypeOK`, `ExecutedAtMostOnce`, `NoLostRun`, `OneCallbackPerEnd`, `EndedRunsStay`, `ImplementsLifecycle` |
| `queue_liveness` | 2 asynchronous runs, 2 goroutines in 2 processes, 1 fault, fair | `AcceptedRunsEnd`, `CancelledInQueueNeverExecutes` |
| `queue_interrupted` | 1 run, 2 goroutines, 3 faults | `AsyncCancelledOnRequest` is violated |
| `queue_cancel` | 1 run, 2 goroutines, 1 fault, fair | `CancelIsObserved` is violated |
| `webhook_safety` | 2 callbacks, 2 dispatchers, batch 2, 2 attempts, 1 retry, 1 fault | `TypeOK`, `GivenUpForAReason`, `DeliveredIsFinal` |
| `webhook_liveness` | the same without retry, receivers that never accept, fair | `CallbacksSettle` |
| `webhook_cap` | 1 dispatcher's view of an unrecordable answer | `AttemptsCapped` is violated |
| `start` | 4 requests in two forms, 1 key, 2 bodies, 1 session_key, 2 assistants, a stored session, 1 fault, fair | `TypeOK`, `OneActiveRunPerSession`, `DeletedSessionsAreIdle`, `WaitsAreOrdered`, `ImplementsAtomicStart`, `OneRunPerKey`, `EveryRequestAnswered` |
| `identity` | 2 people, 3 tokens, 2 requests at a time, 2 passwords | `FamiliesAreChains`, `DisabledUsersHaveNoSession`, `SessionsKnowThePassword`, `AnOwnerRemains`, `ImplementsAccounts`, `AdminsChangeOnlyMembers` |
| `loop` | limits of 1, 4 and 11 iterations, 7 calls, 2 in an answer, 2 retries of each kind, thresholds 3, 4, 6 | `TypeOK`, `LimitsHold`, `NoToolsOnceForced`, `LastIterationDecides`, `WastedIsBounded`, `AskedInformed`, `EveryStepCounts` |
| `memory` | 2 runs after a past of 3 to 5 messages, 8 messages, pages of 3, 2 calls in an answer, 1 kept answer's results, 2 summary calls | `TypeOK`, `ContextIsWhole`, `OwnQuestionKept`, `ExchangesStayWhole`, `LatestResultsInFull` |
| `tooling` | 2 administrators, 2 connections, 2 tools, 1 server, 2 endpoints, 3 files, 4 writes | `TypeOK`, `CatalogueMatchesSettings`, `ImportsAsDecided` |

Bounds and why they are enough. `MaxFaults` bounds crashes, stops, pauses, failed calls
and lost replies. One run is enough for the safety of the queue: no statement of
`RunQueue` reads two runs, and each run has its own session. Two goroutines of one
process and one of another cover both a shared and a foreign identity; two faults let
a lease lapse under an owner whose rival then fails. The liveness run has two runs, so that
workers may be busy with the other one. In `WebhookDelivery` two rows make a batch that can be
dropped half way, two dispatchers make a lapsed lease matter, `MaxAttempts = 2`
separates a first from a last attempt (the code has 8), `MaxClaims` bounds the claims of a
row: in `webhook_liveness` it is set to 8, which no behaviour of that run reaches, so
it hides nothing there. An answer outside 100..599 does to a row and a
batch what a failed call does, so `webhook_safety` leaves it to `webhook_cap`.
`webhook_liveness` leaves accepting and 410 receivers out,
since both settle a row at once, and the answers outside 100..599, with which a row
indeed stays pending for ever (`webhook_cap`).

In `RunStart` three requests for one session let one hold a lock, one wait and one come
later. The form `Retries` has a request, its retry with the same key, a third for the
same session_key and a fourth that reuses the key with another body; `Strangers` has one
session_key for two assistants, a request without a session and one for a session that
does not exist. In `Identity` two requests interleave statement by statement, and no
property relates three; three tokens are a chain of two and another
family; a password is changed once. In `AgentLoop` the limit 11 lets the budget, both
kinds of retry and the stop of the detector be reached in one run, 4 makes them
collide with the last iteration, 1 has a first iteration that is the last; the
thresholds keep their order but are smaller than the code's. In `ContextMemory` pages
of 3 are shorter than a question with an exchange of two calls, so the cut matters; the
second run is the one beside which a replaced executor of the first goes on. Eight
messages leave a run, after the longest past, room for its question and an exchange; the
four pasts (`Answered`, `Interrupted`, `Orphaned`, `Clashing`) put what cannot be replayed
at the border of a page and of a snapshot, which two new runs alone would need more
messages to reach; `KeptResults` is 1 (the code keeps more), so that the
two results of the last answer share the one place and those of any earlier answer lose it.
`PageSize > MaxCalls` is assumed; a page that is all results would fail the run
(`internalFailure`), as `Stop` may. In `Tooling` `MaxWrites` bounds the
changes between two steps of a request; four are needed to create, rename, replace and
delete what it refers to. Symmetry is used in runs that check safety only.

`CHECK_DEADLOCK FALSE` everywhere: each system may stop when all requests are served
(and, in the models, when a bound is used up).

Fairness. `RunQueue`: a goroutine in a process takes its next step, a poller claims
when it always could, the watcher polls, unattended leases lapse, a stopping process
exits and a stopped one is started again (the deployment restarts it). Callers,
timeouts and faults have none. `WebhookDelivery`: dispatchers poll, sends have a
timeout, clocks advance. `RunStart`: Postgres queues the waiters of a lock and grants it
in turn, hence strong fairness of a request's next statement; a deletion finishes.
Without strong fairness a deletion that is repeated for ever could keep the row.
`Identity`, `AgentLoop`, `ContextMemory` and `Tooling` state safety only and assume none.

Four properties of the modules are in no run: `ReservationsNameRuns`, `OneSessionPerName`,
`AllOrNothing` (module `RunStart`) and `DeadFamiliesStayDead` (`Identity`). Each is a
consequence of the refinement checked in its place (in `AtomicStart` and `Accounts` they can
be read off the actions) and each is a theorem of its own. Two more are theorems only:
`TypeOK` of `Identity` (`TypeCorrect`), whose run is the longest as it is, and
`DeliveredIsAccepted` of `WebhookDelivery` (`Accepted`), which one step decides.

### What disagrees with the documentation

Shown by a run:

* `AsyncCancelledOnRequest`: an asynchronous run ends `cancelled` when its process is
  stopped gracefully or two heartbeats fail, without anybody's request.
* `CancelIsObserved`: a synchronous or streamed run whose process crashed stays `running`
  for ever and blocks its session; its cancellation is recorded and never observed.
* `AttemptsCapped`: a status outside 100..599 cannot be recorded, so the callback is sent
  again every 30 s without limit, and each time the rest of its batch loses an attempt.

Visible in the models, without a run of its own:

* A run may be stopped for a loop without a warning. `run_engine_test.go:206` asks that the
  "loop warning was not sent before termination" never happens, and its answers have one
  call each. The warning is scheduled (`run_engine_iteration.go:173`) and sent with the next
  request (`run_engine_policy.go:51`), while the calls of one answer are counted one by one:
  the second of three schedules it, the third ends the run (`Observe` and `DetectLoop` of
  `AgentLoop`).
* An explicit retry is accepted while a dispatcher whose lease has lapsed is still sending
  the callback (`webhook_delivery_service.go:83`), which `api/openapi.yaml:2201-2202`
  says is refused.
* session_key is unique per API key (`migrations/00003_runs.sql:19-20`,
  `run_starter.go:110`), not per assistant and API key as `api/openapi.yaml:4144-4145`
  says; the form `Strangers` of `start` has such a request refused.
* A snapshot need not be "a complete transcript prefix" (`core/domain/context_snapshot.go:9`).
  An executor that is replaced before it reads anything may find its own question
  summarised by the executor of the next run. It then has nothing to protect, appends
  beside the other, and may write a snapshot that covers messages of the other run it
  never read. In `ContextMemory` this is a `LateWriter`.
* A passing error of `GetAPIKey` fails a callback for good (`CheckKey`), and after an
  explicit retry an older dispatcher may still give the row up (the exception in
  `GivenUpForAReason`). No document claims otherwise.
* Recording a refresh of an MCP server does not move its revision: of two refreshes of one
  revision the last to answer wins. If it failed it may put back the older catalogue
  (`Connect`), empty it (`ListTools` leaves `nil`) or leave the fresh one as failing (`Close`;
  `mcp_server_service.go:141-157`). A catalogue that is not empty still belongs to the
  settings (`CatalogueMatchesSettings`).
* A manager who is demoted or disabled while his request waits for the identity lock still
  gets his way (section 3, `Identity`).

## 5. The proofs

The proofs hold for every value of the constants, from the named assumption of each
module alone. In each module the properties are not inductive as they stand; the
theorem rests on an invariant `IInv` that adds what a process knows between two of its
steps.

**`RunQueueProofs`**: `TypeCorrect`, `AtMostOnce`, `NothingLost`, `OneCallback`,
`EndedIsFinal`, `LifecycleImplemented` and `CancelledInQueueStaysOut`. `IInv` of module `RunQueue` has three parts:

* `TypeOK`;
* `OwnershipOK`, `JobRowOK` and `CallbackOK` (together `RowsOK`), about the rows alone:
  ownership is handed out at most once and not before the run left the queue; a job
  exists only for an accepted asynchronous run, and always for one that has not ended;
  the callbacks are exactly what the status calls for;
* `StageOK`, about goroutines: a busy one has an accepted run in hand; the stages of a
  job are for asynchronous runs only; one that executes, or is about to write a
  success, works on a run that was handed out; one about to complete its job has
  a run that ended.

The argument: every write to a lifecycle column is guarded by the status it
expects, so a goroutine with an old view either finds that status or leaves the row; a
job is deleted only from the stage `complete`, which a goroutine reaches only after
the run ended, and an ended run never leaves its end. `NextRowsOK` and `NextStagesOK` go
through the actions one by one; steps that touch neither rows nor stages are handled
by lemmas (`QuietSteps`, `BookkeepingTypeOK`, `BystanderKeepsStage`). The refinement
(`NextImplementsLifecycle`) maps every action to `Accept`, `Begin`, `End` or a stutter.

`CancelledInQueueStaysOut` says what never happens from some moment on: a run that
was never handed out and whose cancellation is recorded, or that has ended unexecuted, is
`Barred`, no step lifts that (`BarredIsStable`), and whoever starts a run of the queue
finds it not barred (`NoNewStarter`).

**`WebhookDeliveryProofs`**: `TypeCorrect`, `Accepted`, `GivenUp`, `DeliveredStays`.
`InHandOK`: what a dispatcher is about to record has a reason, and, until an explicit
retry, the attempts it counted at its claim are never ahead of the table's.

**`RunStartProofs`**: `Invariant`, `TypeCorrect`, `OneActiveRun`, `DeletedAreIdle`,
`ReservationsAreReal`, `NamesAreUnique`, `NothingByHalves`, `KeysAreUsedOnce`. What a
transaction has found out under its locks is still so when it commits: its key is its
own and answers for no run (`KeyOK`), its session is one it creates under a name nobody
else can take or a live one whose row it has locked (`PickedOK`), and no run is active in it
(`IdleOK`); a deletion's session is there (`DeleterOK`).

`StartIsAtomic` (`Spec => ImplementsAtomicStart`) maps the statement at which a request is
answered to its step in `AtomicStart` and every statement before to a stutter
(`CommitIsAccept`, `FindRefines`, `CheckActiveRefines`, `ReserveRefines`, `NextRefines`).
What the commit needs is that the facts found out statements ago are facts of that instant:
`IInv`, and `RouteInv`, which adds by which of its words a request came to the session it
holds (`RouteOK`) and that a run lies in a session of its assistant (`PlaceOK`). A refusal needs no lock: it
is dated at the read that found the reason.

`NoCircularWait` (`Spec => []WaitsAreOrdered`): a lock belongs to a transaction that has
passed the statement that takes it (`HoldersOK`), and keys are taken before names and rows.
Since all take them in the same order, the holder is always at a later stage than the
one who waits.

**`IdentityProofs`**: `Invariant`, `TypeCorrect`, `ChainsStay`, `NoSessionWhenDisabled`,
`PasswordsAreKnown`, `OwnerStays`, `EndedSessionsStayEnded`, `AdminsKeepToMembers`. `Holds`: the locks of a
request at its stage; `Read`: what it read under them is still so; `TokensOK`: the foreign
keys. A request that holds none of another's locks leaves the rows under them alone
(`Spares`).

`IdentityIsAtomic` (`Spec => ImplementsAccounts`) maps each commit to one step of `Accounts`
and all else, refreshes included, to a stutter. `SessionFacts` and `FamilyFacts`: a family
is a session of one user; `OpenRefines`, `SessionClosed` and `SessionUntouched`: what
the writes to tokens do to the sessions; `PasswordWrites` and `UpdateWrites`: what the two
widest statements write. The locks enter through `Read`: the password a login verified, the
family a refresh found live, the owners an update counted and the role of the person it
changes are those of the commit.

**`AgentLoopProofs`**: `TypeCorrect`, `LimitsAreKept`, `LastDecides`, `RetriesAreBounded`,
`ForcedStays`, `RequestsWarn`, `LoopEnds`. `BudgetOK`: the calls accepted and those executed fit
the budget together; `ForcedOK`; `WastedOK`: retries in a row are counted in blocks of
`MaxToolRetries + 1` between two empty answers; `CountsOK` and `WarnedOK`: no counter is at
its stop while the run goes on, and of whatever is one step before it a warning was sent or
is scheduled; `SentOK`: nothing is scheduled while the model is asked.
`LoopEnds` is the part of termination that a proof reaches: `StepsLeft` is a natural number
and falls with every step, so a run takes at most `3 * limit + MaxToolCalls + 2` of them,
whatever the model answers. That the next step is taken is up to the executor (`RunQueue`).

**`ContextMemoryProofs`**: `Inductive`, `TypeCorrect`, `WholeContext`, `QuestionKept`,
`WholeExchanges`, `LatestResultsShown`. The invariant has two layers. `IInv` is about places and
units. Runs are accepted in order and so lie their questions (`BegunOK`).
Compaction cuts at most half of the units before the own question, or leaves the
last unit, so it spares what the executor wrote (`CutSparesOwn`, a fact about
cardinalities). Hence every snapshot is a prefix, ends between two units and before its
writer's question (`SnapshotOK`), and none tells of the active run (`ActiveIsFresh`).
Therefore what the active executor keeps is exactly what it read and no summary tells,
unit by unit, and what it appended (`MemoryOK`). `JInv`, proved on top of it, is about what
is replayed: a summary was made from all it covers but what cannot be replayed
(`SummaryOK`); of what an executor keeps all that can be replayed is (`ReplayOK`), since
whether calls are repeated, and whose they are, is decided by the transcript before them
and no cut separates them from their results; and what the executor appended is replayed
whatever came in between (`OwnOK`).

**`ToolingProofs`**: `CataloguesMatch`. A refresh under way has read the settings of a
revision the server has had; as long as that is its revision they are its settings
(`RefreshOK`). **`ToolingTablesProofs`**: `TablesHold`, `ImportsDoAsDecided`. References,
unique slugs and identifiers given once; an import writes a saved row or a new
identifier for each slug (`OverlayKeepsUnique`); an accepted plan can be resolved, and one
that is not accepted has a reason (`Refusable`).

Only model-checked: the three liveness properties `AcceptedRunsEnd`, `CallbacksSettle` and
`EveryRequestAnswered`. They rest on fairness, hence on ENABLED, which the prover does not
have; of the last, what is not fairness is proved (`NoCircularWait`). The three violations
are counterexamples and need no proof.

## 6. Not modelled, and why

* Identity, in part: the creation of API keys is one insert and their use a lookup (their
  revocation is in `WebhookDelivery`); the login limiter is a window behind one
  mutex in one process; tokens are checked for expiry, which here would only refuse more.
* Catalog: changes run one after another under an advisory lock; the test of a provider
  writes back with the revision it read, as the refresh in `Tooling` does.
* Skills: parsing and storage of documents. Reports: read-only SQL. Pagination and
  listing anywhere.
* The HTTP adapter, the stream of events and the clients of external services keep no
  state shared between requests; what fails in them is an outcome in `RunQueue` or `AgentLoop`.
* Cryptography and address filtering are pure functions over data a state model
  abstracts away. The web application is a client. Deployment and migrations run once;
  the constraints of the schema are in the modules that depend on them.
* Generated code: about 15 000 lines of `api.gen.go` are data types and routing. The
  generated SQL wrappers are modelled where a statement's condition matters. This is why
  the modules stand for a small share of all lines, though they cover the services that
  carry the system's protocols.
* Inside the modelled components: spans, usage figures, event frames, wording of errors,
  payloads, signatures, the length of delays, and sizes in tokens.
