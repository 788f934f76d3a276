--------------------------- MODULE RunQueueProofs ---------------------------
(***************************************************************************)
(* Proofs about RunQueue for any set of runs, goroutines and processes and *)
(* any bound on faults. They rest on RunQueueAssumption only.              *)
(***************************************************************************)
EXTENDS RunQueue, TLAPS

-----------------------------------------------------------------------------
(* Facts about the operators the actions are built from.                   *)

\* StatusFor maps every failure code to a final status, and only the absence of
\* a failure to success.
LEMMA StatusForIsTerminal ==
    ASSUME NEW code \in Codes
    PROVE  /\ StatusFor(code) \in Terminal
           /\ StatusFor(code) = "succeeded" => code = "none"
  BY DEF StatusFor, Terminal, Codes

\* failureFromCause yields a code, and never success.
LEMMA FailureFromCauseIsCode ==
    ASSUME NEW cause
    PROVE  /\ FailureFromCause(cause) \in Codes
           /\ FailureFromCause(cause) # "none"
  BY DEF FailureFromCause, Codes

\* Each bookkeeping operator leaves the goroutines well typed.
LEMMA BookkeepingTypeOK ==
    ASSUME GoroutinesTypeOK, NEW e \in Executors
    PROVE  /\ Release(e) => GoroutinesTypeOK'
           /\ \A r \in Runs, stage \in Processing \cup {"complete"} :
                 TakeUp(e, r, stage) => GoroutinesTypeOK'
           /\ \A stage \in Processing \cup {"complete"} :
                 Goto(e, stage) => GoroutinesTypeOK'
           /\ \A code \in Codes : Conclude(e, code) => GoroutinesTypeOK'
           /\ \A cause \in Causes : CancelContext(e, cause) => GoroutinesTypeOK'
           /\ \A w \in Workers : Kill(w) => GoroutinesTypeOK'
  <1> USE DEF GoroutinesTypeOK
  <1>1. Release(e) => GoroutinesTypeOK'
    BY DEF Release, Codes
  <1>2. \A r \in Runs, stage \in Processing \cup {"complete"} :
           TakeUp(e, r, stage) => GoroutinesTypeOK'
    BY DEF TakeUp
  <1>3. \A stage \in Processing \cup {"complete"} :
           Goto(e, stage) => GoroutinesTypeOK'
    BY DEF Goto
  <1>4. \A code \in Codes : Conclude(e, code) => GoroutinesTypeOK'
    BY DEF Conclude
  <1>5. \A cause \in Causes : CancelContext(e, cause) => GoroutinesTypeOK'
    BY DEF CancelContext
  <1>6. \A w \in Workers : Kill(w) => GoroutinesTypeOK'
    BY DEF Kill, Codes
  <1>7. QED
    BY <1>1, <1>2, <1>3, <1>4, <1>5, <1>6

\* FinishRun leaves the runs table well typed.
LEMMA FinishRunTypeOK ==
    ASSUME RunsTypeOK, NEW r \in Runs, NEW code \in Codes, FinishRun(r, code)
    PROVE  RunsTypeOK'
  BY StatusForIsTerminal DEF FinishRun, RunsTypeOK

-----------------------------------------------------------------------------
(* Type correctness.                                                       *)

\* The empty tables and idle goroutines the program starts with are well typed.
LEMMA InitTypeOK == Init => TypeOK
  BY RunQueueAssumption
  DEF Init, TypeOK, RunsTypeOK, JobsTypeOK, GoroutinesTypeOK, Modes, Codes,
      Active, Terminal, Processing

\* An action of a goroutine is possible only while it is working on a run.
LEMMA BusyHasTarget ==
    ASSUME IInv, NEW e \in Executors, pc[e] # "idle"
    PROVE  target[e] \in Runs
  BY DEF IInv, StageOK

\* What a goroutine does when left to run keeps every type.
LEMMA AdvanceTypeOK ==
    ASSUME TypeOK, NEW e \in Executors, target[e] \in Runs, Advance(e)
    PROVE  TypeOK'
  <1> USE BookkeepingTypeOK DEF TypeOK, RunsTypeOK, JobsTypeOK, runTable, jobTable
  <1>1. CASE InspectRun(e)
    BY <1>1 DEF InspectRun, Processing, Codes
  <1>2. CASE StartQueuedRun(e)
    <2>1. GoroutinesTypeOK'
      BY <1>2 DEF StartQueuedRun, Processing
    <2>2. RunsTypeOK' /\ executions' \in [Runs -> Nat]
      BY <1>2 DEF StartQueuedRun, Active
    <2>3. JobsTypeOK' /\ UNCHANGED <<process, faults>>
      BY <1>2 DEF StartQueuedRun
    <2>4. QED
      BY <2>1, <2>2, <2>3
  <1>3. CASE AbandonJob(e)
    BY <1>3 DEF AbandonJob
  <1>4. CASE Prepare(e)
    BY <1>4 DEF Prepare, Processing, Codes
  <1>5. CASE EndExecution(e)
    BY <1>5, FailureFromCauseIsCode DEF EndExecution, Codes
  <1>6. CASE Finish(e)
    BY <1>6, FinishRunTypeOK DEF Finish, GoroutinesTypeOK
  <1>7. CASE Complete(e)
    BY <1>7, RunQueueAssumption DEF Complete, CompleteRunJob
  <1>8. QED
    BY <1>1, <1>2, <1>3, <1>4, <1>5, <1>6, <1>7 DEF Advance

\* So does whatever happens to it.
LEMMA DisturbTypeOK ==
    ASSUME TypeOK, NEW e \in Executors, target[e] \in Runs,
           ObserveCancel(e) \/ Disturb(e)
    PROVE  TypeOK'
  <1> USE BookkeepingTypeOK, RunQueueAssumption
          DEF TypeOK, RunsTypeOK, JobsTypeOK, runTable, jobTable, Fault
  <1>1. CASE ObserveCancel(e)
    BY <1>1 DEF ObserveCancel, Causes
  <1>2. CASE StartReplyLost(e)
    BY <1>2 DEF StartReplyLost, Active
  <1>3. CASE ClaimFails(e)
    BY <1>3 DEF ClaimFails
  <1>4. CASE ClaimPanics(e)
    BY <1>4 DEF ClaimPanics, Codes
  <1>5. CASE WatcherFails(e)
    BY <1>5 DEF WatcherFails, Causes
  <1>6. CASE TimeOut(e)
    BY <1>6 DEF TimeOut, Causes
  <1>7. CASE CallerLeaves(e)
    BY <1>7 DEF CallerLeaves, Causes
  <1>8. CASE FinishFails(e)
    BY <1>8 DEF FinishFails
  <1>9. CASE FinishReplyLost(e)
    BY <1>9, FinishRunTypeOK DEF FinishReplyLost, GoroutinesTypeOK
  <1>10. CASE CompleteFails(e)
    BY <1>10 DEF CompleteFails
  <1>11. CASE ExtendLease(e)
    BY <1>11 DEF ExtendLease, GoroutinesTypeOK
  <1>12. CASE MissHeartbeat(e)
    <2>1. GoroutinesTypeOK'
      <3>1. CASE /\ misses' = [misses EXCEPT ![e] = 1]
                 /\ UNCHANGED <<pc, target, verdict, ctx>>
        BY <3>1 DEF GoroutinesTypeOK
      <3>2. CASE CancelContext(e, "parent")
        BY <3>2 DEF Causes
      <3>3. QED
        BY <1>12, <3>1, <3>2 DEF MissHeartbeat
    <2>2. faults' \in 0..MaxFaults
      BY <1>12 DEF MissHeartbeat
    <2>3. RunsTypeOK' /\ JobsTypeOK' /\ UNCHANGED <<process, executions>>
      BY <1>12 DEF MissHeartbeat
    <2>4. QED
      BY <2>1, <2>2, <2>3
  <1>13. QED
    BY <1>1, <1>2, <1>3, <1>4, <1>5, <1>6, <1>7, <1>8, <1>9, <1>10, <1>11, <1>12
    DEF Disturb

\* Callers, leases and processes keep every type.
LEMMA EnvironmentTypeOK ==
    ASSUME TypeOK,
           \/ \E r \in Runs :
                 \/ EnqueueAsync(r) \/ RequestRunCancel(r)
                 \/ AbandonedLeaseLapses(r) \/ LeaseLapsesUnderPause(r)
                 \/ \E e \in Executors : StartInline(e, r) \/ Claim(e, r)
           \/ \E w \in Workers : Shutdown(w) \/ Exit(w) \/ Crash(w) \/ Restart(w)
    PROVE  TypeOK'
  <1> USE RunQueueAssumption
          DEF TypeOK, RunsTypeOK, JobsTypeOK, runTable, jobTable, Fault
  <1>1. ASSUME NEW r \in Runs, EnqueueAsync(r)
        PROVE  TypeOK'
    BY <1>1 DEF EnqueueAsync, InsertJob, Active, goroutines, GoroutinesTypeOK
  <1>2. ASSUME NEW r \in Runs, RequestRunCancel(r)
        PROVE  TypeOK'
    BY <1>2 DEF RequestRunCancel, goroutines, GoroutinesTypeOK
  <1>3. ASSUME NEW r \in Runs, AbandonedLeaseLapses(r)
        PROVE  TypeOK'
    BY <1>3 DEF AbandonedLeaseLapses, goroutines, GoroutinesTypeOK
  <1>4. ASSUME NEW r \in Runs, LeaseLapsesUnderPause(r)
        PROVE  TypeOK'
    BY <1>4 DEF LeaseLapsesUnderPause, goroutines, GoroutinesTypeOK
  <1>5. ASSUME NEW r \in Runs, NEW e \in Executors, StartInline(e, r)
        PROVE  TypeOK'
    BY <1>5, BookkeepingTypeOK DEF StartInline, Active, Processing
  <1>6. ASSUME NEW r \in Runs, NEW e \in Executors, Claim(e, r)
        PROVE  TypeOK'
    BY <1>6, BookkeepingTypeOK DEF Claim, ClaimRunJob, Processing
  <1>7. ASSUME NEW w \in Workers, Shutdown(w)
        PROVE  TypeOK'
    BY <1>7 DEF Shutdown, GoroutinesTypeOK, Causes
  <1>8. ASSUME NEW w \in Workers, Exit(w) \/ Crash(w)
        PROVE  TypeOK'
    <2>1. GoroutinesTypeOK'
      BY <1>8 DEF Exit, Crash, Kill, GoroutinesTypeOK, Codes
    <2>2. process' \in [Workers -> {"up", "stopping", "down"}]
      BY <1>8 DEF Exit, Crash, Kill
    <2>3. QED
      BY <1>8, <2>1, <2>2 DEF Exit, Crash
  <1>9. ASSUME NEW w \in Workers, Restart(w)
        PROVE  TypeOK'
    BY <1>9 DEF Restart, goroutines, GoroutinesTypeOK
  <1>10. QED
    BY <1>1, <1>2, <1>3, <1>4, <1>5, <1>6, <1>7, <1>8, <1>9

\* The typing half of the invariant.
LEMMA NextTypeOK ==
    ASSUME IInv, Next
    PROVE  TypeOK'
  <1>1. TypeOK
    BY DEF IInv
  <1>2. ASSUME NEW e \in Executors, Advance(e) \/ ObserveCancel(e) \/ Disturb(e)
        PROVE  pc[e] # "idle"
    <2>1. CASE Advance(e)
      BY <2>1 DEF Advance, InspectRun, StartQueuedRun, AbandonJob, Prepare,
                  EndExecution, Finish, Complete
    <2>2. CASE ObserveCancel(e) \/ Disturb(e)
      BY <2>2 DEF ObserveCancel, Disturb, StartReplyLost, ClaimFails, ClaimPanics,
                  WatcherFails, TimeOut, CallerLeaves, FinishFails,
                  FinishReplyLost, CompleteFails, ExtendLease, MissHeartbeat,
                  Processing
    <2>3. QED
      BY <1>2, <2>1, <2>2
  <1>3. QED
    BY <1>1, <1>2, BusyHasTarget, AdvanceTypeOK, DisturbTypeOK, EnvironmentTypeOK
    DEF Next

-----------------------------------------------------------------------------
(* The rows: ownership, jobs and callbacks of every run.                   *)

RowsOK == \A r \in Runs : OwnershipOK(r) /\ JobRowOK(r) /\ CallbackOK(r)

\* Most steps touch no column the row invariants speak of.
Quiet == UNCHANGED <<status, mode, wanted, outbox, lease, executions>>

\* The steps of a goroutine that read the tables, fail, or only concern its context.
LEMMA QuietSteps ==
    ASSUME NEW e \in Executors,
           \/ InspectRun(e) \/ AbandonJob(e) \/ Prepare(e) \/ EndExecution(e)
           \/ ObserveCancel(e) \/ ClaimFails(e) \/ ClaimPanics(e)
           \/ WatcherFails(e) \/ TimeOut(e) \/ CallerLeaves(e) \/ FinishFails(e)
           \/ CompleteFails(e) \/ ExtendLease(e) \/ MissHeartbeat(e)
    PROVE  Quiet /\ UNCHANGED <<runTable, jobTable>>
  BY DEF Quiet, runTable, jobTable, InspectRun, AbandonJob, Prepare, EndExecution,
         ObserveCancel, ClaimFails, ClaimPanics, WatcherFails, TimeOut, CallerLeaves,
         FinishFails, CompleteFails, ExtendLease, MissHeartbeat

\* Processes stop and start without touching the tables.
LEMMA QuietProcesses ==
    ASSUME NEW w \in Workers, Shutdown(w) \/ Exit(w) \/ Crash(w) \/ Restart(w)
    PROVE  Quiet /\ UNCHANGED <<runTable, jobTable>>
  BY DEF Quiet, runTable, jobTable, Shutdown, Exit, Crash, Restart

\* Writing the final status of an active run adds its one callback.
LEMMA FinishRunRows ==
    ASSUME RunsTypeOK, RowsOK, NEW r \in Runs, NEW code \in Codes, CanFinishRun(r),
           FinishRun(r, code), UNCHANGED <<lease, executions>>
    PROVE  RowsOK'
  <1>1. StatusFor(code) \in Terminal
    BY StatusForIsTerminal
  <1>2. outbox[r] = << >>
    BY DEF RowsOK, CallbackOK, CanFinishRun, Active, Terminal
  <1>3. ASSUME NEW q \in Runs
        PROVE  OwnershipOK(q)' /\ JobRowOK(q)'
    BY <1>1, <1>3 DEF RunsTypeOK, RowsOK, OwnershipOK, JobRowOK, FinishRun,
                      CanFinishRun, Active, Terminal
  <1>4. ASSUME NEW q \in Runs
        PROVE  CallbackOK(q)'
    <2>1. CASE q = r
      BY <1>1, <1>2, <2>1 DEF RunsTypeOK, CallbackOK, FinishRun, Terminal
    <2>2. CASE q # r
      BY <2>2 DEF RunsTypeOK, RowsOK, CallbackOK, FinishRun
    <2>3. QED
      BY <2>1, <2>2
  <1>5. QED
    BY <1>3, <1>4 DEF RowsOK

\* Every step keeps ownership, job and callback of every run in order. Complete is
\* the delicate one: it deletes a job, and only its stage says the run has ended.
LEMMA NextRowsOK ==
    ASSUME IInv, Next
    PROVE  RowsOK'
  <1> USE DEF IInv, TypeOK, RunsTypeOK, JobsTypeOK, RowsOK, OwnershipOK, JobRowOK,
              CallbackOK, Active, Terminal, runTable, jobTable
  <1>1. CASE Quiet
    BY <1>1 DEF Quiet
  <1>2. ASSUME NEW r \in Runs, EnqueueAsync(r)
        PROVE  RowsOK'
    BY <1>2 DEF EnqueueAsync, InsertJob
  <1>3. ASSUME NEW r \in Runs, RequestRunCancel(r)
        PROVE  RowsOK'
    BY <1>3 DEF RequestRunCancel
  <1>4. ASSUME NEW r \in Runs, AbandonedLeaseLapses(r) \/ LeaseLapsesUnderPause(r)
        PROVE  RowsOK'
    BY <1>4 DEF AbandonedLeaseLapses, LeaseLapsesUnderPause
  <1>5. ASSUME NEW r \in Runs, NEW e \in Executors, StartInline(e, r)
        PROVE  RowsOK'
    BY <1>5 DEF StartInline
  <1>6. ASSUME NEW r \in Runs, NEW e \in Executors, Claim(e, r)
        PROVE  RowsOK'
    BY <1>6 DEF Claim, ClaimRunJob
  <1>7. ASSUME NEW e \in Executors, StartQueuedRun(e) \/ StartReplyLost(e)
        PROVE  RowsOK'
    <2>1. target[e] \in Runs
      BY <1>7, BusyHasTarget DEF StartQueuedRun, StartReplyLost
    <2>2. QED
      BY <1>7, <2>1 DEF StartQueuedRun, StartReplyLost, CanStartQueuedRun
  <1>8. ASSUME NEW e \in Executors, Finish(e) \/ FinishReplyLost(e)
        PROVE  RowsOK'
    <2>1. target[e] \in Runs /\ verdict[e] \in Codes
      BY <1>8, BusyHasTarget DEF Finish, FinishReplyLost, GoroutinesTypeOK
    <2>2. CASE CanFinishRun(target[e]) /\ FinishRun(target[e], verdict[e])
      BY <1>8, <2>1, <2>2, FinishRunRows DEF Finish, FinishReplyLost
    <2>3. CASE UNCHANGED runTable
      BY <1>8, <2>3 DEF Finish, FinishReplyLost
    <2>4. QED
      BY <1>8, <2>2, <2>3 DEF Finish, FinishReplyLost
  <1>9. ASSUME NEW e \in Executors, Complete(e)
        PROVE  RowsOK'
    <2>1. target[e] \in Runs /\ status[target[e]] \in Terminal
      BY <1>9, BusyHasTarget DEF Complete, StageOK
    <2>2. QED
      BY <1>9, <2>1 DEF Complete, CompleteRunJob
  <1>10. QED
    BY <1>1, <1>2, <1>3, <1>4, <1>5, <1>6, <1>7, <1>8, <1>9,
       QuietSteps, QuietProcesses
    DEF Next, Advance, Disturb

-----------------------------------------------------------------------------
(* The stages: what a goroutine knows of its run stays true whatever the    *)
(* other goroutines, callers and processes do.                             *)

\* The facts that stages rest on only ever grow.
RowsAdvance ==
    \A r \in Runs :
        /\ mode'[r] = mode[r]
        /\ status[r] # "absent" => status'[r] # "absent"
        /\ status[r] \in Terminal => status'[r] \in Terminal
        /\ executions[r] = 1 => executions'[r] = 1

\* No step takes a fact back that some goroutine's stage relies on.
LEMMA NextRowsAdvance ==
    ASSUME IInv, Next
    PROVE  RowsAdvance
  <1> USE DEF IInv, TypeOK, RunsTypeOK, RowsAdvance, OwnershipOK, Active, Terminal,
              runTable, jobTable
  <1>1. CASE Quiet
    BY <1>1 DEF Quiet
  <1>2. ASSUME NEW r \in Runs,
               \/ EnqueueAsync(r) \/ RequestRunCancel(r)
               \/ AbandonedLeaseLapses(r) \/ LeaseLapsesUnderPause(r)
        PROVE  RowsAdvance
    BY <1>2 DEF EnqueueAsync, RequestRunCancel, AbandonedLeaseLapses,
                LeaseLapsesUnderPause
  <1>3. ASSUME NEW r \in Runs, NEW e \in Executors, StartInline(e, r) \/ Claim(e, r)
        PROVE  RowsAdvance
    BY <1>3 DEF StartInline, Claim
  <1>4. ASSUME NEW e \in Executors,
               \/ StartQueuedRun(e) \/ StartReplyLost(e)
               \/ Finish(e) \/ FinishReplyLost(e) \/ Complete(e)
        PROVE  RowsAdvance
    <2>1. target[e] \in Runs /\ verdict[e] \in Codes
      BY <1>4, BusyHasTarget DEF StartQueuedRun, StartReplyLost, Finish,
                                 FinishReplyLost, Complete, GoroutinesTypeOK
    <2>2. CASE StartQueuedRun(e) \/ StartReplyLost(e)
      BY <2>1, <2>2 DEF StartQueuedRun, StartReplyLost, CanStartQueuedRun
    <2>3. CASE Finish(e) \/ FinishReplyLost(e)
      BY <2>1, <2>3, StatusForIsTerminal
      DEF Finish, FinishReplyLost, FinishRun
    <2>4. CASE Complete(e)
      BY <2>4 DEF Complete
    <2>5. QED
      BY <1>4, <2>2, <2>3, <2>4
  <1>5. QED
    BY <1>1, <1>2, <1>3, <1>4, QuietSteps, QuietProcesses DEF Next, Advance, Disturb

\* A goroutine that does not move keeps its stage's facts.
LEMMA BystanderKeepsStage ==
    ASSUME IInv, RowsAdvance, NEW d \in Executors,
           pc'[d] = pc[d], target'[d] = target[d], verdict'[d] = verdict[d]
    PROVE  StageOK(d)'
  BY DEF IInv, RowsAdvance, StageOK

\* A goroutine that goes idle has nothing to keep.
LEMMA IdleStage ==
    ASSUME NEW d \in Executors, pc'[d] = "idle"
    PROVE  StageOK(d)'
  BY DEF StageOK

\* Every step leaves every goroutine in a stage that its run's rows bear out.
LEMMA NextStagesOK ==
    ASSUME IInv, Next
    PROVE  \A d \in Executors : StageOK(d)'
  <1> USE NextRowsAdvance DEF IInv, TypeOK, GoroutinesTypeOK
  <1>1. ASSUME UNCHANGED <<pc, target, verdict>>
        PROVE  \A d \in Executors : StageOK(d)'
    BY <1>1, BystanderKeepsStage
  <1>2. ASSUME NEW e \in Executors, Release(e)
        PROVE  \A d \in Executors : StageOK(d)'
    BY <1>2, BystanderKeepsStage, IdleStage DEF Release
  <1>3. ASSUME NEW w \in Workers, Kill(w)
        PROVE  \A d \in Executors : StageOK(d)'
    BY <1>3, BystanderKeepsStage, IdleStage DEF Kill
  <1>4. ASSUME NEW e \in Executors, StageOK(e)',
               \/ \E stage : Goto(e, stage)
               \/ \E code : Conclude(e, code)
               \/ \E stage, r : TakeUp(e, r, stage)
        PROVE  \A d \in Executors : StageOK(d)'
    BY <1>4, BystanderKeepsStage DEF Goto, Conclude, TakeUp
  <1>5. ASSUME NEW r \in Runs, NEW e \in Executors, StartInline(e, r)
        PROVE  StageOK(e)'
    BY <1>5 DEF StartInline, TakeUp, StageOK, RunsTypeOK, OwnershipOK
  <1>6. ASSUME NEW r \in Runs, NEW e \in Executors, Claim(e, r)
        PROVE  StageOK(e)'
    BY <1>6 DEF Claim, ClaimRunJob, TakeUp, StageOK, JobRowOK, runTable
  <1>7. ASSUME NEW e \in Executors, InspectRun(e)
        PROVE  StageOK(e)'
    BY <1>7 DEF InspectRun, Goto, Conclude, StageOK, runTable
  <1>8. ASSUME NEW e \in Executors, StartQueuedRun(e), ~Release(e)
        PROVE  StageOK(e)'
    BY <1>8 DEF StartQueuedRun, CanStartQueuedRun, Goto, StageOK, OwnershipOK,
                RunsTypeOK
  <1>9. ASSUME NEW e \in Executors, Prepare(e)
        PROVE  StageOK(e)'
    BY <1>9 DEF Prepare, Goto, Conclude, StageOK, runTable
  <1>10. ASSUME NEW e \in Executors, EndExecution(e)
         PROVE  StageOK(e)'
    BY <1>10, FailureFromCauseIsCode DEF EndExecution, Conclude, StageOK, runTable
  <1>11. ASSUME NEW e \in Executors, Finish(e), ~Release(e)
         PROVE  StageOK(e)'
    BY <1>11, StatusForIsTerminal
    DEF Finish, FinishRun, IsJob, TakeUp, StageOK, RunsTypeOK, Terminal
  <1>12. ASSUME NEW e \in Executors, ClaimPanics(e), ~Release(e)
         PROVE  StageOK(e)'
    BY <1>12 DEF ClaimPanics, Goto, Conclude, StageOK, runTable
  <1>13. ASSUME NEW e \in Executors, Advance(e) \/ ObserveCancel(e) \/ Disturb(e)
         PROVE  \A d \in Executors : StageOK(d)'
    <2>1. CASE InspectRun(e) \/ Prepare(e) \/ EndExecution(e)
      BY <2>1, <1>4, <1>7, <1>9, <1>10 DEF InspectRun, Prepare, EndExecution
    <2>2. CASE StartQueuedRun(e) \/ Finish(e) \/ ClaimPanics(e)
      BY <2>2, <1>2, <1>4, <1>8, <1>11, <1>12 DEF StartQueuedRun, Finish, ClaimPanics
    <2>3. CASE \/ AbandonJob(e) \/ Complete(e) \/ StartReplyLost(e) \/ ClaimFails(e)
               \/ FinishFails(e) \/ FinishReplyLost(e) \/ CompleteFails(e)
      BY <2>3, <1>2 DEF AbandonJob, Complete, StartReplyLost, ClaimFails,
                        FinishFails, FinishReplyLost, CompleteFails
    <2>4. CASE \/ ObserveCancel(e) \/ WatcherFails(e) \/ TimeOut(e)
               \/ CallerLeaves(e) \/ ExtendLease(e) \/ MissHeartbeat(e)
      BY <2>4, <1>1 DEF ObserveCancel, WatcherFails, TimeOut, CallerLeaves,
                        ExtendLease, MissHeartbeat, CancelContext
    <2>5. QED
      BY <1>13, <2>1, <2>2, <2>3, <2>4 DEF Advance, Disturb
  <1>14. ASSUME NEW r \in Runs,
                \/ EnqueueAsync(r) \/ RequestRunCancel(r)
                \/ AbandonedLeaseLapses(r) \/ LeaseLapsesUnderPause(r)
         PROVE  \A d \in Executors : StageOK(d)'
    BY <1>14, <1>1 DEF EnqueueAsync, RequestRunCancel, AbandonedLeaseLapses,
                       LeaseLapsesUnderPause, goroutines
  <1>15. ASSUME NEW r \in Runs, NEW e \in Executors, StartInline(e, r) \/ Claim(e, r)
         PROVE  \A d \in Executors : StageOK(d)'
    BY <1>15, <1>4, <1>5, <1>6 DEF StartInline, Claim
  <1>16. ASSUME NEW w \in Workers, Shutdown(w) \/ Exit(w) \/ Crash(w) \/ Restart(w)
         PROVE  \A d \in Executors : StageOK(d)'
    BY <1>16, <1>1, <1>3 DEF Shutdown, Exit, Crash, Restart, goroutines
  <1>17. QED
    BY <1>13, <1>14, <1>15, <1>16 DEF Next

-----------------------------------------------------------------------------
(* The invariant, and the safety properties that follow from it.           *)

\* The empty tables satisfy the invariant.
LEMMA InitIInv == Init => IInv
  <1> SUFFICES ASSUME Init PROVE IInv
    OBVIOUS
  <1>1. TypeOK
    BY InitTypeOK
  <1>2. \A e \in Executors : StageOK(e)
    BY DEF Init, StageOK
  <1>3. \A r \in Runs : OwnershipOK(r) /\ JobRowOK(r) /\ CallbackOK(r)
    <2> SUFFICES ASSUME NEW r \in Runs
                 PROVE  OwnershipOK(r) /\ JobRowOK(r) /\ CallbackOK(r)
      OBVIOUS
    <2>1. /\ status[r] = "absent" /\ lease[r] = "none"
          /\ outbox[r] = << >> /\ executions[r] = 0
      BY DEF Init
    <2>2. QED
      BY <2>1 DEF OwnershipOK, JobRowOK, CallbackOK, Terminal, Active
  <1>4. QED
    BY <1>1, <1>2, <1>3 DEF IInv

\* The invariant is inductive.
LEMMA NextIInv == IInv /\ [Next]_vars => IInv'
  <1> SUFFICES ASSUME IInv, [Next]_vars PROVE IInv'
    OBVIOUS
  <1>1. CASE Next
    BY <1>1, NextTypeOK, NextRowsOK, NextStagesOK DEF IInv, RowsOK
  <1>2. CASE UNCHANGED vars
    <2> USE <1>2 DEF IInv, vars, runTable, jobTable, goroutines
    <2>1. TypeOK'
      BY DEF TypeOK, RunsTypeOK, JobsTypeOK, GoroutinesTypeOK
    <2>2. \A e \in Executors : StageOK(e)'
      BY DEF StageOK
    <2>3. \A r \in Runs : OwnershipOK(r)' /\ JobRowOK(r)' /\ CallbackOK(r)'
      BY DEF OwnershipOK, JobRowOK, CallbackOK
    <2>4. QED
      BY <2>1, <2>2, <2>3
  <1>3. QED
    BY <1>1, <1>2

\* Whatever interleaving of callers, workers, crashes and lapsed leases is taken,
\* the rows of every run stay consistent with each other and with the stage of
\* every goroutine that works on it.
THEOREM InvariantHolds == Spec => []IInv
  BY InitIInv, NextIInv, PTL DEF Spec

\* Every reachable state is well typed; no second miss of the heartbeat is counted.
THEOREM TypeCorrect == Spec => []TypeOK
  <1>1. IInv => TypeOK
    BY DEF IInv
  <1>2. QED
    BY <1>1, InvariantHolds, PTL

\* The at-most-once promise of ProcessJob: no run is executed twice.
THEOREM AtMostOnce == Spec => []ExecutedAtMostOnce
  <1>1. IInv => ExecutedAtMostOnce
    BY DEF IInv, OwnershipOK, ExecutedAtMostOnce
  <1>2. QED
    BY <1>1, InvariantHolds, PTL

\* The queue never loses an accepted run that has not ended.
THEOREM NothingLost == Spec => []NoLostRun
  <1>1. IInv => NoLostRun
    BY DEF IInv, JobRowOK, NoLostRun
  <1>2. QED
    BY <1>1, InvariantHolds, PTL

\* Runs that ended have exactly the one callback their caller asked for.
THEOREM OneCallback == Spec => []OneCallbackPerEnd
  <1>1. IInv => OneCallbackPerEnd
    BY DEF IInv, CallbackOK, OneCallbackPerEnd
  <1>2. QED
    BY <1>1, InvariantHolds, PTL

-----------------------------------------------------------------------------
(* What a step may never do, and the refinement of RunLifecycle.           *)

\* Every step that touches the runs table, as a step of RunLifecycle; the rest
\* leave the columns RunLifecycle speaks of.
LEMMA NextImplementsLifecycle ==
    ASSUME IInv, Next
    PROVE  Lifecycle!Next \/ UNCHANGED Lifecycle!vars
  <1> USE DEF Lifecycle!Next, Lifecycle!vars, IInv, TypeOK, RunsTypeOK, runTable
  <1>1. CASE Quiet
    BY <1>1 DEF Quiet
  <1>2. ASSUME NEW r \in Runs, EnqueueAsync(r)
        PROVE  Lifecycle!Accept(r)
    BY <1>2 DEF EnqueueAsync, Lifecycle!Accept
  <1>3. ASSUME NEW r \in Runs,
               \/ RequestRunCancel(r)
               \/ AbandonedLeaseLapses(r) \/ LeaseLapsesUnderPause(r)
        PROVE  UNCHANGED Lifecycle!vars
    BY <1>3 DEF RequestRunCancel, AbandonedLeaseLapses, LeaseLapsesUnderPause
  <1>4. ASSUME NEW r \in Runs, NEW e \in Executors, StartInline(e, r)
        PROVE  Lifecycle!Begin(r)
    BY <1>4 DEF StartInline, Lifecycle!Begin
  <1>5. ASSUME NEW r \in Runs, NEW e \in Executors, Claim(e, r)
        PROVE  UNCHANGED Lifecycle!vars
    BY <1>5 DEF Claim
  <1>6. ASSUME NEW e \in Executors, StartQueuedRun(e) \/ StartReplyLost(e)
        PROVE  Lifecycle!Next \/ UNCHANGED Lifecycle!vars
    <2>1. target[e] \in Runs
      BY <1>6, BusyHasTarget DEF StartQueuedRun, StartReplyLost
    <2>2. Lifecycle!Begin(target[e]) \/ UNCHANGED Lifecycle!vars
      BY <1>6 DEF StartQueuedRun, StartReplyLost, CanStartQueuedRun, Lifecycle!Begin
    <2>3. QED
      BY <2>1, <2>2
  <1>7. ASSUME NEW e \in Executors, Finish(e) \/ FinishReplyLost(e)
        PROVE  Lifecycle!Next \/ UNCHANGED Lifecycle!vars
    <2>1. target[e] \in Runs /\ verdict[e] \in Codes
      BY <1>7, BusyHasTarget DEF Finish, FinishReplyLost, GoroutinesTypeOK
    <2>2. CASE CanFinishRun(target[e]) /\ FinishRun(target[e], verdict[e])
      <3>1. StatusFor(verdict[e]) = "succeeded" => executions[target[e]] = 1
        BY <1>7, <2>1, StatusForIsTerminal DEF Finish, FinishReplyLost, StageOK
      <3>2. Lifecycle!End(target[e])
        BY <1>7, <2>1, <2>2, <3>1, StatusForIsTerminal
        DEF Finish, FinishReplyLost, FinishRun, CanFinishRun, Lifecycle!End,
            Lifecycle!Terminal, Lifecycle!Active, Terminal, Active
      <3>3. QED
        BY <2>1, <3>2
    <2>3. CASE UNCHANGED runTable
      BY <1>7, <2>3 DEF Finish, FinishReplyLost
    <2>4. QED
      BY <1>7, <2>2, <2>3 DEF Finish, FinishReplyLost
  <1>8. ASSUME NEW e \in Executors, Complete(e)
        PROVE  UNCHANGED Lifecycle!vars
    BY <1>8 DEF Complete
  <1>9. QED
    BY <1>1, <1>2, <1>3, <1>4, <1>5, <1>6, <1>7, <1>8, QuietSteps, QuietProcesses
    DEF Next, Advance, Disturb

\* The queue with its leases, crashes and races keeps the promise callers see.
THEOREM LifecycleImplemented == Spec => ImplementsLifecycle
  <1>1. Init => Lifecycle!Init
    BY DEF Init, Lifecycle!Init
  <1>2. IInv /\ [Next]_vars => [Lifecycle!Next]_(Lifecycle!vars)
    <2> SUFFICES ASSUME IInv, [Next]_vars
                 PROVE  Lifecycle!Next \/ UNCHANGED Lifecycle!vars
      OBVIOUS
    <2>1. CASE Next
      BY <2>1, NextImplementsLifecycle
    <2>2. CASE UNCHANGED vars
      BY <2>2 DEF vars, runTable, Lifecycle!vars
    <2>3. QED
      BY <2>1, <2>2
  <1>3. QED
    BY <1>1, <1>2, InvariantHolds, PTL DEF Spec, ImplementsLifecycle, Lifecycle!Spec

\* What a step leaves alone in the row of an ended run.
FrozenRow(r) ==
    /\ status'[r] = status[r]
    /\ errorCode'[r] = errorCode[r]
    /\ cancelRequested'[r] = cancelRequested[r]
    /\ outbox'[r] = outbox[r]

\* Only the statements guarded by the status write to the row.
LEMMA NextFreezesEndedRows ==
    ASSUME IInv, Next
    PROVE  \A r \in Runs : status[r] \in Terminal => FrozenRow(r)
  <1> USE DEF FrozenRow, IInv, TypeOK, RunsTypeOK, Terminal, Active, runTable
  <1>1. CASE UNCHANGED runTable
    BY <1>1
  <1>2. ASSUME NEW q \in Runs, EnqueueAsync(q) \/ RequestRunCancel(q)
        PROVE  \A r \in Runs : status[r] \in Terminal => FrozenRow(r)
    BY <1>2 DEF EnqueueAsync, RequestRunCancel
  <1>3. ASSUME NEW q \in Runs, NEW e \in Executors, StartInline(e, q)
        PROVE  \A r \in Runs : status[r] \in Terminal => FrozenRow(r)
    BY <1>3 DEF StartInline
  <1>4. ASSUME NEW e \in Executors,
               \/ StartQueuedRun(e) \/ StartReplyLost(e)
               \/ Finish(e) \/ FinishReplyLost(e)
        PROVE  \A r \in Runs : status[r] \in Terminal => FrozenRow(r)
    <2>1. target[e] \in Runs
      BY <1>4, BusyHasTarget
      DEF StartQueuedRun, StartReplyLost, Finish, FinishReplyLost
    <2>2. CASE StartQueuedRun(e) \/ StartReplyLost(e)
      BY <2>1, <2>2 DEF StartQueuedRun, StartReplyLost, CanStartQueuedRun
    <2>3. CASE Finish(e) \/ FinishReplyLost(e)
      BY <2>1, <2>3 DEF Finish, FinishReplyLost, FinishRun, CanFinishRun
    <2>4. QED
      BY <1>4, <2>2, <2>3
  <1>5. ASSUME NEW q \in Runs,
               \/ AbandonedLeaseLapses(q) \/ LeaseLapsesUnderPause(q)
               \/ \E e \in Executors : Claim(e, q)
        PROVE  UNCHANGED runTable
    BY <1>5 DEF AbandonedLeaseLapses, LeaseLapsesUnderPause, Claim
  <1>6. ASSUME NEW e \in Executors, Complete(e)
        PROVE  UNCHANGED runTable
    BY <1>6 DEF Complete
  <1>7. QED
    BY <1>1, <1>2, <1>3, <1>4, <1>5, <1>6, QuietSteps, QuietProcesses
    DEF Next, Advance, Disturb

\* "No worker may change the run lifecycle again" once a run has ended.
THEOREM EndedIsFinal == Spec => EndedRunsStay
  <1>1. IInv /\ [Next]_vars =>
           [\A r \in Runs :
               status[r] \in Terminal =>
                  /\ status'[r] = status[r]
                  /\ errorCode'[r] = errorCode[r]
                  /\ cancelRequested'[r] = cancelRequested[r]
                  /\ outbox'[r] = outbox[r]]_vars
    BY NextFreezesEndedRows DEF FrozenRow
  <1>2. QED
    BY <1>1, InvariantHolds, PTL DEF Spec, EndedRunsStay

-----------------------------------------------------------------------------
(* A run that was cancelled in the queue.                                  *)

\* No goroutine can be handed the run: it waits cancelled, with nobody past
\* reading the flag, or it has ended; and nobody has been handed it before.
Barred(r) ==
    /\ CancelledBeforePickup(r) \/ status[r] \in Terminal
    /\ executions[r] = 0

\* A waiting run has no owner yet, so a cancellation that comes in time bars it.
LEMMA CancelledIsBarred ==
    ASSUME IInv, NEW r \in Runs, CancelledBeforePickup(r)
    PROVE  Barred(r)
  BY DEF IInv, OwnershipOK, CancelledBeforePickup, Barred

\* Only claimAsyncJob sends a goroutine to the compare-and-set, and not for a run
\* whose flag is set: the set of goroutines about to start r does not grow.
LEMMA NoNewStarter ==
    ASSUME IInv, NEW r \in Runs, Next, CancelledBeforePickup(r)
    PROVE  \A e \in Executors : ~(pc'[e] = "start" /\ target'[e] = r)
  <1> DEFINE Clear == \A e \in Executors : ~(pc'[e] = "start" /\ target'[e] = r)
  <1> USE DEF IInv, TypeOK, GoroutinesTypeOK, CancelledBeforePickup
  <1>1. CASE UNCHANGED <<pc, target>>
    BY <1>1
  <1>2. ASSUME NEW e \in Executors, InspectRun(e)
        PROVE  Clear
    BY <1>2 DEF InspectRun, Goto, Conclude, Terminal
  <1>3. ASSUME NEW e \in Executors,
               \/ StartQueuedRun(e) \/ AbandonJob(e) \/ Prepare(e) \/ EndExecution(e)
               \/ Finish(e) \/ Complete(e) \/ StartReplyLost(e) \/ ClaimFails(e)
               \/ ClaimPanics(e) \/ FinishFails(e) \/ FinishReplyLost(e)
               \/ CompleteFails(e)
        PROVE  Clear
    BY <1>3 DEF StartQueuedRun, AbandonJob, Prepare, EndExecution, Finish, Complete,
                StartReplyLost, ClaimFails, ClaimPanics, FinishFails, FinishReplyLost,
                CompleteFails, Goto, Conclude, Release, TakeUp
  <1>4. ASSUME NEW e \in Executors,
               \/ ObserveCancel(e) \/ WatcherFails(e) \/ TimeOut(e) \/ CallerLeaves(e)
               \/ ExtendLease(e) \/ MissHeartbeat(e)
        PROVE  UNCHANGED <<pc, target>>
    BY <1>4 DEF ObserveCancel, WatcherFails, TimeOut, CallerLeaves, ExtendLease,
                MissHeartbeat, CancelContext
  <1>5. ASSUME NEW q \in Runs, NEW e \in Executors, StartInline(e, q) \/ Claim(e, q)
        PROVE  Clear
    BY <1>5 DEF StartInline, Claim, TakeUp
  <1>6. ASSUME NEW q \in Runs,
               \/ EnqueueAsync(q) \/ RequestRunCancel(q)
               \/ AbandonedLeaseLapses(q) \/ LeaseLapsesUnderPause(q)
        PROVE  UNCHANGED <<pc, target>>
    BY <1>6 DEF EnqueueAsync, RequestRunCancel, AbandonedLeaseLapses,
                LeaseLapsesUnderPause, goroutines
  <1>7. ASSUME NEW w \in Workers, Shutdown(w) \/ Exit(w) \/ Crash(w) \/ Restart(w)
        PROVE  Clear
    BY <1>7 DEF Shutdown, Exit, Crash, Restart, Kill, goroutines
  <1>8. QED
    BY <1>1, <1>2, <1>3, <1>4, <1>5, <1>6, <1>7 DEF Next, Advance, Disturb

\* A waiting run leaves the queue into execution through the compare-and-set alone,
\* which needs a goroutine at it; otherwise it stays, or its failure is written.
LEMMA BarredStatus ==
    ASSUME IInv, NEW r \in Runs, Next, CancelledBeforePickup(r), executions[r] = 0
    PROVE  /\ status'[r] \in {"queued"} \cup Terminal
           /\ cancelRequested'[r]
           /\ executions'[r] = 0
  <1> DEFINE Kept == /\ status'[r] \in {"queued"} \cup Terminal
                     /\ cancelRequested'[r]
                     /\ executions'[r] = 0
  <1> USE DEF IInv, TypeOK, RunsTypeOK, CancelledBeforePickup, runTable
  <1>1. CASE UNCHANGED <<runTable, executions>>
    BY <1>1
  <1>2. ASSUME NEW q \in Runs, EnqueueAsync(q) \/ RequestRunCancel(q)
        PROVE  Kept
    BY <1>2 DEF EnqueueAsync, RequestRunCancel
  <1>3. ASSUME NEW q \in Runs, NEW e \in Executors, StartInline(e, q)
        PROVE  Kept
    BY <1>3 DEF StartInline
  <1>4. ASSUME NEW e \in Executors, StartQueuedRun(e) \/ StartReplyLost(e)
        PROVE  Kept
    <2>1. target[e] # r
      BY <1>4 DEF StartQueuedRun, StartReplyLost
    <2>2. QED
      BY <1>4, <2>1 DEF StartQueuedRun, StartReplyLost
  <1>5. ASSUME NEW e \in Executors, Finish(e) \/ FinishReplyLost(e)
        PROVE  Kept
    <2>1. target[e] \in Runs /\ verdict[e] \in Codes
      BY <1>5, BusyHasTarget DEF Finish, FinishReplyLost, GoroutinesTypeOK
    <2>2. StatusFor(verdict[e]) \in Terminal
      BY <2>1, StatusForIsTerminal
    <2>3. QED
      BY <1>5, <2>1, <2>2 DEF Finish, FinishReplyLost, FinishRun
  <1>6. ASSUME NEW q \in Runs,
               \/ AbandonedLeaseLapses(q) \/ LeaseLapsesUnderPause(q)
               \/ \E e \in Executors : Claim(e, q)
        PROVE  UNCHANGED <<runTable, executions>>
    BY <1>6 DEF AbandonedLeaseLapses, LeaseLapsesUnderPause, Claim
  <1>7. ASSUME NEW e \in Executors, Complete(e)
        PROVE  UNCHANGED <<runTable, executions>>
    BY <1>7 DEF Complete
  <1>8. CASE Quiet /\ UNCHANGED <<runTable, jobTable>>
    BY <1>1, <1>8 DEF Quiet
  <1>9. QED
    BY <1>1, <1>2, <1>3, <1>4, <1>5, <1>6, <1>7, <1>8, QuietSteps, QuietProcesses
    DEF Next, Advance, Disturb

\* Ownership of an ended run is not handed out.
LEMMA EndedNotStarted ==
    ASSUME IInv, NEW r \in Runs, Next, status[r] \in Terminal
    PROVE  executions'[r] = executions[r]
  <1> USE DEF IInv, TypeOK
  <1>1. CASE UNCHANGED executions
    BY <1>1
  <1>2. ASSUME NEW q \in Runs, NEW e \in Executors, StartInline(e, q)
        PROVE  executions'[r] = executions[r]
    BY <1>2 DEF StartInline, Terminal
  <1>3. ASSUME NEW e \in Executors, StartQueuedRun(e)
        PROVE  executions'[r] = executions[r]
    <2>1. target[e] \in Runs
      BY <1>3, BusyHasTarget DEF StartQueuedRun
    <2>2. QED
      BY <1>3, <2>1 DEF StartQueuedRun, CanStartQueuedRun, Terminal
  <1>4. ASSUME NEW e \in Executors,
               StartReplyLost(e) \/ Finish(e) \/ FinishReplyLost(e) \/ Complete(e)
        PROVE  UNCHANGED executions
    BY <1>4 DEF StartReplyLost, Finish, FinishReplyLost, Complete
  <1>5. ASSUME NEW q \in Runs,
               \/ EnqueueAsync(q) \/ RequestRunCancel(q)
               \/ AbandonedLeaseLapses(q) \/ LeaseLapsesUnderPause(q)
               \/ \E e \in Executors : Claim(e, q)
        PROVE  UNCHANGED executions
    BY <1>5 DEF EnqueueAsync, RequestRunCancel, AbandonedLeaseLapses,
                LeaseLapsesUnderPause, Claim
  <1>6. CASE Quiet
    BY <1>6 DEF Quiet
  <1>7. QED
    BY <1>1, <1>2, <1>3, <1>4, <1>5, <1>6, QuietSteps, QuietProcesses
    DEF Next, Advance, Disturb

\* Once barred, a run stays barred.
LEMMA BarredIsStable ==
    ASSUME IInv, NEW r \in Runs, Barred(r), [Next]_vars
    PROVE  Barred(r)'
  <1>1. CASE UNCHANGED vars
    BY <1>1 DEF vars, runTable, goroutines, Barred, CancelledBeforePickup
  <1>2. CASE Next /\ CancelledBeforePickup(r)
    BY <1>2, NoNewStarter, BarredStatus DEF Barred, CancelledBeforePickup
  <1>3. CASE Next /\ status[r] \in Terminal
    BY <1>3, EndedNotStarted, NextFreezesEndedRows DEF Barred, FrozenRow
  <1>4. QED
    BY <1>1, <1>2, <1>3 DEF Barred

\* claimAsyncJob honours a cancellation that comes before the pickup: for good.
THEOREM CancelledInQueueStaysOut == Spec => CancelledInQueueNeverExecutes
  <1>1. ASSUME NEW r \in Runs
        PROVE  Spec => [](CancelledBeforePickup(r) => [](executions[r] = 0))
    <2>1. IInv /\ CancelledBeforePickup(r) => Barred(r)
      BY CancelledIsBarred
    <2>2. IInv /\ Barred(r) /\ [Next]_vars => Barred(r)'
      BY BarredIsStable
    <2>3. Barred(r) => executions[r] = 0
      BY DEF Barred
    <2>4. QED
      BY <2>1, <2>2, <2>3, InvariantHolds, PTL DEF Spec
  <1>2. QED
    BY <1>1 DEF CancelledInQueueNeverExecutes
=============================================================================
