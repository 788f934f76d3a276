------------------------------ MODULE AgentLoop ------------------------------
(***************************************************************************)
(* What an executor does with a run between its start and its finish: the  *)
(* loop of run_engine_iteration.go, which asks the model, judges its       *)
(* answer (run_engine_policy.go, tool_calls.go), runs the tools it calls   *)
(* one after another and has the loop detector watch their results         *)
(* (domain/loop_detector.go).  The context the request is built from is    *)
(* module ContextMemory; here it fits or fails the run.                    *)
(*                                                                         *)
(* An answer is what the loop tells apart: the calls in it, whether they   *)
(* are cut off or lack arguments, whether their identifiers can be         *)
(* repaired, and whether there is text to show.  Of the instructions to    *)
(* the model, those that announce the end of the iterations and the loop   *)
(* detector's warnings are kept.                                           *)
(***************************************************************************)
EXTENDS Naturals, Sequences

CONSTANTS
    Tools,          \* names the model may call
    Calls,          \* calls up to the order of the keys of their arguments
    ToolOf,         \* the tool of each call
    Results,        \* what tools return: content, error and truncation
    Limits,         \* values of an agent's MaxIterations
    MaxBatch,       \* bound on the calls of one answer
    MaxToolCalls,   \* maxToolCallsPerRun
    MaxToolRetries, \* maxToolResponseRetries
    MaxEmptyRetries,\* maxEmptyReplyRetries
    Threshold,      \* of the loop detector, for a call and its result
    WarnSame,       \* sameResultWarningThreshold
    StopSame        \* sameResultCriticalThreshold

ASSUME AgentLoopAssumption ==
    /\ ToolOf \in [Calls -> Tools]
    /\ Limits \subseteq Nat \ {0}
    /\ {MaxBatch, MaxToolCalls, MaxToolRetries, MaxEmptyRetries} \subseteq Nat
    /\ Threshold \in Nat /\ Threshold > 1
    /\ WarnSame \in Nat /\ StopSame \in Nat /\ 0 < WarnSame /\ WarnSame < StopSame

VARIABLES
    limit,       \* agent.MaxIterations
    hasTools,    \* tools.Specs() is not empty
    stage,       \* what the executor does
    iteration,
    final,       \* the request under way offers no tools
    forceFinal,
    toolRetries, \* toolResponseRetries
    emptyRetries,\* emptyReplyRetries
    wrapUp,      \* wrapUpSent
    urgent,      \* urgentWrapUpSent
    pending,     \* the calls of the last answer that are still to be executed
    total,       \* totalToolCalls
    seen,        \* LoopDetector.seen: how often a call had a result
    results,     \* LoopDetector.results: how often a tool had one, for any arguments
    cancelled,   \* execCtx has ended
    outcome,     \* "none", "succeeded" or the code of a RunFailure
    visible,     \* Output has text
    scheduled,   \* nextContext: the tools and results the next request warns of
    (* history *)
    warned,      \* those that a request sent to the model warned of
    wasted       \* answers asked for again, one directly after the other

policy   == <<forceFinal, toolRetries, emptyRetries, wrapUp, urgent>>
detector == <<seen, results>>
warnings == <<scheduled, warned>>
vars     == <<limit, hasTools, stage, iteration, final, policy, pending, total, detector,
            cancelled, outcome, visible, warnings, wasted>>

\* "next": before an iteration; "model": the model has been asked; "tools": there are
\* calls to execute; "replied": iterate has returned without a failure.
Stages == {"next", "model", "tools", "replied", "ended"}

Failures == {"max_iterations_reached", "validation_failed", "loop_detected",
             "run_cancelled", "provider", "context_limit_exceeded", "internal"}

(* An answer of the model.  bad: toolCallsNeedRetry, if there are calls; repairable:
   normalizeToolCallIDs succeeds. *)
Answers == [calls : UNION {[1 .. n -> Calls] : n \in 0 .. MaxBatch},
            bad : BOOLEAN, repairable : BOOLEAN, text : BOOLEAN]

TypeOK ==
    /\ limit \in Limits
    /\ stage \in Stages
    /\ iteration \in 0 .. limit
    /\ {hasTools, final, forceFinal, wrapUp, urgent, cancelled, visible} \subseteq BOOLEAN
    /\ toolRetries \in 0 .. MaxToolRetries
    /\ emptyRetries \in 0 .. MaxEmptyRetries
    /\ pending \in Seq(Calls)
    /\ total \in Nat
    /\ seen \in [Calls \X Results -> Nat]
    /\ results \in [Tools \X Results -> Nat]
    /\ outcome \in Failures \cup {"none", "succeeded"}
    /\ {scheduled, warned} \subseteq SUBSET (Tools \X Results)
    /\ wasted \in Nat

Init ==
    /\ limit \in Limits
    /\ hasTools \in BOOLEAN
    /\ stage = "next"
    /\ iteration = 0
    /\ final = FALSE
    /\ forceFinal = FALSE
    /\ toolRetries = 0 /\ emptyRetries = 0
    /\ wrapUp = FALSE /\ urgent = FALSE
    /\ pending = << >>
    /\ total = 0
    /\ seen = [p \in Calls \X Results |-> 0]
    /\ results = [p \in Tools \X Results |-> 0]
    /\ cancelled = FALSE
    /\ outcome = "none"
    /\ visible = FALSE
    /\ scheduled = {} /\ warned = {}
    /\ wasted = 0

-----------------------------------------------------------------------------
End(code) == stage' = "ended" /\ outcome' = code

(* execCtx ends at any time: the caller is gone, cancellation was asked for, or the
   time is up. *)
Cancel ==
    /\ ~cancelled /\ stage # "ended"
    /\ cancelled' = TRUE
    /\ UNCHANGED <<limit, hasTools, stage, iteration, final, policy, pending, total,
                   detector, outcome, visible, warnings, wasted>>

Untouched == UNCHANGED <<limit, hasTools, cancelled>>

\* Mutant of OutOfBudget: a run that was told to answer now is asked as before.
OutOfCalls == total >= MaxToolCalls

OutOfBudget == forceFinal \/ total >= MaxToolCalls

UrgentNow(i) == i * 100 >= limit * 90

WrapUpNow(i) == i * 100 >= limit * 70

(* The head of the loop and prepareRequest, with iterationBudgetInstruction: what was
   scheduled since the last request, by calls of several answers or by one, is sent. *)
BeginIteration ==
    LET i == iteration + 1
        last == OutOfBudget \/ (hasTools /\ i = limit)
        announces == hasTools /\ ~last
    IN  /\ stage = "next" /\ ~cancelled
        /\ i <= limit
        /\ iteration' = i
        /\ final' = last
        /\ urgent' = (urgent \/ (announces /\ UrgentNow(i)))
        /\ wrapUp' = (wrapUp \/ (announces /\ WrapUpNow(i) /\ (urgent \/ ~UrgentNow(i))))
        /\ warned' = warned \cup scheduled
        /\ scheduled' = {}
        /\ stage' = "model"
        /\ Untouched
        /\ UNCHANGED <<forceFinal, toolRetries, emptyRetries, pending, total, detector,
                       outcome, visible, wasted>>

\* The request does not fit the model's context (before it is sent), the call fails, or
\* a statement, a span or an identifier does: the run fails with a code of its own.
FailStep ==
    /\ stage \in {"next", "model", "tools"}
    /\ \E code \in {"context_limit_exceeded", "provider", "internal"} :
          /\ code # "internal" => stage = "model" /\ ~cancelled
          /\ End(code)
    /\ Untouched
    /\ UNCHANGED <<iteration, final, policy, pending, total, detector, visible, warnings, wasted>>

\* ctx.Err() before an iteration, after a call of the model, before a tool, and once
\* more after the loop, where the answer is thrown away.
EndCancelled ==
    /\ stage # "ended" /\ cancelled
    /\ End("run_cancelled")
    /\ Untouched
    /\ UNCHANGED <<iteration, final, policy, pending, total, detector, visible, warnings, wasted>>

-----------------------------------------------------------------------------
(* The answer arrives, execCtx has not ended.                              *)

Arrives == stage = "model" /\ ~cancelled

Calling(a) == a.calls # << >>

\* An answer with calls to a request that offered no tools, or in the last iteration.
OutOfPlace(a) == (iteration = limit \/ final) /\ Calling(a)

Malformed(a) == Calling(a) /\ a.bad
Empty(a)     == ~Calling(a) /\ ~a.text

\* Mutant of MayRetry: the iterations that are left are not asked about.
MayRetryOften(used, max) == used < max

\* Another: one time too often.
MayRetryMore(used, max) == iteration < limit /\ used <= max

\* inspectResponse asks again only if an iteration is left for the answer.
MayRetry(used, max) == iteration < limit /\ used < max

\* The answer decides the run.
Decide(code) ==
    /\ End(code)
    /\ Untouched
    /\ UNCHANGED <<iteration, final, policy, pending, total, detector, visible, warnings, wasted>>

RejectCalls(a) == Arrives /\ OutOfPlace(a) /\ Decide("max_iterations_reached")

GiveUpOnCalls(a) ==
    /\ Arrives /\ ~OutOfPlace(a) /\ Malformed(a)
    /\ ~MayRetry(toolRetries, MaxToolRetries)
    /\ Decide("validation_failed")

GiveUpOnSilence(a) ==
    /\ Arrives /\ Empty(a)
    /\ ~MayRetry(emptyRetries, MaxEmptyRetries)
    /\ Decide("validation_failed")

\* normalizeToolCallIDs: an identifier that is missing, or repeated where the
\* provider's metadata forbids to rewrite it.
RejectIDs(a) ==
    /\ Arrives /\ ~OutOfPlace(a) /\ Calling(a) /\ ~a.bad
    /\ ~a.repairable
    /\ Decide("validation_failed")

\* Mutant of Again: an answer that is asked for again does not use up its iteration.
AgainUncounted == stage' = "next" /\ iteration' = iteration - 1
                  /\ UNCHANGED <<final, pending, total, detector, outcome, visible, warnings>>
                  /\ Untouched

Again == stage' = "next" /\ UNCHANGED <<iteration, final, pending, total, detector, outcome,
                                        visible, warnings>> /\ Untouched

\* Mutant of RetryCalls: it starts the count of empty answers over.
RetryCallsResetting(a) ==
    /\ Arrives /\ ~OutOfPlace(a) /\ Malformed(a)
    /\ MayRetry(toolRetries, MaxToolRetries)
    /\ toolRetries' = toolRetries + 1
    /\ emptyRetries' = 0
    /\ wasted' = wasted + 1
    /\ UNCHANGED <<forceFinal, wrapUp, urgent>>
    /\ Again

\* scheduleRetry: the answer is not stored and its calls are not executed.
RetryCalls(a) ==
    /\ Arrives /\ ~OutOfPlace(a) /\ Malformed(a)
    /\ MayRetry(toolRetries, MaxToolRetries)
    /\ toolRetries' = toolRetries + 1
    /\ wasted' = wasted + 1
    /\ UNCHANGED <<forceFinal, emptyRetries, wrapUp, urgent>>
    /\ Again

RetrySilence(a) ==
    /\ Arrives /\ Empty(a)
    /\ MayRetry(emptyRetries, MaxEmptyRetries)
    /\ emptyRetries' = emptyRetries + 1
    /\ toolRetries' = 0
    /\ wasted' = wasted + 1
    /\ UNCHANGED <<forceFinal, wrapUp, urgent>>
    /\ Again

\* inspectResponse has no objection, and starts its counts over.
Accepted(a) ==
    /\ Arrives /\ ~OutOfPlace(a)
    /\ ~Malformed(a) /\ ~Empty(a)
    /\ Calling(a) => a.repairable
    /\ toolRetries' = 0 /\ emptyRetries' = 0
    /\ wasted' = 0
    /\ UNCHANGED <<wrapUp, urgent>>

\* Mutant of Exceeds: the calls of the answer are not counted.
ExceedsAlready(a) == total > MaxToolCalls

Exceeds(a) == total + Len(a.calls) > MaxToolCalls

\* None of the calls is executed; the model is asked to answer without.
ForceFinal(a) ==
    /\ Accepted(a) /\ Calling(a) /\ Exceeds(a)
    /\ forceFinal' = TRUE
    /\ stage' = "next"
    /\ Untouched
    /\ UNCHANGED <<iteration, final, pending, total, detector, outcome, visible, warnings>>

\* appendAssistant, with the calls.
AcceptCalls(a) ==
    /\ Accepted(a) /\ Calling(a) /\ ~Exceeds(a)
    /\ pending' = a.calls
    /\ stage' = "tools"
    /\ Untouched
    /\ UNCHANGED <<iteration, final, forceFinal, total, detector, outcome, visible, warnings>>

\* appendAssistant, and the text is the output of the run.
Reply(a) ==
    /\ Accepted(a) /\ ~Calling(a)
    /\ visible' = a.text
    /\ stage' = "replied"
    /\ Untouched
    /\ UNCHANGED <<iteration, final, forceFinal, pending, total, detector, outcome, warnings>>

\* executeStarted: execCtx has not ended when iterate returned.
Succeed ==
    /\ stage = "replied" /\ ~cancelled
    /\ Decide("succeeded")

-----------------------------------------------------------------------------
(* executeTool and ObserveProgress.  A warning is text for the next request:  *)
(* the calls that follow in the same answer are executed before it is sent.  *)

\* Mutant of Critical: one time too late.
CriticalLate(repeated, same) == repeated > Threshold \/ same > StopSame

Critical(repeated, same) == repeated >= Threshold \/ same >= StopSame

\* Mutant of Warning: only a result that comes back is warned of.
WarningSame(repeated, same) == same = WarnSame

Warning(repeated, same) == repeated = Threshold - 1 \/ same = WarnSame

Observe(c, r, goesOn) ==
    LET counts == [seen EXCEPT ![<<c, r>>] = @ + 1]
        alike  == [results EXCEPT ![<<ToolOf[c], r>>] = @ + 1]
        repeated == counts[<<c, r>>]
        same == alike[<<ToolOf[c], r>>]
    IN  /\ seen' = counts /\ results' = alike
        /\ goesOn <=> ~Critical(repeated, same)
        /\ scheduled' = IF goesOn /\ Warning(repeated, same)
                        THEN scheduled \cup {<<ToolOf[c], r>>} ELSE scheduled
        /\ warned' = warned

Execute(r) ==
    /\ stage = "tools" /\ ~cancelled
    /\ total' = total + 1
    /\ pending' = Tail(pending)
    /\ Untouched
    /\ UNCHANGED <<iteration, final, policy, visible, wasted>>

\* The result is stored; the next call, or the next iteration.
ExecuteTool(r) ==
    /\ Execute(r)
    /\ Observe(Head(pending), r, TRUE)
    /\ stage' = IF Tail(pending) = << >> THEN "next" ELSE "tools"
    /\ UNCHANGED outcome

\* The result is stored and the run fails; the calls that follow get no result.
DetectLoop(r) ==
    /\ Execute(r)
    /\ Observe(Head(pending), r, FALSE)
    /\ End("loop_detected")

-----------------------------------------------------------------------------
OnAnswer(a) ==
    \/ RejectCalls(a) \/ GiveUpOnCalls(a) \/ GiveUpOnSilence(a) \/ RejectIDs(a)
    \/ RetryCalls(a) \/ RetrySilence(a) \/ ForceFinal(a) \/ AcceptCalls(a) \/ Reply(a)

Next ==
    \/ Cancel \/ BeginIteration \/ FailStep \/ EndCancelled \/ Succeed
    \/ \E a \in Answers : OnAnswer(a)
    \/ \E r \in Results : ExecuteTool(r) \/ DetectLoop(r)

Spec == Init /\ [][Next]_vars

-----------------------------------------------------------------------------
(* Properties.                                                             *)

(* A run executes at most maxToolCallsPerRun calls, though an answer asks for several
   at once; and no call goes on being executed that keeps having one result, nor a tool
   that keeps having one result for changing arguments. *)
LimitsHold ==
    /\ total <= MaxToolCalls
    /\ \A p \in Calls \X Results : seen[p] <= Threshold
    /\ \A p \in Tools \X Results : results[p] <= StopSame

(* Once an answer asked for more calls than the budget has left, no tool is executed
   any more, whatever the model answers in the iterations that follow. *)
NoToolsOnceForced == [][forceFinal => total' = total]_vars

(* A further iteration is only ever asked for when one is left: the return after the
   loop, which has no answer to show for the last one, is never reached. *)
LastIterationDecides == stage = "next" => iteration < limit

(* Retries for bad calls and for empty answers are counted apart and start each other's
   count over, but a model that alternates between them is asked again only so often. *)
WastedIsBounded ==
    wasted <= MaxToolRetries + (MaxToolRetries + 1) * MaxEmptyRetries

(* The model is never asked again in ignorance: each request was preceded by, or carries,
   a warning of every tool and result that has reached a warning threshold, though
   the warnings arise one by one between the calls of an answer and nextContext is sent
   once, whether the request offers tools, is a retry or forces the final answer.  It does
   not say that a stop was announced: the calls of one answer may go from the warning
   threshold to the stop while the warning waits for a request that never comes. *)
AskedInformed ==
    stage = "model" =>
        /\ \A c \in Calls, r \in Results :
              seen[<<c, r>>] >= Threshold - 1 => <<ToolOf[c], r>> \in warned
        /\ \A p \in Tools \X Results : results[p] >= WarnSame => p \in warned

\* What is left of the run: three steps for each iteration left, one for each call in the
\* budget, those of the iteration under way, and the end of its context.
StepsLeft ==
    IF stage = "ended" THEN 0
    ELSE 3 * (limit - iteration) + (MaxToolCalls - total)
         + (CASE stage = "model" -> 3 [] stage = "tools" -> 2 [] OTHER -> 1)
         + (IF cancelled THEN 0 ELSE 1)

(* The loop ends by itself: whatever the model answers and the tools return, each step,
   a retry or a forced final answer too, uses up something of the run's limits. *)
EveryStepCounts == [][StepsLeft' < StepsLeft]_vars
=============================================================================
