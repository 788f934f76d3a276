--------------------------- MODULE AgentLoopProofs ---------------------------
(***************************************************************************)
(* Proofs about AgentLoop for any number of iterations, calls, retries and *)
(* tools, and any thresholds of the loop detector.                         *)
(***************************************************************************)
EXTENDS AgentLoop, SequenceTheorems, TLAPS

-----------------------------------------------------------------------------
(* The inductive invariant.                                                *)

\* Calls are only executed, and the model only asked again, when an iteration is left.
IterationOK == stage \in {"next", "tools"} => iteration < limit

\* Accepted calls fit in the budget together.
BudgetOK ==
    /\ total <= MaxToolCalls
    /\ stage = "tools" => /\ pending # << >>
                          /\ total + Len(pending) <= MaxToolCalls

\* After a forced final answer was asked for, no request offers tools.
ForcedOK == forceFinal => stage # "tools" /\ (stage = "model" => final)

\* The retries in a row, counted in blocks between two empty answers.
WastedOK == wasted <= toolRetries + (MaxToolRetries + 1) * emptyRetries

\* The thresholds of the detector are reached by the run's last step only.
CountsOK ==
    /\ \A p \in Calls \X Results : /\ seen[p] <= Threshold
                                   /\ stage # "ended" => seen[p] < Threshold
    /\ \A p \in Tools \X Results : /\ results[p] <= StopSame
                                   /\ stage # "ended" => results[p] < StopSame

\* What the detector has signalled: sent to the model, or scheduled for the next request.
Signalled == scheduled \cup warned

\* Whoever is about to be stopped has been signalled.
WarnedOK ==
    stage # "ended" =>
        /\ \A c \in Calls, r \in Results :
              seen[<<c, r>>] = Threshold - 1 => <<ToolOf[c], r>> \in Signalled
        /\ \A p \in Tools \X Results : results[p] >= WarnSame => p \in Signalled

\* A request takes along everything that was scheduled.
SentOK == stage = "model" => scheduled = {}

IInv ==
    /\ TypeOK
    /\ IterationOK
    /\ BudgetOK
    /\ ForcedOK
    /\ WastedOK
    /\ CountsOK
    /\ WarnedOK
    /\ SentOK

-----------------------------------------------------------------------------
(* The steps, by what they touch.                                          *)

\* Steps that leave the calls and the detector alone, and send what is scheduled or not.
Quiet ==
    \/ Cancel \/ BeginIteration \/ FailStep \/ EndCancelled \/ Succeed
    \/ \E a \in Answers : OnAnswer(a)

LEMMA QuietSteps ==
    ASSUME Quiet
    PROVE  /\ UNCHANGED <<limit, hasTools, total, seen, results>>
           /\ \/ UNCHANGED warnings
              \/ scheduled' = {} /\ warned' = Signalled
           /\ stage # "ended"
  <1> DEFINE Q == /\ UNCHANGED <<limit, hasTools, total, seen, results, scheduled, warned>>
                  /\ stage # "ended"
  <1>1. CASE Cancel
    BY <1>1 DEF Cancel, detector, warnings
  <1>2. CASE BeginIteration
    BY <1>2 DEF BeginIteration, Untouched, detector, Signalled
  <1>3. CASE FailStep \/ EndCancelled \/ Succeed
    BY <1>3 DEF FailStep, EndCancelled, Succeed, Decide, Untouched, detector, warnings
  <1>4. ASSUME NEW a \in Answers, OnAnswer(a)
        PROVE  Q
    <2>1. CASE RejectCalls(a) \/ GiveUpOnCalls(a) \/ GiveUpOnSilence(a) \/ RejectIDs(a)
      BY <2>1 DEF RejectCalls, GiveUpOnCalls, GiveUpOnSilence, RejectIDs, Decide, Untouched,
                  detector, warnings, Arrives
    <2>2. CASE RetryCalls(a) \/ RetrySilence(a)
      BY <2>2 DEF RetryCalls, RetrySilence, Again, Untouched, detector, warnings, Arrives
    <2>3. CASE ForceFinal(a) \/ AcceptCalls(a) \/ Reply(a)
      BY <2>3 DEF ForceFinal, AcceptCalls, Reply, Accepted, Untouched, detector, warnings,
                  Arrives
    <2>4. QED
      BY <1>4, <2>1, <2>2, <2>3 DEF OnAnswer
  <1>5. QED
    BY <1>1, <1>2, <1>3, <1>4 DEF Quiet, warnings

\* What has been signalled stays so, and is of the right type.
LEMMA QuietWarnings ==
    ASSUME IInv, Quiet
    PROVE  /\ Signalled' = Signalled
           /\ scheduled' \in SUBSET (Tools \X Results)
           /\ warned' \in SUBSET (Tools \X Results)
           /\ SentOK'
  <1>1. \/ UNCHANGED warnings
        \/ scheduled' = {} /\ warned' = Signalled
    BY QuietSteps
  <1>2. /\ Signalled' = Signalled
        /\ scheduled' \in SUBSET (Tools \X Results)
        /\ warned' \in SUBSET (Tools \X Results)
    BY <1>1 DEF Signalled, warnings, IInv, TypeOK
  <1>3. ASSUME stage' = "model"
        PROVE  scheduled' = {}
    <2>1. CASE BeginIteration
      BY <2>1 DEF BeginIteration
    <2>2. CASE Cancel
      BY <1>3, <2>2 DEF Cancel, warnings, IInv, SentOK
    <2>3. CASE FailStep \/ EndCancelled \/ Succeed
      BY <1>3, <2>3 DEF FailStep, EndCancelled, Succeed, Decide, End
    <2>4. ASSUME NEW a \in Answers, OnAnswer(a)
          PROVE  FALSE
      <3>1. CASE RejectCalls(a) \/ GiveUpOnCalls(a) \/ GiveUpOnSilence(a) \/ RejectIDs(a)
        BY <1>3, <3>1 DEF RejectCalls, GiveUpOnCalls, GiveUpOnSilence, RejectIDs, Decide, End
      <3>2. CASE \/ RetryCalls(a) \/ RetrySilence(a)
                 \/ ForceFinal(a) \/ AcceptCalls(a) \/ Reply(a)
        BY <1>3, <3>2 DEF RetryCalls, RetrySilence, Again, ForceFinal, AcceptCalls, Reply
      <3>3. QED
        BY <2>4, <3>1, <3>2 DEF OnAnswer
    <2>5. QED
      BY <2>1, <2>2, <2>3, <2>4 DEF Quiet
  <1>4. QED
    BY <1>2, <1>3 DEF SentOK

\* The steps of an executed call: one count of each kind goes up by one.
LEMMA ExecuteSteps ==
    ASSUME TypeOK, BudgetOK, NEW r \in Results, ExecuteTool(r) \/ DetectLoop(r)
    PROVE  LET c == Head(pending)
               p == <<c, r>>
               q == <<ToolOf[c], r>>
           IN  /\ stage = "tools"
               /\ c \in Calls /\ p \in Calls \X Results /\ q \in Tools \X Results
               /\ seen' = [seen EXCEPT ![p] = seen[p] + 1]
               /\ results' = [results EXCEPT ![q] = results[q] + 1]
               /\ total' = total + 1
               /\ pending' = Tail(pending)
               /\ UNCHANGED <<limit, hasTools, iteration, final, forceFinal, toolRetries,
                              emptyRetries, wrapUp, urgent, cancelled, visible, wasted>>
               /\ \/ /\ ~Critical(seen[p] + 1, results[q] + 1)
                     /\ scheduled' = IF Warning(seen[p] + 1, results[q] + 1)
                                     THEN scheduled \cup {q} ELSE scheduled
                     /\ warned' = warned
                     /\ stage' = IF Tail(pending) = << >> THEN "next" ELSE "tools"
                     /\ outcome' = outcome
                  \/ /\ Critical(seen[p] + 1, results[q] + 1)
                     /\ UNCHANGED warnings
                     /\ stage' = "ended"
                     /\ outcome' = "loop_detected"
  <1> DEFINE c == Head(pending)
             p == <<c, r>>
             q == <<ToolOf[c], r>>
  <1>1. stage = "tools" /\ pending # << >> /\ pending \in Seq(Calls)
    BY DEF ExecuteTool, DetectLoop, Execute, TypeOK, BudgetOK
  <1>2. c \in Calls
    BY <1>1
  <1>3. p \in Calls \X Results /\ q \in Tools \X Results
    BY <1>2, AgentLoopAssumption DEF AgentLoopAssumption
  <1>4. /\ total' = total + 1
        /\ pending' = Tail(pending)
        /\ UNCHANGED <<limit, hasTools, iteration, final, forceFinal, toolRetries,
                       emptyRetries, wrapUp, urgent, cancelled, visible, wasted>>
    BY DEF ExecuteTool, DetectLoop, Execute, Untouched, policy
  <1>5. \E goesOn \in BOOLEAN :
           /\ Observe(c, r, goesOn)
           /\ \/ /\ goesOn
                 /\ stage' = IF Tail(pending) = << >> THEN "next" ELSE "tools"
                 /\ outcome' = outcome
              \/ /\ ~goesOn
                 /\ stage' = "ended"
                 /\ outcome' = "loop_detected"
    BY DEF ExecuteTool, DetectLoop, End
  <1>6. /\ [seen EXCEPT ![p] = seen[p] + 1][p] = seen[p] + 1
        /\ [results EXCEPT ![q] = results[q] + 1][q] = results[q] + 1
    BY <1>3 DEF TypeOK
  <1>7. QED
    BY <1>1, <1>2, <1>3, <1>4, <1>5, <1>6 DEF Observe, warnings

LEMMA AnswerCalls ==
    ASSUME NEW a \in Answers
    PROVE  a.calls \in Seq(Calls) /\ Len(a.calls) \in Nat
  <1>1. PICK n \in 0 .. MaxBatch : a.calls \in [1 .. n -> Calls]
    BY DEF Answers
  <1>2. n \in Nat
    BY AgentLoopAssumption DEF AgentLoopAssumption
  <1>3. a.calls \in Seq(Calls)
    BY <1>1, <1>2, SeqDef
  <1>4. QED
    BY <1>3, LenProperties

-----------------------------------------------------------------------------
LEMMA InitOK == Init => IInv
  <1> SUFFICES ASSUME Init
               PROVE  IInv
    OBVIOUS
  <1>1. TypeOK
    <2>1. /\ iteration \in 0 .. limit
          /\ toolRetries \in 0 .. MaxToolRetries
          /\ emptyRetries \in 0 .. MaxEmptyRetries
          /\ seen \in [Calls \X Results -> Nat]
          /\ results \in [Tools \X Results -> Nat]
          /\ total \in Nat /\ wasted \in Nat
      BY AgentLoopAssumption DEF Init, AgentLoopAssumption
    <2>2. pending \in Seq(Calls)
      BY DEF Init
    <2>3. {hasTools, final, forceFinal, wrapUp, urgent, cancelled, visible} \subseteq BOOLEAN
      BY DEF Init
    <2>4. QED
      BY <2>1, <2>2, <2>3 DEF Init, TypeOK, Stages
  <1>2. IterationOK /\ BudgetOK /\ ForcedOK
    BY AgentLoopAssumption
    DEF Init, IterationOK, BudgetOK, ForcedOK, AgentLoopAssumption
  <1>3. WastedOK
    BY AgentLoopAssumption DEF Init, WastedOK, AgentLoopAssumption
  <1>4. CountsOK /\ WarnedOK /\ SentOK
    BY AgentLoopAssumption DEF Init, CountsOK, WarnedOK, SentOK, AgentLoopAssumption
  <1>5. QED
    BY <1>1, <1>2, <1>3, <1>4 DEF IInv

\* Types: what the quiet steps write.
LEMMA TypeQuiet ==
    ASSUME IInv, Quiet
    PROVE  TypeOK'
  <1>1. /\ UNCHANGED <<limit, hasTools, total, seen, results>>
        /\ scheduled' \in SUBSET (Tools \X Results)
        /\ warned' \in SUBSET (Tools \X Results)
    BY QuietSteps, QuietWarnings
  <1> USE AgentLoopAssumption DEF AgentLoopAssumption, IInv, TypeOK, Stages, Failures
  <1>2. CASE Cancel
    BY <1>1, <1>2 DEF Cancel, policy
  <1>3. CASE BeginIteration
    <2>1. final' \in BOOLEAN
      BY <1>3 DEF BeginIteration, OutOfBudget
    <2>2. urgent' \in BOOLEAN /\ wrapUp' \in BOOLEAN
      BY <1>3 DEF BeginIteration
    <2>3. /\ iteration' \in 0 .. limit /\ stage' = "model"
          /\ UNCHANGED <<forceFinal, toolRetries, emptyRetries, pending, outcome, visible,
                         wasted, cancelled>>
      BY <1>3 DEF BeginIteration, Untouched
    <2>4. QED
      BY <1>1, <2>1, <2>2, <2>3
  <1>4. CASE FailStep \/ EndCancelled \/ Succeed
    BY <1>1, <1>4 DEF FailStep, EndCancelled, Succeed, Decide, End, Untouched, policy
  <1>5. ASSUME NEW a \in Answers, OnAnswer(a)
        PROVE  TypeOK'
    <2>1. CASE RejectCalls(a) \/ GiveUpOnCalls(a) \/ GiveUpOnSilence(a) \/ RejectIDs(a)
      BY <1>1, <2>1 DEF RejectCalls, GiveUpOnCalls, GiveUpOnSilence, RejectIDs, Decide, End,
                        Untouched, policy
    <2>2. CASE RetryCalls(a)
      <3>1. toolRetries' \in 0 .. MaxToolRetries /\ wasted' \in Nat
        BY <2>2 DEF RetryCalls, MayRetry
      <3>2. /\ stage' = "next"
            /\ UNCHANGED <<iteration, final, forceFinal, emptyRetries, wrapUp, urgent, pending,
                           outcome, visible, cancelled>>
        BY <2>2 DEF RetryCalls, Again, Untouched
      <3>3. QED
        BY <1>1, <3>1, <3>2
    <2>3. CASE RetrySilence(a)
      BY <1>1, <2>3 DEF RetrySilence, Again, MayRetry, Untouched
    <2>4. CASE ForceFinal(a)
      BY <1>1, <2>4 DEF ForceFinal, Accepted, Untouched
    <2>5. CASE AcceptCalls(a)
      <3>1. a.calls \in Seq(Calls)
        BY AnswerCalls
      <3>2. QED
        BY <1>1, <2>5, <3>1 DEF AcceptCalls, Accepted, Untouched
    <2>6. CASE Reply(a)
      <3>1. a.text \in BOOLEAN
        BY DEF Answers
      <3>2. QED
        BY <1>1, <2>6, <3>1 DEF Reply, Accepted, Untouched
    <2>7. QED
      BY <1>5, <2>1, <2>2, <2>3, <2>4, <2>5, <2>6 DEF OnAnswer
  <1>6. QED
    BY <1>2, <1>3, <1>4, <1>5 DEF Quiet

\* The order of the loop: when an iteration may begin or calls be executed.
LEMMA ControlQuiet ==
    ASSUME IInv, Quiet
    PROVE  IterationOK' /\ BudgetOK' /\ ForcedOK'
  <1>1. UNCHANGED <<limit, total>>
    BY QuietSteps
  <1> USE AgentLoopAssumption
      DEF AgentLoopAssumption, IInv, TypeOK, IterationOK, BudgetOK, ForcedOK
  <1>2. CASE Cancel
    BY <1>1, <1>2 DEF Cancel, policy
  <1>3. CASE BeginIteration
    BY <1>1, <1>3 DEF BeginIteration, OutOfBudget
  <1>4. CASE FailStep \/ EndCancelled \/ Succeed
    BY <1>1, <1>4 DEF FailStep, EndCancelled, Succeed, Decide, End
  <1>5. ASSUME NEW a \in Answers, OnAnswer(a)
        PROVE  IterationOK' /\ BudgetOK' /\ ForcedOK'
    <2>1. CASE RejectCalls(a) \/ GiveUpOnCalls(a) \/ GiveUpOnSilence(a) \/ RejectIDs(a)
      BY <1>1, <2>1 DEF RejectCalls, GiveUpOnCalls, GiveUpOnSilence, RejectIDs, Decide, End
    <2>2. CASE RetryCalls(a) \/ RetrySilence(a)
      BY <1>1, <2>2 DEF RetryCalls, RetrySilence, Again, MayRetry
    <2>3. CASE ForceFinal(a)
      BY <1>1, <2>3 DEF ForceFinal, Accepted, OutOfPlace, Arrives
    <2>4. CASE AcceptCalls(a)
      <3>1. a.calls \in Seq(Calls) /\ Len(a.calls) \in Nat
        BY AnswerCalls
      <3>2. iteration < limit /\ ~forceFinal
        BY <2>4 DEF AcceptCalls, Accepted, OutOfPlace, Arrives
      <3>3. QED
        BY <1>1, <2>4, <3>1, <3>2 DEF AcceptCalls, Exceeds, Calling
    <2>5. CASE Reply(a)
      BY <1>1, <2>5 DEF Reply
    <2>6. QED
      BY <1>5, <2>1, <2>2, <2>3, <2>4, <2>5 DEF OnAnswer
  <1>6. QED
    BY <1>2, <1>3, <1>4, <1>5 DEF Quiet

\* The retries: an empty answer closes a block of at most MaxToolRetries + 1.
LEMMA WastedQuiet ==
    ASSUME IInv, Quiet
    PROVE  WastedOK'
  <1> USE AgentLoopAssumption DEF AgentLoopAssumption, IInv, TypeOK, WastedOK
  <1>1. CASE Cancel
    BY <1>1 DEF Cancel, policy
  <1>2. CASE BeginIteration \/ FailStep \/ EndCancelled \/ Succeed
    BY <1>2 DEF BeginIteration, FailStep, EndCancelled, Succeed, Decide, policy
  <1>3. ASSUME NEW a \in Answers, OnAnswer(a)
        PROVE  WastedOK'
    <2>1. CASE RejectCalls(a) \/ GiveUpOnCalls(a) \/ GiveUpOnSilence(a) \/ RejectIDs(a)
      BY <2>1 DEF RejectCalls, GiveUpOnCalls, GiveUpOnSilence, RejectIDs, Decide, policy
    <2>2. CASE RetryCalls(a)
      BY <2>2 DEF RetryCalls
    <2>3. CASE RetrySilence(a)
      <3>1. (MaxToolRetries + 1) * (emptyRetries + 1)
              = (MaxToolRetries + 1) * emptyRetries + MaxToolRetries + 1
        OBVIOUS
      <3>2. QED
        BY <2>3, <3>1 DEF RetrySilence
    <2>4. CASE ForceFinal(a) \/ AcceptCalls(a) \/ Reply(a)
      BY <2>4 DEF ForceFinal, AcceptCalls, Reply, Accepted
    <2>5. QED
      BY <1>3, <2>1, <2>2, <2>3, <2>4 DEF OnAnswer
  <1>4. QED
    BY <1>1, <1>2, <1>3 DEF Quiet

LEMMA QuietOK ==
    ASSUME IInv, Quiet
    PROVE  IInv'
  <1>1. CountsOK' /\ WarnedOK'
    <2>1. /\ UNCHANGED <<seen, results>>
          /\ Signalled' = Signalled
          /\ stage # "ended"
      BY QuietSteps, QuietWarnings
    <2>2. QED
      BY <2>1 DEF IInv, CountsOK, WarnedOK
  <1>2. QED
    BY <1>1, QuietWarnings, TypeQuiet, ControlQuiet, WastedQuiet DEF IInv

LEMMA ExecuteOK ==
    ASSUME IInv, NEW r \in Results, ExecuteTool(r) \/ DetectLoop(r)
    PROVE  IInv'
  <1> DEFINE p == <<Head(pending), r>>
             q == <<ToolOf[Head(pending)], r>>
  <1>1. /\ stage = "tools"
        /\ Head(pending) \in Calls /\ p \in Calls \X Results /\ q \in Tools \X Results
        /\ seen' = [seen EXCEPT ![p] = seen[p] + 1]
        /\ results' = [results EXCEPT ![q] = results[q] + 1]
        /\ total' = total + 1
        /\ pending' = Tail(pending)
        /\ UNCHANGED <<limit, hasTools, iteration, final, forceFinal, toolRetries,
                       emptyRetries, wrapUp, urgent, cancelled, visible, wasted>>
    BY ExecuteSteps DEF IInv
  <1>2. \/ /\ ~Critical(seen[p] + 1, results[q] + 1)
           /\ scheduled' = IF Warning(seen[p] + 1, results[q] + 1)
                           THEN scheduled \cup {q} ELSE scheduled
           /\ warned' = warned
           /\ stage' = IF Tail(pending) = << >> THEN "next" ELSE "tools"
           /\ outcome' = outcome
        \/ /\ Critical(seen[p] + 1, results[q] + 1)
           /\ UNCHANGED warnings
           /\ stage' = "ended"
           /\ outcome' = "loop_detected"
    BY ExecuteSteps DEF IInv
  <1>3. /\ Tail(pending) \in Seq(Calls)
        /\ Len(pending) \in Nat /\ Len(Tail(pending)) = Len(pending) - 1
        /\ Tail(pending) # << >> => Len(pending) > 1
    <2>1. pending \in Seq(Calls) /\ pending # << >>
      BY <1>1 DEF IInv, TypeOK, BudgetOK
    <2>2. Tail(pending) \in Seq(Calls) /\ Len(Tail(pending)) = Len(pending) - 1
      BY <2>1, HeadTailProperties
    <2>3. Len(pending) \in Nat /\ Len(Tail(pending)) \in Nat
      BY <2>1, <2>2, LenProperties
    <2>4. Tail(pending) # << >> => Len(Tail(pending)) # 0
      BY <2>2, EmptySeq
    <2>5. QED
      BY <2>2, <2>3, <2>4
  <1>4. TypeOK'
    BY <1>1, <1>2, <1>3 DEF IInv, TypeOK, Stages, Failures, warnings
  <1>5. IterationOK' /\ BudgetOK' /\ ForcedOK' /\ WastedOK'
    <2>1. MaxToolCalls \in Nat /\ total \in Nat
      BY AgentLoopAssumption DEF AgentLoopAssumption, IInv, TypeOK
    <2>2. BudgetOK'
      BY <1>1, <1>2, <1>3, <2>1 DEF IInv, BudgetOK
    <2>3. IterationOK' /\ ForcedOK'
      BY <1>1, <1>2 DEF IInv, IterationOK, ForcedOK
    <2>4. WastedOK'
      BY <1>1 DEF IInv, WastedOK
    <2>5. QED
      BY <2>2, <2>3, <2>4
  <1>6. /\ seen[p] \in Nat /\ seen[p] < Threshold
        /\ results[q] \in Nat /\ results[q] < StopSame
        /\ \A x \in Calls \X Results : seen'[x] = IF x = p THEN seen[p] + 1 ELSE seen[x]
        /\ \A x \in Tools \X Results : results'[x] = IF x = q THEN results[q] + 1 ELSE results[x]
    BY <1>1 DEF IInv, TypeOK, CountsOK
  <1>7. CountsOK'
    <2>1. Threshold \in Nat /\ StopSame \in Nat
      BY AgentLoopAssumption DEF AgentLoopAssumption
    <2>2. ASSUME NEW x \in Calls \X Results
          PROVE  seen'[x] <= Threshold /\ (stage' # "ended" => seen'[x] < Threshold)
      BY <1>1, <1>2, <1>6, <2>1 DEF IInv, CountsOK, Critical
    <2>3. ASSUME NEW x \in Tools \X Results
          PROVE  results'[x] <= StopSame /\ (stage' # "ended" => results'[x] < StopSame)
      BY <1>1, <1>2, <1>6, <2>1 DEF IInv, CountsOK, Critical
    <2>4. QED
      BY <2>2, <2>3 DEF CountsOK
  <1>8. WarnedOK'
    <2> SUFFICES ASSUME stage' # "ended"
                 PROVE  WarnedOK'
      BY DEF WarnedOK
    <2>1. Signalled' = IF Warning(seen[p] + 1, results[q] + 1)
                       THEN Signalled \cup {q} ELSE Signalled
      <3> DEFINE W == Warning(seen[p] + 1, results[q] + 1)
      <3>1. scheduled' = (IF W THEN scheduled \cup {q} ELSE scheduled) /\ warned' = warned
        BY <1>2
      <3>2. CASE W
        BY <3>1, <3>2 DEF Signalled
      <3>3. CASE ~W
        BY <3>1, <3>3 DEF Signalled
      <3>4. QED
        BY <3>2, <3>3
    <2>2. ASSUME NEW c \in Calls, NEW s \in Results, seen'[<<c, s>>] = Threshold - 1
          PROVE  <<ToolOf[c], s>> \in Signalled'
      <3>1. <<c, s>> \in Calls \X Results
        OBVIOUS
      <3>2. CASE <<c, s>> = p
        <4>1. q = <<ToolOf[c], s>> /\ seen[p] + 1 = Threshold - 1
          BY <1>1, <1>6, <2>2, <3>2
        <4>2. QED
          BY <2>1, <4>1 DEF Warning
      <3>3. CASE <<c, s>> # p
        <4>1. seen[<<c, s>>] = Threshold - 1
          BY <1>6, <2>2, <3>1, <3>3
        <4>2. <<ToolOf[c], s>> \in Signalled
          BY <1>1, <4>1 DEF IInv, WarnedOK
        <4>3. QED
          BY <2>1, <4>2
      <3>4. QED
        BY <3>2, <3>3
    <2>3. ASSUME NEW x \in Tools \X Results, results'[x] >= WarnSame
          PROVE  x \in Signalled'
      <3>1. CASE x # q
        BY <1>1, <1>6, <2>1, <2>3, <3>1 DEF IInv, WarnedOK
      <3>2. CASE x = q
        <4>1. results[q] >= WarnSame \/ results[q] + 1 = WarnSame
          BY <1>6, <2>3, <3>2, AgentLoopAssumption DEF AgentLoopAssumption
        <4>2. CASE results[q] >= WarnSame
          BY <1>1, <2>1, <3>2, <4>2 DEF IInv, WarnedOK
        <4>3. CASE results[q] + 1 = WarnSame
          BY <2>1, <3>2, <4>3 DEF Warning
        <4>4. QED
          BY <4>1, <4>2, <4>3
      <3>3. QED
        BY <3>1, <3>2
    <2>4. QED
      BY <2>2, <2>3 DEF WarnedOK
  <1>9. SentOK'
    BY <1>2 DEF SentOK
  <1>10. QED
    BY <1>4, <1>5, <1>7, <1>8, <1>9 DEF IInv

LEMMA NextOK ==
    ASSUME IInv, [Next]_vars
    PROVE  IInv'
  <1>1. CASE UNCHANGED vars
    BY <1>1 DEF IInv, TypeOK, IterationOK, BudgetOK, ForcedOK, WastedOK, CountsOK, WarnedOK,
                Signalled, SentOK, vars, policy, detector, warnings
  <1>2. CASE Quiet
    BY <1>2, QuietOK
  <1>3. CASE \E r \in Results : ExecuteTool(r) \/ DetectLoop(r)
    BY <1>3, ExecuteOK
  <1>4. QED
    BY <1>1, <1>2, <1>3 DEF Next, Quiet

THEOREM Invariant == Spec => []IInv
  <1>1. IInv /\ [Next]_vars => IInv'
    BY NextOK
  <1>2. QED
    BY InitOK, <1>1, PTL DEF Spec

-----------------------------------------------------------------------------
(* What follows from it.                                                   *)

\* Types.
THEOREM TypeCorrect == Spec => []TypeOK
  <1>1. IInv => TypeOK
    BY DEF IInv
  <1>2. QED
    BY Invariant, <1>1, PTL

\* The budget of calls and both thresholds of the loop detector are kept, however the
\* calls are spread over the answers.
THEOREM LimitsAreKept == Spec => []LimitsHold
  <1>1. IInv => LimitsHold
    BY DEF IInv, BudgetOK, CountsOK, LimitsHold
  <1>2. QED
    BY Invariant, <1>1, PTL

\* The loop never runs out of iterations without having decided.
THEOREM LastDecides == Spec => []LastIterationDecides
  <1>1. IInv => LastIterationDecides
    BY DEF IInv, IterationOK, LastIterationDecides
  <1>2. QED
    BY Invariant, <1>1, PTL

\* A bound on the retries in a row, whichever way the two kinds alternate.
THEOREM RetriesAreBounded == Spec => []WastedIsBounded
  <1>1. ASSUME IInv
        PROVE  WastedIsBounded
    <2>1. /\ wasted \in Nat /\ toolRetries \in Nat /\ emptyRetries \in Nat
          /\ MaxToolRetries \in Nat /\ MaxEmptyRetries \in Nat
          /\ toolRetries <= MaxToolRetries /\ emptyRetries <= MaxEmptyRetries
      BY <1>1, AgentLoopAssumption DEF IInv, TypeOK, AgentLoopAssumption
    <2>2. (MaxToolRetries + 1) * emptyRetries <= (MaxToolRetries + 1) * MaxEmptyRetries
      BY <2>1
    <2>3. wasted <= toolRetries + (MaxToolRetries + 1) * emptyRetries
      BY <1>1 DEF IInv, WastedOK
    <2>4. QED
      BY <2>1, <2>2, <2>3 DEF WastedIsBounded
  <1>2. QED
    BY Invariant, <1>1, PTL

\* Once the final answer is forced no tool is executed.
THEOREM ForcedStays == Spec => NoToolsOnceForced
  <1>1. IInv /\ [Next]_vars => [forceFinal => total' = total]_vars
    <2> SUFFICES ASSUME IInv, [Next]_vars
                 PROVE  forceFinal => total' = total
      OBVIOUS
    <2>1. CASE UNCHANGED vars
      BY <2>1 DEF vars
    <2>2. CASE Quiet
      BY <2>2, QuietSteps
    <2>3. CASE \E r \in Results : ExecuteTool(r) \/ DetectLoop(r)
      BY <2>3 DEF IInv, ForcedOK, ExecuteTool, DetectLoop, Execute
    <2>4. QED
      BY <2>1, <2>2, <2>3 DEF Next, Quiet
  <1>2. QED
    BY Invariant, <1>1, PTL DEF Spec, NoToolsOnceForced

\* No request leaves without the warnings that are due.
THEOREM RequestsWarn == Spec => []AskedInformed
  <1>1. ASSUME IInv, stage = "model"
        PROVE  /\ \A c \in Calls, r \in Results :
                     seen[<<c, r>>] >= Threshold - 1 => <<ToolOf[c], r>> \in warned
               /\ \A p \in Tools \X Results : results[p] >= WarnSame => p \in warned
    <2>1. Signalled = warned
      BY <1>1 DEF IInv, SentOK, Signalled
    <2>2. ASSUME NEW c \in Calls, NEW r \in Results, seen[<<c, r>>] >= Threshold - 1
          PROVE  <<ToolOf[c], r>> \in warned
      <3>1. seen[<<c, r>>] \in Nat /\ seen[<<c, r>>] < Threshold /\ Threshold \in Nat
        BY <1>1, AgentLoopAssumption DEF AgentLoopAssumption, IInv, TypeOK, CountsOK
      <3>2. seen[<<c, r>>] = Threshold - 1
        BY <2>2, <3>1
      <3>3. QED
        BY <1>1, <2>1, <3>2 DEF IInv, WarnedOK
    <2>3. QED
      BY <1>1, <2>1, <2>2 DEF IInv, WarnedOK
  <1>2. IInv => AskedInformed
    BY <1>1 DEF AskedInformed
  <1>3. QED
    BY Invariant, <1>2, PTL

-----------------------------------------------------------------------------
(* The loop ends.                                                          *)

LEMMA StepsLeftNat ==
    ASSUME IInv
    PROVE  StepsLeft \in Nat /\ (stage # "ended" => StepsLeft > 0)
  <1>1. /\ limit \in Nat /\ iteration \in Nat /\ iteration <= limit
        /\ total \in Nat /\ MaxToolCalls \in Nat /\ total <= MaxToolCalls
    BY AgentLoopAssumption DEF AgentLoopAssumption, IInv, TypeOK, BudgetOK
  <1>2. QED
    BY <1>1 DEF StepsLeft

\* Each step goes down: an iteration is worth more than the steps it takes, an executed
\* call its place in the budget.
LEMMA StepsLeftFalls ==
    ASSUME IInv, Next
    PROVE  StepsLeft' < StepsLeft
  <1>1. /\ limit \in Nat /\ iteration \in Nat /\ iteration <= limit
        /\ total \in Nat /\ MaxToolCalls \in Nat /\ total <= MaxToolCalls
    BY AgentLoopAssumption DEF AgentLoopAssumption, IInv, TypeOK, BudgetOK
  <1>2. ASSUME stage # "ended", stage' = "ended"
        PROVE  StepsLeft' < StepsLeft
    BY <1>2, StepsLeftNat DEF StepsLeft
  <1> USE DEF StepsLeft
  <1>3. CASE Cancel
    BY <1>1, <1>3 DEF Cancel, IInv, TypeOK
  <1>4. CASE BeginIteration
    <2>1. /\ stage = "next" /\ stage' = "model" /\ iteration' = iteration + 1
          /\ UNCHANGED <<limit, total, cancelled>> /\ iteration < limit
      BY <1>1, <1>4 DEF BeginIteration, Untouched
    <2>2. QED
      BY <1>1, <2>1
  <1>5. CASE FailStep \/ EndCancelled \/ Succeed
    BY <1>2, <1>5 DEF FailStep, EndCancelled, Succeed, Decide, End
  <1>6. ASSUME NEW a \in Answers, OnAnswer(a)
        PROVE  StepsLeft' < StepsLeft
    <2>1. CASE RejectCalls(a) \/ GiveUpOnCalls(a) \/ GiveUpOnSilence(a) \/ RejectIDs(a)
      BY <1>2, <2>1 DEF RejectCalls, GiveUpOnCalls, GiveUpOnSilence, RejectIDs, Decide, End,
                        Arrives
    <2>2. CASE \/ RetryCalls(a) \/ RetrySilence(a)
               \/ ForceFinal(a) \/ AcceptCalls(a) \/ Reply(a)
      <3>1. /\ stage = "model" /\ stage' \in {"next", "tools", "replied"}
            /\ UNCHANGED <<limit, iteration, total, cancelled>>
        BY <2>2 DEF RetryCalls, RetrySilence, Again, ForceFinal, AcceptCalls, Reply, Accepted,
                    Arrives, Untouched
      <3>2. QED
        BY <1>1, <3>1
    <2>3. QED
      BY <1>6, <2>1, <2>2 DEF OnAnswer
  <1>7. ASSUME NEW r \in Results, ExecuteTool(r) \/ DetectLoop(r)
        PROVE  StepsLeft' < StepsLeft
    <2>1. /\ stage = "tools" /\ total' = total + 1
          /\ UNCHANGED <<limit, iteration, cancelled>>
          /\ stage' \in {"next", "tools", "ended"}
      BY <1>7, ExecuteSteps DEF IInv
    <2>2. QED
      BY <1>1, <1>2, <2>1
  <1>8. QED
    BY <1>3, <1>4, <1>5, <1>6, <1>7 DEF Next

\* Every step of a run takes something from a number that is never negative, so the loop
\* stops after at most 3 * limit + MaxToolCalls + 2 steps.
THEOREM LoopEnds == Spec => [](StepsLeft \in Nat) /\ EveryStepCounts
  <1>1. IInv => StepsLeft \in Nat
    BY StepsLeftNat
  <1>2. IInv /\ [Next]_vars => [StepsLeft' < StepsLeft]_vars
    BY StepsLeftFalls
  <1>3. QED
    BY <1>1, <1>2, Invariant, PTL DEF Spec, EveryStepCounts
=============================================================================
