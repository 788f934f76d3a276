---------------------------- MODULE ContextMemory ----------------------------
(***************************************************************************)
(* The memory of a conversation: the transcript of a session, the context  *)
(* snapshots that summarise a prefix of it, and the executors that read    *)
(* both before they ask the model and compact what does not fit            *)
(* (context_memory.go, history_builder.go, context_summary.go).            *)
(*                                                                         *)
(* A session has one active run at a time, but an executor whose run was   *)
(* ended by another worker does not know it and goes on: it appends to the *)
(* transcript, and may compact, beside the executor of the next run.       *)
(*                                                                         *)
(* Messages are their place in the transcript; a summary is the set of     *)
(* messages it was made from.  What is read is kept in units, but not      *)
(* every message of a unit is replayed to the model.  Sizes are abstracted *)
(* away: whether a request is over its budget is a free choice, so is what *)
(* pruning old tool results and a summary save.                            *)
(***************************************************************************)
EXTENDS Integers, Sequences, FiniteSets

CONSTANTS
    MaxRuns,         \* bound on the runs after the stored history
    PastRuns,        \* the runs of the stored history, all of them over
    Histories,       \* bound: what the transcript may hold before
    MaxMessages,     \* bound on the transcript
    MaxCalls,        \* bound on the calls of one answer
    PageSize,        \* ContextPageSize
    KeptResults,     \* recentToolMessagesKept
    MaxSummaryCalls, \* maxSummaryCallsPerRun
    SummaryAttempts  \* summaryAttempts

Runs == 1 .. MaxRuns

(* calls is the number of tool calls of an assistant's message; shared that other messages
   call by the same identifier, which the provider's metadata forbids to rewrite.  All
   other identifiers are unique, or made so by historyToolCallIDs. *)
MessagesOf(runs) ==
    {m \in [run : runs, role : {"user", "assistant", "tool"}, calls : 0 .. MaxCalls,
            shared : BOOLEAN] :
        /\ m.role # "assistant" => m.calls = 0
        /\ m.calls = 0 => ~m.shared}

Messages == MessagesOf(PastRuns \cup Runs)

ASSUME ContextMemoryAssumption ==
    /\ MaxRuns \in Nat /\ MaxMessages \in Nat /\ MaxCalls \in Nat
    /\ \A p \in PastRuns : p \in Int /\ p <= 0
    /\ Histories \subseteq Seq(MessagesOf(PastRuns))
    /\ PageSize \in Nat /\ PageSize > MaxCalls
    /\ KeptResults \in Nat \ {0}
    /\ MaxSummaryCalls \in Nat \ {0} /\ SummaryAttempts \in Nat \ {0}

VARIABLES
    transcript, \* messages, in the order of seq, which is that of their commits
    snapshots,  \* session_context_snapshots, in the order of version
    active,     \* the run that is queued or running, 0 if there is none
    executor,   \* the executionState of each run
    replayed    \* the messages of its units, which history repeats to the model

vars == <<transcript, snapshots, active, executor, replayed>>

Stored == Len(transcript)

(* A snapshot; knows is what its summary was made from, late that it covers a message of
   its writer's own run, which the writer had never read. *)
Snapshots == [covered : 1 .. Stored, knows : SUBSET (1 .. Stored), late : BOOLEAN]

(* "accepted": nothing read yet; "paging": pages are left; "compacting": the page read
   last is being fitted; "asking": the context is complete; "summarised": a summary is
   to be written; "conflict": another one was; "answered"; "over". *)
Stages == {"none", "accepted", "paging", "compacting", "asking", "summarised", "conflict",
           "answered", "over"}

(* The contextUnits in an executor's memory by the messages they stand for, in the order
   of seq: kept are all of these, heads the first of each unit; a unit ends before the
   next one. *)
Executors ==
    [stage : Stages, loaded : BOOLEAN, after : 0 .. Stored, held : 0 .. Len(snapshots),
     kept : SUBSET (1 .. Stored), heads : SUBSET (1 .. Stored),
     protected : 0 .. Stored, open : 0 .. MaxCalls,
     cut : 0 .. Stored, calls : 0 .. MaxSummaryCalls, failed : BOOLEAN]

TypeOK ==
    /\ transcript \in Seq(Messages)
    /\ snapshots \in Seq(Snapshots)
    /\ active \in 0 .. MaxRuns
    /\ executor \in [Runs -> Executors]
    /\ replayed \in [Runs -> SUBSET (1 .. Stored)]

Idle == [stage |-> "none", loaded |-> FALSE, after |-> 0, held |-> 0, kept |-> {},
         heads |-> {}, protected |-> 0, open |-> 0, cut |-> 0, calls |-> 0, failed |-> FALSE]

Init ==
    /\ transcript \in Histories
    /\ snapshots = << >>
    /\ active = 0
    /\ executor = [r \in Runs |-> Idle]
    /\ replayed = [r \in Runs |-> {}]

-----------------------------------------------------------------------------
(* Units and pages.                                                        *)

Role(i)       == transcript[i].role
Calling(i)    == transcript[i].calls > 0
SameRun(i, j) == transcript[i].run = transcript[j].run

\* The message at i is a result of the calls of the message at a, none of which is before
\* first: buildContextUnits takes the results that follow an assistant's calls at once.
Answers(i, a) ==
    /\ a < i
    /\ Calling(a)
    /\ \A j \in a + 1 .. i : Role(j) = "tool"

Continues(i, first) == \E a \in first .. i - 1 : Answers(i, a)

(* buildContextUnits of the messages from first to last: the first of each unit.  A result
   that follows no call makes a unit of its own. *)
BuildUnits(first, last) == {i \in first .. last : ~Continues(i, first)}

\* historyToolCallIDs: an identifier is already among those seen, and stays as it is.
Unsafe(i, seen) == transcript[i].shared /\ \E j \in seen : j < i /\ transcript[j].shared

\* Mutant of Replayed: a result is taken to answer the calls it follows.
ReplayedByPlace(first, last, before) ==
    LET seen == before \cup first .. last
    IN  {i \in first .. last :
            IF Role(i) = "tool"
            THEN \E a \in first .. i - 1 : Answers(i, a) /\ ~Unsafe(a, seen)
            ELSE ~Unsafe(i, seen)}

(* The messages of these units, before are those of the units read earlier: no orphaned
   result, none among those of another run, no calls that are unsafe nor their results
   (their text, if any, is repeated without the calls, which does not count here). *)
Replayed(first, last, before) ==
    LET seen == before \cup first .. last
    IN  {i \in first .. last :
            IF Role(i) = "tool"
            THEN \E a \in first .. i - 1 : Answers(i, a) /\ SameRun(i, a) /\ ~Unsafe(a, seen)
            ELSE ~Unsafe(i, seen)}

SameUnit(e, i, j) == \A h \in e.heads : h <= i \/ j < h

\* The throughSeq of the units.
Ends(e) == {c \in e.kept : \A i \in e.kept : c < i => ~SameUnit(e, c, i)}

\* Whether the messages after seq fit one page.
Fits(seq) == Stored - seq <= PageSize

\* Mutant of SafeMessagePageCut: the page is cut where it is full.
FullPageCut(first, last) == last = first + PageSize - 1

(* safeMessagePageCut, for a page that starts at first and is not the last one: it ends
   before the last message that is no result. *)
SafeMessagePageCut(first, last) ==
    /\ last < first + PageSize
    /\ Role(last + 1) # "tool"
    /\ \A i \in last + 2 .. first + PageSize : Role(i) = "tool"

Covered(version) == IF version = 0 THEN 0 ELSE snapshots[version].covered
Known(version)   == IF version = 0 THEN {} ELSE snapshots[version].knows

Own(r) == {i \in 1 .. Stored : transcript[i].run = r}

\* The first message of the run among those read, 0 if there is none.
OwnFirst(r, first, last) ==
    LET own == Own(r) \cap first .. last
    IN  IF own = {} THEN 0 ELSE CHOOSE i \in own : \A j \in own : i <= j

\* Mutant of Compactable: the tail alone is spared.
CompactableButTail(e) == Cardinality(Ends(e)) - 1

(* compactOldestContext: all but the last unit, or the units before the run's own. *)
Compactable(e) ==
    IF e.protected = 0 THEN Cardinality(Ends(e)) - 1
    ELSE Cardinality({c \in Ends(e) : c < e.protected})

\* A number of units, halved any number of times.
Halves(n) == {h \in 1 .. n : \E k \in 0 .. n : h = n \div 2 ^ k}

\* Mutant of DropCovered: a unit that reaches one message further goes as well.
DropCoveredAndNext(e, covered) ==
    {i \in e.kept : \E j \in e.kept : i <= j /\ SameUnit(e, i, j) /\ covered + 1 < j}

\* dropCoveredUnits: a unit that is not covered to its end is kept whole.
DropCovered(e, covered) ==
    {i \in e.kept : \E j \in e.kept : i <= j /\ SameUnit(e, i, j) /\ covered < j}

-----------------------------------------------------------------------------
(* Runs of the session: RunStart and RunQueue.                             *)

Message(r, role, n, x) == [run |-> r, role |-> role, calls |-> n, shared |-> x]

Move(r, e)   == executor' = [executor EXCEPT ![r] = e]
Repeat(r, s) == replayed' = [replayed EXCEPT ![r] = s]

\* The transaction of start stores the question and the run.
AcceptRun(r) ==
    /\ active = 0
    /\ executor[r].stage = "none"
    /\ \A q \in 1 .. r - 1 : executor[q].stage # "none"
    /\ Stored < MaxMessages
    /\ active' = r
    /\ transcript' = Append(transcript, Message(r, "user", 0, FALSE))
    /\ Move(r, [executor[r] EXCEPT !.stage = "accepted"])
    /\ UNCHANGED <<snapshots, replayed>>

\* Another worker ends the run, whose executor is not told.
ReplaceRun ==
    /\ active # 0
    /\ active' = 0
    /\ UNCHANGED <<transcript, snapshots, executor, replayed>>

\* The executor ends its run, for any reason; it forgets what it held.
Stop(r) ==
    /\ executor[r].stage \notin {"none", "over"}
    /\ active' = IF active = r THEN 0 ELSE active
    /\ Move(r, [Idle EXCEPT !.stage = "over"])
    /\ Repeat(r, {})
    /\ UNCHANGED <<transcript, snapshots>>

-----------------------------------------------------------------------------
(* loadContext.                                                            *)

LoadSnapshot(r) ==
    /\ executor[r].stage = "accepted"
    /\ Move(r, [executor[r] EXCEPT !.stage = "paging", !.held = Len(snapshots),
                                   !.after = Covered(Len(snapshots))])
    /\ UNCHANGED <<transcript, snapshots, active, replayed>>

\* A page that is cut down to nothing fails the run, as by Stop.  None is empty: the run's
\* own question is stored, and no summary reaches the last message.
ReadPage(r) ==
    LET e == executor[r]
        first == e.after + 1
    IN  /\ e.stage = "paging"
        /\ \E last \in first .. Stored :
              /\ IF Fits(e.after) THEN last = Stored ELSE SafeMessagePageCut(first, last)
              /\ Move(r, [e EXCEPT !.stage = "compacting",
                                   !.loaded = Fits(e.after),
                                   !.after = last,
                                   !.protected = IF @ = 0 THEN OwnFirst(r, first, last) ELSE @,
                                   !.kept = @ \cup first .. last,
                                   !.heads = @ \cup BuildUnits(first, last)])
              /\ Repeat(r, replayed[r] \cup Replayed(first, last, replayed[r]))
        /\ UNCHANGED <<transcript, snapshots, active>>

\* The messages read so far fit, or the last page was read.
NextPage(r) ==
    LET e == executor[r]
    IN  /\ e.stage = "compacting"
        /\ Move(r, [e EXCEPT !.stage = IF e.loaded THEN "asking" ELSE "paging",
                             !.after = IF @ < Covered(e.held) THEN Covered(e.held) ELSE @])
        /\ UNCHANGED <<transcript, snapshots, active, replayed>>

-----------------------------------------------------------------------------
(* compactOldestContext, while pages are read and before the model is asked. *)

MayCompact(e) ==
    /\ e.stage \in {"compacting", "asking"}
    /\ e.open = 0
    /\ ~e.failed
    /\ Compactable(e) > 0
    /\ e.calls < MaxSummaryCalls

\* Mutant of Affordable: only the first attempt is counted.
AffordableOnce(e, n) == e.calls < MaxSummaryCalls

\* Every attempt counts.
Affordable(e, n) == e.calls + n <= MaxSummaryCalls

\* Up to SummaryAttempts calls of the model, each of which may cut the segment in half.
Summarise(r) ==
    LET e == executor[r]
    IN  /\ MayCompact(e)
        /\ \E c \in Ends(e), n \in 1 .. SummaryAttempts :
              /\ Cardinality({d \in Ends(e) : d <= c}) \in Halves((Compactable(e) + 1) \div 2)
              /\ Affordable(e, n)
              /\ Move(r, [e EXCEPT !.stage = "summarised", !.cut = c, !.calls = @ + n])
        /\ UNCHANGED <<transcript, snapshots, active, replayed>>

\* The request is assessed again, or the next page read.
Back(e) == IF e.loaded THEN "asking" ELSE "compacting"

\* No attempt gave a summary: the run does not try again.
FailSummary(r) ==
    LET e == executor[r]
    IN  /\ MayCompact(e)
        /\ \E n \in 0 .. SummaryAttempts :
              /\ Affordable(e, n)
              /\ Move(r, [e EXCEPT !.failed = TRUE, !.calls = @ + n])
        /\ UNCHANGED <<transcript, snapshots, active, replayed>>

Segment(e) == {i \in e.kept : i <= e.cut}

\* CreateContextSnapshotCAS inserts a row: the version read is the latest one still, and
\* more is covered than before.
WriteSnapshot(r) ==
    LET e == executor[r]
    IN  /\ e.stage = "summarised"
        /\ Len(snapshots) = e.held
        /\ Covered(Len(snapshots)) < e.cut
        /\ snapshots' = Append(snapshots,
              [covered |-> e.cut, knows |-> Known(e.held) \cup (Segment(e) \cap replayed[r]),
               late |-> e.protected = 0 /\ \E i \in Own(r) : i <= e.cut])
        /\ Move(r, [e EXCEPT !.stage = Back(e), !.held = @ + 1, !.cut = 0,
                             !.kept = @ \ Segment(e), !.heads = @ \ Segment(e)])
        /\ Repeat(r, replayed[r] \ Segment(e))
        /\ UNCHANGED <<transcript, active>>

\* It inserts none.
LoseSnapshot(r) ==
    LET e == executor[r]
    IN  /\ e.stage = "summarised"
        /\ Len(snapshots) # e.held \/ Covered(Len(snapshots)) >= e.cut
        /\ Move(r, [e EXCEPT !.stage = "conflict"])
        /\ UNCHANGED <<transcript, snapshots, active, replayed>>

\* The latest snapshot takes the place of the one that was lost, if it covers as much.
AdoptSnapshot(r) ==
    LET e == executor[r]
    IN  /\ e.stage = "conflict"
        /\ Covered(Len(snapshots)) >= e.cut
        /\ Move(r, [e EXCEPT !.stage = Back(e), !.held = Len(snapshots), !.cut = 0,
                             !.kept = DropCovered(e, Covered(Len(snapshots))),
                             !.heads = @ \cap DropCovered(e, Covered(Len(snapshots)))])
        /\ Repeat(r, replayed[r] \cap DropCovered(e, Covered(Len(snapshots))))
        /\ UNCHANGED <<transcript, snapshots, active>>

\* A statement fails, or the latest snapshot covers less.
GiveUpSnapshot(r) ==
    LET e == executor[r]
    IN  /\ e.stage \in {"summarised", "conflict"}
        /\ Move(r, [e EXCEPT !.stage = Back(e), !.failed = TRUE, !.cut = 0])
        /\ UNCHANGED <<transcript, snapshots, active, replayed>>

-----------------------------------------------------------------------------
(* The loop of the agent appends to the transcript and to its own units.   *)

Asking(r) == executor[r].stage = "asking" /\ executor[r].open = 0

\* normalizeToolCallIDs rejects, rather than rewrite, an identifier that is shared with a
\* message of history.
AppendAssistant(r, n, x) ==
    LET e == executor[r]
        seq == Stored + 1
    IN  /\ Asking(r)
        /\ x => n > 0 /\ \A i \in replayed[r] : ~transcript[i].shared
        /\ seq <= MaxMessages
        /\ transcript' = Append(transcript, Message(r, "assistant", n, x))
        /\ Move(r, [e EXCEPT !.kept = @ \cup {seq},
                             !.heads = @ \cup {seq},
                             !.open = n,
                             !.stage = IF n = 0 THEN "answered" ELSE @])
        /\ Repeat(r, replayed[r] \cup {seq})
        /\ UNCHANGED <<snapshots, active>>

AppendTool(r) ==
    LET e == executor[r]
        seq == Stored + 1
    IN  /\ e.stage = "asking" /\ e.open > 0
        /\ seq <= MaxMessages
        /\ transcript' = Append(transcript, Message(r, "tool", 0, FALSE))
        /\ Move(r, [e EXCEPT !.kept = @ \cup {seq}, !.open = @ - 1])
        /\ Repeat(r, replayed[r] \cup {seq})
        /\ UNCHANGED <<snapshots, active>>

-----------------------------------------------------------------------------
Compact(r) ==
    \/ Summarise(r) \/ FailSummary(r) \/ WriteSnapshot(r) \/ LoseSnapshot(r)
    \/ AdoptSnapshot(r) \/ GiveUpSnapshot(r)

Next ==
    \/ ReplaceRun
    \/ \E r \in Runs :
          \/ AcceptRun(r) \/ Stop(r)
          \/ LoadSnapshot(r) \/ ReadPage(r) \/ NextPage(r)
          \/ Compact(r)
          \/ AppendTool(r)
          \/ \E n \in 0 .. MaxCalls, x \in BOOLEAN : AppendAssistant(r, n, x)

Spec == Init /\ [][Next]_vars

-----------------------------------------------------------------------------
(* Properties.  They speak of the run the session has, when it asks the model.  An
   executor that was replaced before it read anything may find its own question
   summarised already, with nothing left to protect it may cover its own messages:
   once one did, nothing is claimed.                                       *)

LateWriter == \E v \in DOMAIN snapshots : snapshots[v].late

InScope(r) == active = r /\ Asking(r) /\ ~LateWriter

\* What buildContextUnits leaves out of every context: calls whose identifier an earlier
\* message uses, and results that follow no calls of their own run but such.
Repeats(i) == transcript[i].shared /\ \E j \in 1 .. i - 1 : transcript[j].shared

Unreplayable(i) ==
    IF Role(i) = "tool"
    THEN \A a \in 1 .. i - 1 : Answers(i, a) /\ SameRun(i, a) => Repeats(a)
    ELSE Repeats(i)

(* The model is told every message of the conversation up to the end of what was read,
   once: in the summary, which was made from it, or by a message of its own, in which a
   placeholder may stand for an old result (LatestResultsInFull).  The transcript alone
   decides which are left out: no page, no checkpoint and no other executor adds to
   these. *)
ContextIsWhole ==
    \A r \in Runs : InScope(r) =>
        LET e == executor[r]
        IN  /\ \A i \in 1 .. e.after :
                  i \in Known(e.held) \/ i \in replayed[r] \/ Unreplayable(i)
            /\ Known(e.held) \cap replayed[r] = {}

(* The question of the run, and whatever came after it, is never summarised: it is
   repeated as it is, whatever else the transcript got in between. *)
OwnQuestionKept == \A r \in Runs : InScope(r) => Own(r) \subseteq replayed[r]

\* The calls a result belongs to: the last ones of its run.
ResultOf(i, a) ==
    /\ a < i /\ Role(i) = "tool" /\ Calling(a) /\ SameRun(i, a)
    /\ \A j \in a + 1 .. i - 1 : SameRun(j, a) => ~Calling(j)

(* No page, no checkpoint and no conflict separates the results of tools from the calls
   they answer: what was read of an exchange is in the context in full or not at all, and
   the model is never sent a result without the calls it belongs to. *)
ExchangesStayWhole ==
    \A r \in Runs : InScope(r) =>
        /\ \A a, i \in 1 .. executor[r].after : Answers(i, a) =>
              /\ a \in executor[r].kept <=> i \in executor[r].kept
              /\ SameRun(i, a) => (a \in replayed[r] <=> i \in replayed[r])
        /\ \A i \in replayed[r] :
              Role(i) = "tool" => \E a \in replayed[r] : ResultOf(i, a)

\* Mutant of PrunedResults: results are counted, not the messages they share.
PrunedOneByOne(s) ==
    {i \in s : Role(i) = "tool" /\ Cardinality({j \in s : i < j /\ Role(j) = "tool"}) >= KeptResults}

(* pruneOldToolResults: results that a request over its budget has a placeholder for.  The
   results of an answer's calls are one message of history. *)
PrunedResults(s) ==
    {i \in s : \E a \in s : /\ ResultOf(i, a)
                           /\ Cardinality({b \in s : a < b /\ Calling(b)}) >= KeptResults}

(* Though requests are pruned, the model is shown in full what the calls it made last
   returned, however many these were and whatever was read before. *)
LatestResultsInFull ==
    \A r \in Runs : InScope(r) =>
        \A a, i \in Own(r) :
            /\ ResultOf(i, a)
            /\ \A b \in Own(r) : Calling(b) => b <= a
            => i \in replayed[r] \ PrunedResults(replayed[r])
=============================================================================
