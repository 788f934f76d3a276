------------------------- MODULE ContextMemoryProofs -------------------------
(***************************************************************************)
(* Proofs about ContextMemory for any number of runs, messages and calls,  *)
(* any size of a page and whatever the session held before.                *)
(***************************************************************************)
EXTENDS ContextMemory, FiniteSetTheorems, TLAPS

-----------------------------------------------------------------------------
(* The inductive invariant, in two layers: IInv is about places and units, *)
(* JInv adds what is replayed of them.                                     *)

\* Runs are accepted one after the other, and their questions are in that order.
BegunOK(r) ==
    /\ executor[r].stage = "none" => executor[r] = Idle /\ Own(r) = {}
    /\ executor[r].stage = "accepted" => executor[r] = [Idle EXCEPT !.stage = "accepted"]
    /\ executor[r].stage # "none" =>
          /\ \E i \in Own(r) : \A j \in 1 .. i - 1 : transcript[j].run < r
          /\ \A q \in 1 .. r - 1 : executor[q].stage # "none"

ActiveOK ==
    active # 0 =>
        /\ executor[active].stage # "none"
        /\ \A q \in Runs : active < q => executor[q].stage = "none"

\* An executor finds its own question when it reads, and cuts before it.
ExecutorOK(r, e) ==
    /\ e.heads \subseteq e.kept
    /\ ~e.loaded /\ e.stage # "over" => \A i, j \in Own(r) : i = j
    /\ e.stage = "paging" => ~e.loaded
    /\ e.stage \in {"asking", "answered"} => e.loaded
    /\ e.open # 0 => e.stage = "asking"
    /\ e.loaded => \E i \in Own(r) : i <= e.after
    /\ e.protected # 0 => e.protected \in Own(r) /\ \A i \in Own(r) : e.protected <= i
    /\ e.stage \in {"summarised", "conflict"} =>
          e.cut \in Ends(e) /\ (e.protected # 0 => e.cut < e.protected)

\* The summaries end between two units, and spare what their writer wrote.
SnapshotOK(v) ==
    /\ snapshots[v].covered + 1 <= Stored
    /\ ~Continues(snapshots[v].covered + 1, 1)
    /\ \E q \in Runs : executor[q].stage # "none"
                       /\ \A i \in Own(q) : snapshots[v].covered < i

SnapshotsOK ==
    /\ \A v, w \in 1 .. Len(snapshots) : v < w => snapshots[v].covered < snapshots[w].covered
    /\ ~LateWriter => \A v \in 1 .. Len(snapshots) : SnapshotOK(v)

Live(e) == e.stage \notin {"none", "accepted", "over"}

\* The summary an executor holds tells nothing of its own run.
Fresh(r, e) == \A i \in Own(r) : Covered(e.held) < i

\* What it keeps is what was read and is not in the summary, unit by unit, and what it
\* appended since.
MemoryOK(r, e) ==
    /\ \A i \in e.kept : Covered(e.held) < i
    /\ \A i \in 1 .. e.after : Covered(e.held) < i => i \in e.kept
    /\ \A i \in e.kept : i <= e.after => (i \in e.heads <=> ~Continues(i, 1))
    /\ \A i \in e.kept : e.after < i =>
          i \in Own(r) /\ e.loaded /\ \E h \in e.heads : e.after < h /\ h <= i
    /\ e.open # 0 => \E h \in e.heads : e.after < h
    /\ ~e.loaded => e.after + 1 <= Stored /\ ~Continues(e.after + 1, 1)
    /\ e.loaded => \A i \in Own(r) : i <= e.after \/ i \in e.kept
    /\ e.stage = "paging" => Covered(e.held) <= e.after

ContextOK(r, e) == ~LateWriter /\ Live(e) /\ Fresh(r, e) => MemoryOK(r, e)

RunOK(r) ==
    /\ BegunOK(r)
    /\ ExecutorOK(r, executor[r])
    /\ ContextOK(r, executor[r])

IInv ==
    /\ TypeOK
    /\ ActiveOK
    /\ SnapshotsOK
    /\ \A r \in Runs : RunOK(r)

-----------------------------------------------------------------------------
(* Transcript and snapshots only grow, and what they hold stays.           *)

Keeps ==
    /\ Stored' \in Nat /\ Stored <= Stored'
    /\ \A i \in 1 .. Stored : transcript'[i] = transcript[i]
    /\ Len(snapshots') \in Nat /\ Len(snapshots) <= Len(snapshots')
    /\ \A v \in 1 .. Len(snapshots) : snapshots'[v] = snapshots[v]

LEMMA Lengths ==
    ASSUME TypeOK
    PROVE  /\ Stored \in Nat /\ Len(snapshots) \in Nat
           /\ \A i \in 1 .. Stored : transcript[i] \in Messages
           /\ \A v \in 1 .. Len(snapshots) : snapshots[v] \in Snapshots
           /\ DOMAIN snapshots = 1 .. Len(snapshots)
  BY DEF TypeOK, Stored

LEMMA Grows ==
    ASSUME TypeOK, NEW m \in Messages, transcript' = Append(transcript, m)
    PROVE  /\ transcript' \in Seq(Messages)
           /\ Stored \in Nat /\ Stored' = Stored + 1
           /\ \A i \in 1 .. Stored : transcript'[i] = transcript[i]
           /\ transcript'[Stored + 1] = m
  BY DEF TypeOK, Stored

LEMMA PlainMessage ==
    ASSUME NEW r \in Runs, NEW role \in {"user", "tool"}
    PROVE  Message(r, role, 0, FALSE) \in Messages /\ Message(r, role, 0, FALSE).run = r
  BY ContextMemoryAssumption DEF Message, Messages, MessagesOf, ContextMemoryAssumption

LEMMA AssistantMessage ==
    ASSUME NEW r \in Runs, NEW n \in 0 .. MaxCalls, NEW x \in BOOLEAN, AppendAssistant(r, n, x)
    PROVE  Message(r, "assistant", n, x) \in Messages /\ Message(r, "assistant", n, x).run = r
  BY DEF AppendAssistant, Message, Messages, MessagesOf

LEMMA NextKeeps == TypeOK /\ Next => Keeps
<1> SUFFICES ASSUME TypeOK, Next PROVE Keeps
  OBVIOUS
<1>1. UNCHANGED snapshots => /\ Len(snapshots') \in Nat /\ Len(snapshots) <= Len(snapshots')
                             /\ \A v \in 1 .. Len(snapshots) : snapshots'[v] = snapshots[v]
  BY Lengths
<1>2. UNCHANGED transcript => /\ Stored' \in Nat /\ Stored <= Stored'
                              /\ \A i \in 1 .. Stored : transcript'[i] = transcript[i]
  BY Lengths DEF Stored
<1>3. ASSUME NEW m \in Messages, transcript' = Append(transcript, m), UNCHANGED snapshots
      PROVE  Keeps
  <2>1. /\ Stored \in Nat /\ Stored' = Stored + 1
        /\ \A i \in 1 .. Stored : transcript'[i] = transcript[i]
    BY <1>3, Grows
  <2>2. Stored' \in Nat /\ Stored <= Stored'
    BY <2>1
  <2> QED BY <1>1, <1>3, <2>1, <2>2 DEF Keeps
<1>4. CASE UNCHANGED transcript /\ UNCHANGED snapshots
  BY <1>1, <1>2, <1>4 DEF Keeps
<1>5. ASSUME NEW r \in Runs, WriteSnapshot(r) PROVE Keeps
  <2>1. UNCHANGED transcript /\ \E x : snapshots' = Append(snapshots, x)
    BY <1>5 DEF WriteSnapshot
  <2>2. /\ Len(snapshots') = Len(snapshots) + 1
        /\ \A v \in 1 .. Len(snapshots) : snapshots'[v] = snapshots[v]
    BY <2>1 DEF TypeOK
  <2> QED BY <2>1, <2>2, <1>2, Lengths DEF Keeps
<1>7. ASSUME NEW r \in Runs, AcceptRun(r) PROVE Keeps
  BY <1>7, <1>3, PlainMessage DEF AcceptRun
<1>8. ASSUME NEW r \in Runs, NEW n \in 0 .. MaxCalls, NEW x \in BOOLEAN,
             AppendAssistant(r, n, x) PROVE Keeps
  BY <1>8, <1>3, AssistantMessage DEF AppendAssistant
<1>9. ASSUME NEW r \in Runs, AppendTool(r) PROVE Keeps
  BY <1>9, <1>3, PlainMessage DEF AppendTool
<1> QED
  BY <1>4, <1>5, <1>7, <1>8, <1>9
  DEF Next, Compact, ReplaceRun, Stop, LoadSnapshot, ReadPage, NextPage,
      Summarise, FailSummary, LoseSnapshot, AdoptSnapshot, GiveUpSnapshot

\* What an exchange is does not change.
LEMMA ExchangesStay ==
    ASSUME TypeOK, Keeps, NEW i \in 1 .. Stored
    PROVE  Continues(i, 1)' <=> Continues(i, 1)
<1>1. \A j \in 1 .. i : transcript'[j] = transcript[j]
  BY Lengths DEF Keeps
<1>2. ASSUME NEW a \in 1 .. i - 1 PROVE Answers(i, a)' <=> Answers(i, a)
  <2>1. transcript'[a] = transcript[a] /\ \A j \in a + 1 .. i : transcript'[j] = transcript[j]
    BY <1>1, Lengths
  <2> QED BY <2>1 DEF Answers, Calling, Role
<1> QED BY <1>2 DEF Continues

LEMMA SummariesStay ==
    ASSUME TypeOK, Keeps, NEW v \in 0 .. Len(snapshots)
    PROVE  Covered(v)' = Covered(v) /\ Known(v)' = Known(v)
  BY Lengths DEF Keeps, Covered, Known

LEMMA LateStays == ASSUME TypeOK, Keeps, LateWriter PROVE LateWriter'
<1>1. PICK v \in 1 .. Len(snapshots) : snapshots[v].late
  BY Lengths DEF LateWriter
<1>2. v \in DOMAIN snapshots' /\ snapshots'[v].late
  BY <1>1 DEF Keeps, TypeOK
<1> QED BY <1>2 DEF LateWriter

-----------------------------------------------------------------------------
(* Types.                                                                  *)

LEMMA ExecutorsGrow ==
    ASSUME TypeOK, Keeps, NEW e \in Executors
    PROVE  e \in Executors'
<1>1. 0 .. Stored \subseteq 0 .. Stored' /\ 1 .. Stored \subseteq 1 .. Stored'
  BY Lengths DEF Keeps
<1>2. 0 .. Len(snapshots) \subseteq 0 .. Len(snapshots')
  BY Lengths DEF Keeps
<1> QED BY <1>1, <1>2 DEF Executors

LEMMA SnapshotsGrow ==
    ASSUME TypeOK, Keeps
    PROVE  snapshots \in Seq(Snapshots')
<1>1. 1 .. Stored \subseteq 1 .. Stored'
  BY Lengths DEF Keeps
<1>2. Snapshots \subseteq Snapshots'
  BY <1>1 DEF Snapshots
<1> QED BY <1>2 DEF TypeOK

\* Only the executor of r moves.
LEMMA Moved ==
    ASSUME TypeOK, Keeps, NEW r \in Runs, NEW e \in Executors', Move(r, e)
    PROVE  /\ executor' \in [Runs -> Executors']
           /\ executor'[r] = e
           /\ \A q \in Runs \ {r} : executor'[q] = executor[q]
<1>1. \A q \in Runs : executor[q] \in Executors'
  BY ExecutorsGrow DEF TypeOK
<1> QED BY <1>1 DEF Move, TypeOK

CoreOK ==
    /\ transcript \in Seq(Messages)
    /\ snapshots \in Seq(Snapshots)
    /\ active \in 0 .. MaxRuns
    /\ executor \in [Runs -> Executors]

LEMMA MovedCoreOK ==
    ASSUME TypeOK, Keeps, NEW r \in Runs, NEW e \in Executors', Move(r, e),
           UNCHANGED <<transcript, snapshots>>, active' \in 0 .. MaxRuns
    PROVE  CoreOK'
  BY Moved, SnapshotsGrow DEF TypeOK, CoreOK

\* While pages are left, the transcript holds the question of the run alone.
LEMMA OwnFirstOK ==
    ASSUME TypeOK, NEW r \in Runs, \A i, j \in Own(r) : i = j, NEW first, NEW last
    PROVE  \/ OwnFirst(r, first, last) = 0
           \/ /\ OwnFirst(r, first, last) \in Own(r)
              /\ \A i \in Own(r) : OwnFirst(r, first, last) <= i
<1> DEFINE own == Own(r) \cap first .. last
<1>1. CASE own = {}
  BY <1>1 DEF OwnFirst
<1>2. ASSUME NEW x \in own PROVE OwnFirst(r, first, last) = x
  <2>1. \A i \in own : i = x /\ i \in Nat
    BY <1>2 DEF Own
  <2>2. (CHOOSE i \in own : \A j \in own : i <= j) = x
    BY <2>1
  <2> QED BY <2>2 DEF OwnFirst
<1>3. \A i \in Own(r) : i \in Nat
  BY DEF Own
<1> QED BY <1>1, <1>2, <1>3

LEMMA StageType ==
    ASSUME TypeOK, NEW r \in Runs
    PROVE  /\ executor[r] \in Executors
           /\ executor[r].stage \in Stages
           /\ executor[r].loaded \in BOOLEAN /\ executor[r].failed \in BOOLEAN
           /\ executor[r].after \in 0 .. Stored
           /\ executor[r].held \in 0 .. Len(snapshots)
           /\ executor[r].kept \subseteq 1 .. Stored
           /\ executor[r].heads \subseteq 1 .. Stored
           /\ executor[r].protected \in 0 .. Stored
           /\ executor[r].cut \in 0 .. Stored
           /\ executor[r].open \in 0 .. MaxCalls
           /\ executor[r].calls \in 0 .. MaxSummaryCalls
  BY DEF TypeOK, Executors

LEMMA CoveredType ==
    ASSUME TypeOK, NEW v \in 0 .. Len(snapshots)
    PROVE  Covered(v) \in 0 .. Stored /\ Known(v) \subseteq 1 .. Stored
  BY Lengths DEF Covered, Known, Snapshots

\* A step of the executor of r alone.
LEMMA QuietCoreOK ==
    ASSUME TypeOK, Next, NEW r \in Runs, NEW e \in Executors, Move(r, e),
           UNCHANGED <<transcript, snapshots, active>>
    PROVE  CoreOK'
  BY NextKeeps, ExecutorsGrow, MovedCoreOK DEF TypeOK, CoreOK

\* A step that appends to the transcript.
LEMMA AppendCoreOK ==
    ASSUME TypeOK, Next, NEW r \in Runs, NEW e \in Executors', Move(r, e),
           NEW m \in Messages, transcript' = Append(transcript, m),
           UNCHANGED snapshots, active' \in 0 .. MaxRuns
    PROVE  CoreOK'
<1>1. Keeps
  BY NextKeeps
<1>2. transcript' \in Seq(Messages)
  BY Grows
<1>3. snapshots' \in Seq(Snapshots')
  BY <1>1, SnapshotsGrow
<1> QED BY <1>1, <1>2, <1>3, Moved DEF TypeOK, CoreOK

LEMMA IdleType == ASSUME TypeOK, NEW s \in Stages PROVE [Idle EXCEPT !.stage = s] \in Executors
<1>1. /\ 0 \in 0 .. Stored /\ 0 \in 0 .. Len(snapshots)
      /\ 0 \in 0 .. MaxCalls /\ 0 \in 0 .. MaxSummaryCalls
  BY ContextMemoryAssumption, Lengths DEF ContextMemoryAssumption
<1>2. Idle \in Executors
  BY <1>1 DEF Idle, Executors, Stages
<1> QED BY <1>2 DEF Executors

LEMMA EndsAreKept == ASSUME NEW e PROVE Ends(e) \subseteq e.kept
  BY DEF Ends

LEMMA SegmentsAreKept == ASSUME NEW e PROVE Segment(e) \subseteq e.kept
  BY DEF Segment

LEMMA DropIsKept == ASSUME NEW e, NEW c PROVE DropCovered(e, c) \subseteq e.kept
  BY DEF DropCovered

LEMMA NextCoreOK ==
    ASSUME TypeOK, \A r \in Runs : ExecutorOK(r, executor[r]), Next
    PROVE  CoreOK'
<1>1. ASSUME ReplaceRun PROVE CoreOK'
  <2>1. Stored' = Stored /\ Snapshots' = Snapshots /\ Executors' = Executors
    BY <1>1 DEF ReplaceRun, Stored, Snapshots, Executors
  <2> QED BY <1>1, <2>1, ContextMemoryAssumption DEF ReplaceRun, TypeOK, CoreOK, ContextMemoryAssumption
<1>2. ASSUME NEW r \in Runs, AcceptRun(r) PROVE CoreOK'
  <2> DEFINE e == [executor[r] EXCEPT !.stage = "accepted"]
  <2>1. e \in Executors
    BY StageType DEF Executors, Stages
  <2>2. e \in Executors'
    BY <2>1, NextKeeps, ExecutorsGrow
  <2>3. Message(r, "user", 0, FALSE) \in Messages
    BY PlainMessage
  <2>4. Move(r, e) /\ active' \in 0 .. MaxRuns
    BY <1>2, ContextMemoryAssumption DEF AcceptRun, Runs, ContextMemoryAssumption
  <2> QED BY <1>2, <2>2, <2>3, <2>4, AppendCoreOK DEF AcceptRun
<1>3. ASSUME NEW r \in Runs, Stop(r) PROVE CoreOK'
  <2> DEFINE e == [Idle EXCEPT !.stage = "over"]
  <2>1. e \in Executors'
    BY IdleType, NextKeeps, ExecutorsGrow DEF Stages
  <2>2. active' \in 0 .. MaxRuns
    BY <1>3, ContextMemoryAssumption DEF Stop, TypeOK, ContextMemoryAssumption
  <2> QED BY <1>3, <2>1, <2>2, NextKeeps, MovedCoreOK DEF Stop
<1>4. ASSUME NEW r \in Runs, LoadSnapshot(r) PROVE CoreOK'
  <2> DEFINE e == [executor[r] EXCEPT !.stage = "paging", !.held = Len(snapshots),
                                      !.after = Covered(Len(snapshots))]
  <2>1. Len(snapshots) \in 0 .. Len(snapshots) /\ Covered(Len(snapshots)) \in 0 .. Stored
    BY CoveredType, Lengths
  <2>2. e \in Executors
    BY <2>1, StageType DEF Executors, Stages
  <2> QED BY <1>4, <2>2, QuietCoreOK DEF LoadSnapshot
<1>5. ASSUME NEW r \in Runs, ReadPage(r) PROVE CoreOK'
  <2> DEFINE f == executor[r]
             e(last) == [f EXCEPT !.stage = "compacting",
                                  !.loaded = Fits(f.after),
                                  !.after = last,
                                  !.protected = IF @ = 0 THEN OwnFirst(r, f.after + 1, last) ELSE @,
                                  !.kept = @ \cup f.after + 1 .. last,
                                  !.heads = @ \cup BuildUnits(f.after + 1, last)]
  <2>1. PICK last \in f.after + 1 .. Stored : Move(r, e(last))
    BY <1>5 DEF ReadPage
  <2>2. OwnFirst(r, f.after + 1, last) \in 0 .. Stored
    <3>1. \A i, j \in Own(r) : i = j
      BY <1>5 DEF ExecutorOK, ReadPage
    <3> QED BY <3>1, OwnFirstOK, Lengths DEF Own
  <2>3. /\ last \in 0 .. Stored
        /\ f.after + 1 .. last \subseteq 1 .. Stored
        /\ BuildUnits(f.after + 1, last) \subseteq 1 .. Stored
    BY Lengths, StageType DEF BuildUnits
  <2>4. Fits(f.after) \in BOOLEAN
    BY DEF Fits
  <2>5. e(last) \in Executors
    BY <2>2, <2>3, <2>4, StageType DEF Executors, Stages
  <2> QED BY <1>5, <2>1, <2>5, QuietCoreOK DEF ReadPage
<1>7. ASSUME NEW r \in Runs, NextPage(r) PROVE CoreOK'
  <2> DEFINE f == executor[r]
             e == [f EXCEPT !.stage = IF f.loaded THEN "asking" ELSE "paging",
                            !.after = IF @ < Covered(f.held) THEN Covered(f.held) ELSE @]
  <2>1. e \in Executors
    BY StageType, CoveredType DEF Executors, Stages
  <2> QED BY <1>7, <2>1, QuietCoreOK DEF NextPage
<1>8. ASSUME NEW r \in Runs, Summarise(r) PROVE CoreOK'
  <2> DEFINE f == executor[r]
             e(c, n) == [f EXCEPT !.stage = "summarised", !.cut = c, !.calls = @ + n]
  <2>1. PICK c \in Ends(f), n \in 1 .. SummaryAttempts : Affordable(f, n) /\ Move(r, e(c, n))
    BY <1>8 DEF Summarise
  <2>2. f.calls + n \in 0 .. MaxSummaryCalls
    BY <2>1, StageType, ContextMemoryAssumption DEF Affordable, ContextMemoryAssumption
  <2>3. c \in 0 .. Stored
    BY EndsAreKept, StageType, Lengths
  <2>4. e(c, n) \in Executors
    BY <2>2, <2>3, StageType DEF Executors, Stages
  <2> QED BY <1>8, <2>1, <2>4, QuietCoreOK DEF Summarise
<1>9. ASSUME NEW r \in Runs, FailSummary(r) PROVE CoreOK'
  <2> DEFINE f == executor[r]
             e(n) == [f EXCEPT !.failed = TRUE, !.calls = @ + n]
  <2>1. PICK n \in 0 .. SummaryAttempts : Affordable(f, n) /\ Move(r, e(n))
    BY <1>9 DEF FailSummary
  <2>2. f.calls + n \in 0 .. MaxSummaryCalls
    BY <2>1, StageType, ContextMemoryAssumption DEF Affordable, ContextMemoryAssumption
  <2>3. e(n) \in Executors
    BY <2>2, StageType DEF Executors
  <2> QED BY <1>9, <2>1, <2>3, QuietCoreOK DEF FailSummary
<1>10. ASSUME NEW r \in Runs, WriteSnapshot(r) PROVE CoreOK'
  <2> DEFINE f == executor[r]
             new == [covered |-> f.cut, knows |-> Known(f.held) \cup (Segment(f) \cap replayed[r]),
                     late |-> f.protected = 0 /\ \E i \in Own(r) : i <= f.cut]
             e == [f EXCEPT !.stage = Back(f), !.held = @ + 1, !.cut = 0,
                            !.kept = @ \ Segment(f), !.heads = @ \ Segment(f)]
  <2>1. /\ snapshots' = Append(snapshots, new) /\ Move(r, e)
        /\ UNCHANGED <<transcript, active>>
        /\ Len(snapshots) = f.held /\ Covered(f.held) < f.cut
    BY <1>10 DEF WriteSnapshot
  <2>2. new \in Snapshots
    <3>1. f.cut \in 1 .. Stored
      BY <2>1, StageType, CoveredType, Lengths
    <3>2. Known(f.held) \cup (Segment(f) \cap replayed[r]) \subseteq 1 .. Stored
      BY StageType, CoveredType, SegmentsAreKept
    <3> QED BY <3>1, <3>2 DEF Snapshots
  <2>3. snapshots' \in Seq(Snapshots) /\ Len(snapshots') = Len(snapshots) + 1
    BY <2>1, <2>2 DEF TypeOK, CoreOK
  <2>4. Stored' = Stored /\ Snapshots' = Snapshots
    BY <2>1 DEF Stored, Snapshots
  <2>5. e \in Executors'
    <3>1. f.held + 1 \in 0 .. Len(snapshots)'
      BY <2>1, <2>3, Lengths
    <3>2. 0 \in 0 .. Stored /\ Back(f) \in Stages
      BY Lengths DEF Back, Stages
    <3> QED BY <2>4, <3>1, <3>2, StageType DEF Executors
  <2>6. executor' \in [Runs -> Executors']
    BY <2>1, <2>5, NextKeeps, Moved
  <2> QED BY <2>1, <2>3, <2>4, <2>6 DEF TypeOK, CoreOK
<1>11. ASSUME NEW r \in Runs, LoseSnapshot(r) PROVE CoreOK'
  <2>1. [executor[r] EXCEPT !.stage = "conflict"] \in Executors
    BY StageType DEF Executors, Stages
  <2> QED BY <1>11, <2>1, QuietCoreOK DEF LoseSnapshot
<1>12. ASSUME NEW r \in Runs, AdoptSnapshot(r) PROVE CoreOK'
  <2> DEFINE f == executor[r]
             drop == DropCovered(f, Covered(Len(snapshots)))
             e == [f EXCEPT !.stage = Back(f), !.held = Len(snapshots), !.cut = 0,
                            !.kept = drop, !.heads = @ \cap drop]
  <2>1. /\ drop \subseteq 1 .. Stored /\ 0 \in 0 .. Stored /\ Back(f) \in Stages
        /\ Len(snapshots) \in 0 .. Len(snapshots)
    BY DropIsKept, StageType, Lengths DEF Back, Stages
  <2>2. e \in Executors
    BY <2>1, StageType DEF Executors
  <2> QED BY <1>12, <2>2, QuietCoreOK DEF AdoptSnapshot
<1>13. ASSUME NEW r \in Runs, GiveUpSnapshot(r) PROVE CoreOK'
  <2> DEFINE f == executor[r]
             e == [f EXCEPT !.stage = Back(f), !.failed = TRUE, !.cut = 0]
  <2>1. 0 \in 0 .. Stored /\ Back(f) \in Stages
    BY Lengths DEF Back, Stages
  <2>2. e \in Executors
    BY <2>1, StageType DEF Executors
  <2> QED BY <1>13, <2>2, QuietCoreOK DEF GiveUpSnapshot
<1>14. ASSUME NEW r \in Runs, NEW n \in 0 .. MaxCalls, NEW x \in BOOLEAN,
             AppendAssistant(r, n, x) PROVE CoreOK'
  <2> DEFINE f == executor[r]
             e == [f EXCEPT !.kept = @ \cup {Stored + 1}, !.heads = @ \cup {Stored + 1},
                            !.open = n, !.stage = IF n = 0 THEN "answered" ELSE @]
  <2>1. Message(r, "assistant", n, x) \in Messages
    BY <1>14, AssistantMessage
  <2>2. transcript' = Append(transcript, Message(r, "assistant", n, x)) /\ Move(r, e)
        /\ UNCHANGED <<snapshots, active>>
    BY <1>14 DEF AppendAssistant
  <2>3. f \in Executors' /\ Stored + 1 \in 1 .. Stored'
    BY <2>1, <2>2, Grows, NextKeeps, ExecutorsGrow, StageType
  <2>4. e \in Executors'
    BY <2>3 DEF Executors, Stages
  <2> QED BY <2>1, <2>2, <2>4, AppendCoreOK DEF TypeOK, CoreOK
<1>15. ASSUME NEW r \in Runs, AppendTool(r) PROVE CoreOK'
  <2> DEFINE f == executor[r]
             e == [f EXCEPT !.kept = @ \cup {Stored + 1}, !.open = @ - 1]
  <2>1. Message(r, "tool", 0, FALSE) \in Messages
    BY PlainMessage
  <2>2. transcript' = Append(transcript, Message(r, "tool", 0, FALSE)) /\ Move(r, e)
        /\ UNCHANGED <<snapshots, active>> /\ f.open > 0
    BY <1>15 DEF AppendTool
  <2>3. f \in Executors' /\ Stored + 1 \in 1 .. Stored'
    <3>1. Stored \in Nat /\ Stored' = Stored + 1
      BY <2>1, <2>2, Grows
    <3> QED BY <3>1, NextKeeps, ExecutorsGrow, StageType
  <2>5. f.open - 1 \in 0 .. MaxCalls
    BY <2>2, StageType, ContextMemoryAssumption DEF ContextMemoryAssumption
  <2>4. e \in Executors'
    BY <2>3, <2>5 DEF Executors
  <2> QED BY <2>1, <2>2, <2>4, AppendCoreOK DEF TypeOK, CoreOK
<1> QED
  BY <1>1, <1>2, <1>3, <1>4, <1>5, <1>7, <1>8, <1>9, <1>10, <1>11, <1>12, <1>13,
     <1>14, <1>15
  DEF Next, Compact

LEMMA RepeatOne ==
    ASSUME TypeOK, NEW r \in Runs, NEW s, Repeat(r, s)
    PROVE  replayed'[r] = s /\ \A q \in Runs \ {r} : replayed'[q] = replayed[q]
  BY DEF Repeat, TypeOK

LEMMA RepeatedType ==
    ASSUME TypeOK, Keeps, NEW r \in Runs, NEW s \in SUBSET (1 .. Stored'), Repeat(r, s)
    PROVE  replayed' \in [Runs -> SUBSET (1 .. Stored')]
<1>1. 1 .. Stored \subseteq 1 .. Stored'
  BY Lengths DEF Keeps
<1> QED BY <1>1 DEF Repeat, TypeOK

LEMMA ReplayedType ==
    ASSUME TypeOK, Next
    PROVE  replayed' \in [Runs -> SUBSET (1 .. Stored')]
<1> Keeps /\ 1 .. Stored \subseteq 1 .. Stored'
  BY NextKeeps, Lengths DEF Keeps
<1>1. \A r \in Runs : replayed[r] \subseteq 1 .. Stored'
  BY DEF TypeOK
<1>2. CASE UNCHANGED replayed
  BY <1>1, <1>2 DEF TypeOK
<1>3. ASSUME NEW r \in Runs, NEW s, s \subseteq replayed[r], Repeat(r, s)
      PROVE  replayed' \in [Runs -> SUBSET (1 .. Stored')]
  BY <1>1, <1>3, RepeatedType
<1>4. ASSUME NEW r \in Runs, Stop(r) \/ WriteSnapshot(r) \/ AdoptSnapshot(r)
      PROVE  replayed' \in [Runs -> SUBSET (1 .. Stored')]
  <2>1. \E s : s \subseteq replayed[r] /\ Repeat(r, s)
    BY <1>4 DEF Stop, WriteSnapshot, AdoptSnapshot
  <2> QED BY <1>3, <2>1
<1>5. ASSUME NEW r \in Runs, ReadPage(r)
      PROVE  replayed' \in [Runs -> SUBSET (1 .. Stored')]
  <2> DEFINE first == executor[r].after + 1
  <2>1. PICK last \in first .. Stored :
          Repeat(r, replayed[r] \cup Replayed(first, last, replayed[r]))
    BY <1>5 DEF ReadPage
  <2>2. first .. last \subseteq 1 .. Stored
    BY StageType, Lengths
  <2>3. Replayed(first, last, replayed[r]) \subseteq first .. last
    BY DEF Replayed
  <2> QED BY <1>1, <2>1, <2>2, <2>3, RepeatedType
<1>6. ASSUME NEW r \in Runs, NEW m \in Messages, transcript' = Append(transcript, m),
             Repeat(r, replayed[r] \cup {Stored + 1})
      PROVE  replayed' \in [Runs -> SUBSET (1 .. Stored')]
  <2>1. Stored + 1 \in 1 .. Stored'
    BY <1>6, Grows
  <2> QED BY <1>1, <1>6, <2>1, RepeatedType
<1>7. ASSUME NEW r \in Runs, NEW n \in 0 .. MaxCalls, NEW x \in BOOLEAN, AppendAssistant(r, n, x)
      PROVE  replayed' \in [Runs -> SUBSET (1 .. Stored')]
  BY <1>6, <1>7, AssistantMessage DEF AppendAssistant
<1>8. ASSUME NEW r \in Runs, AppendTool(r)
      PROVE  replayed' \in [Runs -> SUBSET (1 .. Stored')]
  BY <1>6, <1>8, PlainMessage DEF AppendTool
<1> QED
  BY <1>2, <1>4, <1>5, <1>7, <1>8
  DEF Next, Compact, AcceptRun, ReplaceRun, LoadSnapshot, NextPage, Summarise, FailSummary,
      LoseSnapshot, GiveUpSnapshot

-----------------------------------------------------------------------------
(* Questions and answers of the runs.                                      *)

LEMMA MoveOne ==
    ASSUME TypeOK, NEW r \in Runs, NEW e, Move(r, e)
    PROVE  executor'[r] = e /\ \A q \in Runs \ {r} : executor'[q] = executor[q]
  BY DEF Move, TypeOK

LEMMA OwnType == ASSUME TypeOK, NEW r \in Runs PROVE Own(r) \subseteq 1 .. Stored
  BY DEF Own

LEMMA OwnAppend ==
    ASSUME TypeOK, NEW q \in Runs, NEW m \in Messages, transcript' = Append(transcript, m)
    PROVE  Own(q)' = IF m.run = q THEN Own(q) \cup {Stored + 1} ELSE Own(q)
<1>1. /\ Stored \in Nat /\ Stored' = Stored + 1
      /\ \A i \in 1 .. Stored : transcript'[i] = transcript[i]
      /\ transcript'[Stored + 1] = m
  BY Grows
<1>2. 1 .. Stored' = 1 .. Stored \cup {Stored + 1} /\ Stored + 1 \notin 1 .. Stored
  BY <1>1
<1> QED BY <1>1, <1>2 DEF Own

LEMMA OwnSame == ASSUME UNCHANGED transcript, NEW q PROVE Own(q)' = Own(q)
  BY DEF Own, Stored

\* Executors begin when their run is accepted, and never anew.
LEMMA StageSteps ==
    ASSUME TypeOK, Next, \A r \in Runs : ~AcceptRun(r), NEW q \in Runs
    PROVE  /\ \/ executor'[q] = executor[q]
              \/ executor[q].stage # "none" /\ executor'[q].stage \notin {"none", "accepted"}
           /\ active' \in {0, active}
<1>1. CASE ReplaceRun
  BY <1>1 DEF ReplaceRun
<1>2. SUFFICES ASSUME NEW r \in Runs,
                      \/ Stop(r) \/ LoadSnapshot(r) \/ ReadPage(r)
                      \/ NextPage(r) \/ Compact(r) \/ AppendTool(r)
                      \/ \E n \in 0 .. MaxCalls, x \in BOOLEAN : AppendAssistant(r, n, x)
               PROVE  /\ active' \in {0, active}
                      /\ executor[r].stage # "none"
                      /\ \E e : Move(r, e) /\ e.stage \notin {"none", "accepted"}
  BY <1>1, MoveOne DEF Next
<1> DEFINE Goal == /\ active' \in {0, active}
                   /\ executor[r].stage # "none"
                   /\ \E e : Move(r, e) /\ e.stage \notin {"none", "accepted"}
<1> executor[r] \in Executors
  BY StageType
<1>3. CASE Stop(r)
  <2> DEFINE e == [Idle EXCEPT !.stage = "over"]
  <2>1. e.stage = "over"
    BY DEF Idle
  <2> QED BY <1>3, <2>1 DEF Stop
<1>4. CASE LoadSnapshot(r)
  <2> DEFINE e == [executor[r] EXCEPT !.stage = "paging", !.held = Len(snapshots),
                                      !.after = Covered(Len(snapshots))]
  <2>1. e.stage = "paging"
    BY DEF Executors
  <2> QED BY <1>4, <2>1 DEF LoadSnapshot
<1>5. CASE ReadPage(r)
  <2> DEFINE f == executor[r]
             e(last) == [f EXCEPT !.stage = "compacting",
                                  !.loaded = Fits(f.after),
                                  !.after = last,
                                  !.protected = IF @ = 0 THEN OwnFirst(r, f.after + 1, last) ELSE @,
                                  !.kept = @ \cup f.after + 1 .. last,
                                  !.heads = @ \cup BuildUnits(f.after + 1, last)]
  <2>1. PICK last : Move(r, e(last))
    BY <1>5 DEF ReadPage
  <2>2. e(last).stage = "compacting"
    BY DEF Executors
  <2> QED BY <1>5, <2>1, <2>2 DEF ReadPage
<1>7. CASE NextPage(r)
  <2> DEFINE f == executor[r]
             e == [f EXCEPT !.stage = IF f.loaded THEN "asking" ELSE "paging",
                            !.after = IF @ < Covered(f.held) THEN Covered(f.held) ELSE @]
  <2>1. e.stage \in {"asking", "paging"}
    BY DEF Executors
  <2> QED BY <1>7, <2>1 DEF NextPage
<1>8. CASE Summarise(r)
  <2> DEFINE f == executor[r]
             e(c, n) == [f EXCEPT !.stage = "summarised", !.cut = c, !.calls = @ + n]
  <2>1. PICK c, n : Move(r, e(c, n))
    BY <1>8 DEF Summarise
  <2>2. e(c, n).stage = "summarised"
    BY DEF Executors
  <2> QED BY <1>8, <2>1, <2>2 DEF Summarise, MayCompact
<1>9. CASE FailSummary(r)
  <2> DEFINE f == executor[r]
             e(n) == [f EXCEPT !.failed = TRUE, !.calls = @ + n]
  <2>1. PICK n : Move(r, e(n))
    BY <1>9 DEF FailSummary
  <2>2. e(n).stage = f.stage
    BY DEF Executors
  <2> QED BY <1>9, <2>1, <2>2 DEF FailSummary, MayCompact
<1>10. CASE WriteSnapshot(r)
  <2> DEFINE f == executor[r]
             e == [f EXCEPT !.stage = Back(f), !.held = @ + 1, !.cut = 0,
                            !.kept = @ \ Segment(f), !.heads = @ \ Segment(f)]
  <2>1. e.stage \in {"asking", "compacting"}
    BY DEF Executors, Back
  <2> QED BY <1>10, <2>1 DEF WriteSnapshot
<1>11. CASE LoseSnapshot(r)
  <2> DEFINE e == [executor[r] EXCEPT !.stage = "conflict"]
  <2>1. e.stage = "conflict"
    BY DEF Executors
  <2> QED BY <1>11, <2>1 DEF LoseSnapshot
<1>12. CASE AdoptSnapshot(r)
  <2> DEFINE f == executor[r]
             drop == DropCovered(f, Covered(Len(snapshots)))
             e == [f EXCEPT !.stage = Back(f), !.held = Len(snapshots), !.cut = 0,
                            !.kept = drop, !.heads = @ \cap drop]
  <2>1. e.stage \in {"asking", "compacting"}
    BY DEF Executors, Back
  <2> QED BY <1>12, <2>1 DEF AdoptSnapshot
<1>13. CASE GiveUpSnapshot(r)
  <2> DEFINE f == executor[r]
             e == [f EXCEPT !.stage = Back(f), !.failed = TRUE, !.cut = 0]
  <2>1. e.stage \in {"asking", "compacting"}
    BY DEF Executors, Back
  <2> QED BY <1>13, <2>1 DEF GiveUpSnapshot
<1>14. ASSUME NEW n \in 0 .. MaxCalls, NEW x \in BOOLEAN,
             AppendAssistant(r, n, x) PROVE Goal
  <2> DEFINE f == executor[r]
             e == [f EXCEPT !.kept = @ \cup {Stored + 1}, !.heads = @ \cup {Stored + 1},
                            !.open = n, !.stage = IF n = 0 THEN "answered" ELSE @]
  <2>1. e.stage \in {"answered", f.stage}
    BY DEF Executors
  <2> QED BY <1>14, <2>1 DEF AppendAssistant, Asking
<1>15. CASE AppendTool(r)
  <2> DEFINE f == executor[r]
             e == [f EXCEPT !.kept = @ \cup {Stored + 1}, !.open = @ - 1]
  <2>1. e.stage = f.stage
    BY DEF Executors
  <2> QED BY <1>15, <2>1 DEF AppendTool
<1> QED
  BY <1>2, <1>3, <1>4, <1>5, <1>7, <1>8, <1>9, <1>10, <1>11, <1>12, <1>13, <1>14, <1>15
  DEF Compact

LEMMA OwnSteps ==
    ASSUME TypeOK, Next, NEW q \in Runs
    PROVE  \/ Own(q)' = Own(q)
           \/ /\ Own(q)' = Own(q) \cup {Stored + 1}
              /\ AcceptRun(q) \/ executor[q].stage = "asking"
<1>1. CASE UNCHANGED transcript
  BY <1>1, OwnSame
<1>3. ASSUME NEW r \in Runs, AcceptRun(r)
      PROVE  transcript' = Append(transcript, Message(r, "user", 0, FALSE))
  BY <1>3 DEF AcceptRun
<1>4. ASSUME NEW r \in Runs, NEW n \in 0 .. MaxCalls, NEW x \in BOOLEAN,
             AppendAssistant(r, n, x)
      PROVE  /\ transcript' = Append(transcript, Message(r, "assistant", n, x))
             /\ executor[r].stage = "asking"
  BY <1>4 DEF AppendAssistant, Asking
<1>5. ASSUME NEW r \in Runs, AppendTool(r)
      PROVE  /\ transcript' = Append(transcript, Message(r, "tool", 0, FALSE))
             /\ executor[r].stage = "asking"
  BY <1>5 DEF AppendTool
<1>7. ASSUME NEW r \in Runs, AcceptRun(r)
      PROVE  \/ Own(q)' = Own(q)
             \/ Own(q)' = Own(q) \cup {Stored + 1} /\ AcceptRun(q)
  <2>1. Message(r, "user", 0, FALSE) \in Messages /\ Message(r, "user", 0, FALSE).run = r
    BY PlainMessage
  <2>2. Own(q)' = IF r = q THEN Own(q) \cup {Stored + 1} ELSE Own(q)
    BY <1>3, <1>7, <2>1, OwnAppend
  <2> QED BY <1>7, <2>2
<1>8. ASSUME NEW r \in Runs, NEW n \in 0 .. MaxCalls, NEW x \in BOOLEAN,
             AppendAssistant(r, n, x)
      PROVE  \/ Own(q)' = Own(q)
             \/ Own(q)' = Own(q) \cup {Stored + 1} /\ executor[q].stage = "asking"
  <2>1. Message(r, "assistant", n, x) \in Messages /\ Message(r, "assistant", n, x).run = r
    BY <1>8, AssistantMessage
  <2>2. Own(q)' = IF r = q THEN Own(q) \cup {Stored + 1} ELSE Own(q)
    BY <1>4, <1>8, <2>1, OwnAppend
  <2> QED BY <1>4, <1>8, <2>2
<1>9. ASSUME NEW r \in Runs, AppendTool(r)
      PROVE  \/ Own(q)' = Own(q)
             \/ Own(q)' = Own(q) \cup {Stored + 1} /\ executor[q].stage = "asking"
  <2>1. Message(r, "tool", 0, FALSE) \in Messages /\ Message(r, "tool", 0, FALSE).run = r
    BY PlainMessage
  <2>2. Own(q)' = IF r = q THEN Own(q) \cup {Stored + 1} ELSE Own(q)
    BY <1>5, <1>9, <2>1, OwnAppend
  <2> QED BY <1>5, <1>9, <2>2
<1> QED
  BY <1>1, <1>7, <1>8, <1>9
  DEF Next, Compact, ReplaceRun, Stop, LoadSnapshot, ReadPage, NextPage,
      Summarise, FailSummary, LoseSnapshot, AdoptSnapshot, GiveUpSnapshot, WriteSnapshot

LEMMA NextBegunOK ==
    ASSUME IInv, Next
    PROVE  ActiveOK' /\ \A q \in Runs : BegunOK(q)'
<1> TypeOK /\ ActiveOK /\ Keeps /\ \A r \in Runs : BegunOK(r)
  BY NextKeeps DEF IInv, RunOK
<1>1. ASSUME NEW q \in Runs, Own(q) \subseteq Own(q)',
             \E i \in Own(q) : \A j \in 1 .. i - 1 : transcript[j].run < q
      PROVE  \E i \in Own(q)' : \A j \in 1 .. i - 1 : transcript'[j].run < q
  <2>1. PICK i \in Own(q) : \A j \in 1 .. i - 1 : transcript[j].run < q
    BY <1>1
  <2>2. i \in 1 .. Stored
    BY OwnType
  <2>3. \A j \in 1 .. i - 1 : transcript'[j] = transcript[j]
    BY <2>2, Lengths DEF Keeps
  <2> QED BY <1>1, <2>1, <2>3
<1>2. CASE \A r \in Runs : ~AcceptRun(r)
  <2>1. ASSUME NEW q \in Runs PROVE BegunOK(q)'
    <3>1. Own(q)' = Own(q) \/ (executor[q].stage = "asking" /\ Own(q) \subseteq Own(q)')
      BY <1>2, OwnSteps
    <3>2. \A p \in Runs : \/ executor'[p] = executor[p]
                          \/ /\ executor[p].stage # "none"
                             /\ executor'[p].stage \notin {"none", "accepted"}
      BY <1>2, StageSteps
    <3>3. executor'[q].stage = "none" => executor'[q] = Idle /\ Own(q)' = {}
      BY <3>1, <3>2 DEF BegunOK
    <3>4. executor'[q].stage = "accepted" => executor'[q] = [Idle EXCEPT !.stage = "accepted"]
      BY <3>2 DEF BegunOK
    <3>5. ASSUME executor'[q].stage # "none"
          PROVE  /\ \E i \in Own(q)' : \A j \in 1 .. i - 1 : transcript'[j].run < q
                 /\ \A p \in 1 .. q - 1 : executor'[p].stage # "none"
      <4>1. executor[q].stage # "none"
        BY <3>2, <3>5
      <4>2. \A p \in 1 .. q - 1 : p \in Runs
        BY ContextMemoryAssumption DEF Runs, ContextMemoryAssumption
      <4> QED BY <3>1, <3>2, <4>1, <4>2, <1>1 DEF BegunOK
    <3> QED BY <3>3, <3>4, <3>5 DEF BegunOK
  <2>2. ActiveOK'
    <3>1. active' \in {0, active}
      <4>1. CASE Runs = {}
        BY <4>1 DEF Next, ReplaceRun
      <4> QED BY <1>2, <4>1, StageSteps
    <3>2. active # 0 => active \in Runs
      BY ContextMemoryAssumption DEF TypeOK, Runs, ContextMemoryAssumption
    <3>3. ASSUME NEW q \in Runs
          PROVE  executor[q].stage = "none" <=> executor'[q].stage = "none"
      BY <1>2, StageSteps
    <3> QED BY <3>1, <3>2, <3>3 DEF ActiveOK
  <2> QED BY <2>1, <2>2
<1>3. ASSUME NEW r \in Runs, AcceptRun(r) PROVE ActiveOK' /\ \A q \in Runs : BegunOK(q)'
  <2> DEFINE e == [executor[r] EXCEPT !.stage = "accepted"]
             m == Message(r, "user", 0, FALSE)
  <2>1. /\ executor[r].stage = "none" /\ \A p \in 1 .. r - 1 : executor[p].stage # "none"
        /\ active' = r /\ transcript' = Append(transcript, m) /\ Move(r, e)
    BY <1>3 DEF AcceptRun
  <2>2. executor[r] = Idle /\ Own(r) = {}
    BY <2>1 DEF BegunOK
  <2>3. executor'[r] = e /\ \A p \in Runs \ {r} : executor'[p] = executor[p]
    BY <2>1, MoveOne
  <2>4. e = [Idle EXCEPT !.stage = "accepted"] /\ e.stage = "accepted"
    BY <2>2 DEF Idle
  <2>5. \A p \in Runs : p # 0 /\ p \in Nat /\ \A k \in 1 .. p - 1 : k \in Runs
    BY ContextMemoryAssumption DEF Runs, ContextMemoryAssumption
  <2>6. ASSUME NEW p \in Runs, r < p PROVE executor[p].stage = "none" /\ Own(p) = {}
    <3>1. r \in 1 .. p - 1
      BY <2>5, <2>6
    <3> QED BY <2>1, <3>1 DEF BegunOK
  <2>7. m \in Messages /\ m.run = r
    BY PlainMessage
  <2>8. /\ Stored \in Nat /\ Stored' = Stored + 1
        /\ \A i \in 1 .. Stored : transcript'[i] = transcript[i]
    BY <2>1, <2>7, Grows
  <2>9. \A q \in Runs : Own(q)' = IF r = q THEN Own(q) \cup {Stored + 1} ELSE Own(q)
    BY <2>1, <2>7, OwnAppend
  <2>10. ASSUME NEW j \in 1 .. Stored PROVE transcript[j].run < r
    <3>1. \/ transcript[j].run \in Runs
          \/ transcript[j].run <= 0 /\ transcript[j].run \in Int
      <4>1. transcript[j].run \in PastRuns \cup Runs
        <5>1. transcript[j] \in Messages
          BY Lengths
        <5> QED BY <5>1 DEF Messages, MessagesOf
      <4>2. \A p \in PastRuns : p \in Int /\ p <= 0
        BY ContextMemoryAssumption DEF ContextMemoryAssumption
      <4> QED BY <4>1, <4>2
    <3>2. transcript[j].run \in Runs => j \in Own(transcript[j].run)
      BY DEF Own
    <3>3. transcript[j].run \in Runs => transcript[j].run < r
      BY <2>2, <2>5, <2>6, <3>2
    <3> QED BY <2>5, <3>1, <3>3, ContextMemoryAssumption DEF Runs, ContextMemoryAssumption
  <2>11. BegunOK(r)'
    <3>1. \A j \in 1 .. (Stored + 1) - 1 : transcript'[j].run < r
      BY <2>8, <2>10
    <3>2. Stored + 1 \in Own(r)'
      BY <2>9
    <3>3. \A p \in 1 .. r - 1 : executor'[p].stage # "none"
      BY <2>1, <2>3, <2>5
    <3> QED BY <2>3, <2>4, <3>1, <3>2, <3>3 DEF BegunOK
  <2>12. ASSUME NEW q \in Runs \ {r} PROVE BegunOK(q)'
    <3>1. executor'[q] = executor[q] /\ Own(q)' = Own(q)
      BY <2>3, <2>9
    <3>2. \A p \in 1 .. q - 1 : executor[p].stage # "none" => executor'[p].stage # "none"
      BY <2>3, <2>4, <2>5
    <3>3. ASSUME executor'[q].stage # "none"
          PROVE  /\ \E i \in Own(q)' : \A j \in 1 .. i - 1 : transcript'[j].run < q
                 /\ \A p \in 1 .. q - 1 : executor'[p].stage # "none"
      BY <3>1, <3>2, <3>3, <1>1 DEF BegunOK
    <3> QED BY <3>1, <3>3 DEF BegunOK
  <2>13. ActiveOK'
    BY <2>1, <2>3, <2>4, <2>5, <2>6 DEF ActiveOK
  <2> QED BY <2>11, <2>12, <2>13
<1> QED BY <1>2, <1>3

-----------------------------------------------------------------------------
(* Units and pages.                                                        *)

\* A page that starts with a unit is divided as the whole transcript is.
LEMMA PageUnits ==
    ASSUME TypeOK, NEW first \in 1 .. Stored, ~Continues(first, 1), NEW i \in first .. Stored
    PROVE  Continues(i, 1) <=> Continues(i, first)
<1> Stored \in Nat
  BY Lengths
<1>1. ASSUME Continues(i, first) PROVE Continues(i, 1)
  BY <1>1 DEF Continues
<1>2. ASSUME NEW a \in 1 .. i - 1, Answers(i, a), a < first PROVE FALSE
  <2>1. a \in 1 .. first - 1
    BY <1>2
  <2>2. \A j \in a + 1 .. first : j \in a + 1 .. i
    BY <2>1
  <2>3. Answers(first, a)
    BY <1>2, <2>1, <2>2 DEF Answers
  <2> QED BY <2>1, <2>3 DEF Continues
<1>3. ASSUME Continues(i, 1) PROVE Continues(i, first)
  <2>1. PICK a \in 1 .. i - 1 : Answers(i, a)
    BY <1>3 DEF Continues
  <2>2. a \in first .. i - 1
    BY <1>2, <2>1
  <2> QED BY <2>1, <2>2 DEF Continues
<1> QED BY <1>1, <1>3

LEMMA EndsDivide ==
    ASSUME TypeOK, NEW r \in Runs, NEW c \in Ends(executor[r]), NEW i \in executor[r].kept, c < i
    PROVE  \E h \in executor[r].heads : c < h /\ h <= i
<1>1. c \in Nat /\ i \in Nat /\ \A h \in executor[r].heads : h \in Nat
  BY EndsAreKept, StageType
<1>2. ~SameUnit(executor[r], c, i)
  BY DEF Ends
<1> QED BY <1>1, <1>2 DEF SameUnit

\* What is cut off is before the run's own question.
LEMMA CutSparesOwn ==
    ASSUME TypeOK, NEW r \in Runs, executor[r].protected # 0, Compactable(executor[r]) > 0,
           NEW c \in Ends(executor[r]),
           Cardinality({d \in Ends(executor[r]) : d <= c})
              \in Halves((Compactable(executor[r]) + 1) \div 2)
    PROVE  c < executor[r].protected
<1> DEFINE ends == Ends(executor[r])
           p == executor[r].protected
           before == {d \in ends : d < p}
           cut == {d \in ends : d <= c}
<1>1. Stored \in Nat /\ p \in Nat /\ ends \subseteq 1 .. Stored
  BY StageType, EndsAreKept, Lengths
<1>2. IsFiniteSet(ends)
  <2>1. IsFiniteSet(1 .. Stored)
    BY <1>1, FS_Interval
  <2> QED BY <1>1, <2>1, FS_Subset
<1>3. IsFiniteSet(before) /\ IsFiniteSet(cut)
  BY <1>2, FS_Subset
<1>4. Cardinality(before) \in Nat /\ Cardinality(cut) \in Nat
  BY <1>3, FS_CardinalityType
<1>5. Compactable(executor[r]) = Cardinality(before)
  BY DEF Compactable
<1>6. Cardinality(cut) <= Cardinality(before)
  <2> DEFINE n == Cardinality(before)
  <2>1. Cardinality(cut) \in Halves((n + 1) \div 2) /\ n > 0
    BY <1>5
  <2>2. Cardinality(cut) \in 1 .. (n + 1) \div 2
    BY <2>1 DEF Halves
  <2>3. (n + 1) \div 2 <= n
    BY <1>4, <2>1
  <2> QED BY <1>4, <2>2, <2>3
<1>7. ASSUME p <= c PROVE FALSE
  <2>1. before \subseteq cut /\ c \in cut /\ c \notin before
    BY <1>1, <1>7
  <2>2. before \subseteq cut \ {c}
    BY <2>1
  <2>3. IsFiniteSet(cut \ {c}) /\ Cardinality(cut \ {c}) = Cardinality(cut) - 1
    BY <1>3, <2>1, FS_RemoveElement
  <2>4. Cardinality(before) <= Cardinality(cut \ {c})
    BY <2>2, <2>3, FS_Subset
  <2> QED BY <1>4, <1>6, <2>3, <2>4
<1> QED BY <1>1, <1>7

-----------------------------------------------------------------------------
(* Executors that do nothing: what others do leaves their memory as it is. *)

LEMMA Bystander ==
    ASSUME TypeOK, Keeps, NEW q \in Runs, executor'[q] = executor[q], Own(q)' = Own(q),
           ExecutorOK(q, executor[q]), ContextOK(q, executor[q])
    PROVE  ExecutorOK(q, executor[q])' /\ ContextOK(q, executor[q])'
<1> DEFINE e == executor[q]
<1>1. ExecutorOK(q, e)'
  BY DEF ExecutorOK, Ends, SameUnit
<1>2. ASSUME ~LateWriter', Live(e)', Fresh(q, e)' PROVE MemoryOK(q, e)'
  <2>1. e.held \in 0 .. Len(snapshots)
    BY StageType
  <2>2. Covered(e.held)' = Covered(e.held)
    <3>1. \A v \in 0 .. Len(snapshots) : Covered(v)' = Covered(v)
      BY SummariesStay
    <3> QED BY <2>1, <3>1 DEF Covered
  <2>3. ~LateWriter /\ Live(e) /\ Fresh(q, e)
    BY <1>2, <2>2, LateStays DEF Live, Fresh
  <2>4. MemoryOK(q, e)
    BY <2>3 DEF ContextOK
  <2>5. \A i \in 1 .. Stored : Continues(i, 1)' <=> Continues(i, 1)
    BY ExchangesStay
  <2>6. e.kept \subseteq 1 .. Stored /\ e.after \in 0 .. Stored
    BY StageType
  <2>7. e.after + 1 <= Stored => e.after + 1 \in 1 .. Stored /\ e.after + 1 <= Stored'
    BY <2>6, Lengths DEF Keeps
  <2> QED BY <2>2, <2>4, <2>5, <2>6, <2>7 DEF MemoryOK
<1> QED BY <1>1, <1>2 DEF ContextOK

\* A step of an executor that changes neither transcript nor snapshots.
LEMMA Quiet ==
    ASSUME TypeOK, NEW r \in Runs, NEW e, Move(r, e), UNCHANGED <<transcript, snapshots>>,
           ExecutorOK(r, e), ContextOK(r, e)
    PROVE  ExecutorOK(r, executor[r])' /\ ContextOK(r, executor[r])'
<1>1. executor'[r] = e
  BY MoveOne
<1>2. Own(r)' = Own(r) /\ Stored' = Stored /\ LateWriter' = LateWriter
  BY DEF Own, Stored, LateWriter
<1>3. \A i : Continues(i, 1)' <=> Continues(i, 1)
  BY DEF Continues, Answers, Calling, Role
<1>4. Covered(executor[r].held)' = Covered(e.held)
  BY <1>1 DEF Covered
<1>5. ExecutorOK(r, executor[r])'
  BY <1>1, <1>2 DEF ExecutorOK, Ends, SameUnit
<1>6. ContextOK(r, executor[r])'
  BY <1>1, <1>2, <1>3, <1>4 DEF ContextOK, Live, Fresh, MemoryOK
<1> QED BY <1>5, <1>6

-----------------------------------------------------------------------------
(* The steps of an executor that changes neither transcript nor snapshots. *)

LEMMA StopOK ==
    ASSUME IInv, NEW r \in Runs, Stop(r)
    PROVE  ExecutorOK(r, executor[r])' /\ ContextOK(r, executor[r])'
<1> DEFINE e == [Idle EXCEPT !.stage = "over"]
<1>1. /\ e.stage = "over" /\ e.loaded = FALSE /\ e.kept = {} /\ e.heads = {}
      /\ e.protected = 0 /\ e.open = 0
  BY DEF Idle
<1>2. ExecutorOK(r, e) /\ ContextOK(r, e)
  BY <1>1 DEF ExecutorOK, ContextOK, Live
<1> QED BY <1>2, Quiet DEF Stop, IInv

LEMMA LoadSnapshotOK ==
    ASSUME IInv, NEW r \in Runs, LoadSnapshot(r)
    PROVE  ExecutorOK(r, executor[r])' /\ ContextOK(r, executor[r])'
<1> TypeOK /\ BegunOK(r) /\ ExecutorOK(r, executor[r]) /\ SnapshotsOK
  BY DEF IInv, RunOK
<1> DEFINE last == Len(snapshots)
           e == [executor[r] EXCEPT !.stage = "paging", !.held = last, !.after = Covered(last)]
<1>1. executor[r] = [Idle EXCEPT !.stage = "accepted"]
  BY DEF LoadSnapshot, BegunOK
<1>2. /\ executor[r].kept = {} /\ executor[r].heads = {} /\ ~executor[r].loaded
      /\ executor[r].protected = 0 /\ executor[r].open = 0
  BY <1>1 DEF Idle
<1>3. /\ e.kept = {} /\ e.heads = {} /\ ~e.loaded /\ e.protected = 0 /\ e.open = 0
      /\ e.stage = "paging" /\ e.held = last /\ e.after = Covered(last)
  BY <1>2, StageType DEF Executors
<1>4. ExecutorOK(r, e)
  BY <1>2, <1>3 DEF ExecutorOK, LoadSnapshot
<1>5. ASSUME ~LateWriter PROVE MemoryOK(r, e)
  <2>1. last \in Nat /\ Stored \in Nat /\ Covered(last) \in 0 .. Stored
    BY Lengths, CoveredType
  <2>2. CASE last = 0
    <3>1. Covered(last) = 0
      BY <2>2 DEF Covered
    <3>2. ~Continues(1, 1)
      BY DEF Continues
    <3>3. \E i \in Own(r) : TRUE
      BY DEF LoadSnapshot, BegunOK
    <3>4. 1 <= Stored
      BY <2>1, <3>3, OwnType
    <3> QED BY <1>3, <2>1, <3>1, <3>2, <3>4 DEF MemoryOK
  <2>3. CASE last # 0
    <3>1. SnapshotOK(last) /\ Covered(last) = snapshots[last].covered
      BY <1>5, <2>1, <2>3 DEF SnapshotsOK, Covered
    <3> QED BY <1>3, <2>1, <3>1 DEF MemoryOK, SnapshotOK
  <2> QED BY <2>2, <2>3
<1>6. ExecutorOK(r, e) /\ ContextOK(r, e)
  BY <1>4, <1>5 DEF ContextOK
<1>7. Move(r, e) /\ UNCHANGED <<transcript, snapshots>>
  BY DEF LoadSnapshot
<1> QED BY <1>6, <1>7, Quiet

LEMMA ReadPageOK ==
    ASSUME IInv, NEW r \in Runs, ReadPage(r)
    PROVE  ExecutorOK(r, executor[r])' /\ ContextOK(r, executor[r])'
<1> TypeOK /\ BegunOK(r) /\ ExecutorOK(r, executor[r]) /\ ContextOK(r, executor[r])
  BY DEF IInv, RunOK
<1> DEFINE f == executor[r]
           first == f.after + 1
           e(last) == [f EXCEPT !.stage = "compacting",
                                !.loaded = Fits(f.after),
                                !.after = last,
                                !.protected = IF @ = 0 THEN OwnFirst(r, first, last) ELSE @,
                                !.kept = @ \cup first .. last,
                                !.heads = @ \cup BuildUnits(first, last)]
<1>1. f.stage = "paging" /\ ~f.loaded
  BY DEF ReadPage, ExecutorOK
<1>2. PICK last \in first .. Stored :
        /\ IF Fits(f.after) THEN last = Stored ELSE SafeMessagePageCut(first, last)
        /\ Move(r, e(last))
  BY DEF ReadPage
<1>3. /\ e(last).stage = "compacting" /\ e(last).loaded = Fits(f.after)
      /\ e(last).after = last /\ e(last).held = f.held /\ e(last).open = f.open
      /\ e(last).protected = IF f.protected = 0 THEN OwnFirst(r, first, last) ELSE f.protected
      /\ e(last).kept = f.kept \cup first .. last
      /\ e(last).heads = f.heads \cup BuildUnits(first, last)
  BY StageType DEF Executors
<1>4. /\ Stored \in Nat /\ f.after \in 0 .. Stored /\ last \in Nat /\ last <= Stored
      /\ first \in 1 .. Stored /\ f.after < last /\ f.kept \subseteq 1 .. Stored
      /\ f.heads \subseteq f.kept
  BY <1>2, StageType, Lengths DEF ExecutorOK
<1>5. \A i, j \in Own(r) : i = j
  BY <1>1 DEF ExecutorOK
<1>6. f.open = 0
  BY <1>1 DEF ExecutorOK
<1>7. ExecutorOK(r, e(last))
  <2>1. e(last).heads \subseteq e(last).kept
    BY <1>3, <1>4 DEF BuildUnits
  <2>2. ASSUME e(last).loaded PROVE \E i \in Own(r) : i <= last
    <3>1. last = Stored
      BY <1>2, <1>3, <2>2
    <3>2. \E i \in Own(r) : TRUE
      BY <1>1 DEF BegunOK
    <3> QED BY <3>1, <3>2, <1>4, OwnType
  <2>3. ASSUME e(last).protected # 0
        PROVE  e(last).protected \in Own(r) /\ \A i \in Own(r) : e(last).protected <= i
    BY <1>3, <1>5, <2>3, OwnFirstOK DEF ExecutorOK
  <2> QED BY <1>3, <1>5, <1>6, <2>1, <2>2, <2>3 DEF ExecutorOK
<1>8. ASSUME ~LateWriter, Fresh(r, e(last)) PROVE MemoryOK(r, e(last))
  <2>1. MemoryOK(r, f)
    BY <1>1, <1>3, <1>8 DEF ContextOK, Live, Fresh
  <2>2. Covered(e(last).held) = Covered(f.held) /\ Covered(f.held) <= f.after
        /\ Covered(f.held) \in Nat
    BY <1>1, <1>3, <2>1, StageType, CoveredType DEF MemoryOK
  <2>3. ~Continues(first, 1)
    BY <1>1, <2>1 DEF MemoryOK
  <2>4. \A i \in f.kept : i <= f.after
    BY <1>1, <1>4, <2>1 DEF MemoryOK
  <2>5. \A i \in e(last).kept : Covered(f.held) < i /\ i <= last
    BY <1>3, <1>4, <2>1, <2>2, <2>4 DEF MemoryOK
  <2>6. \A i \in 1 .. last : Covered(f.held) < i => i \in e(last).kept
    BY <1>3, <1>4, <2>1 DEF MemoryOK
  <2>7. ASSUME NEW i \in e(last).kept PROVE i \in e(last).heads <=> ~Continues(i, 1)
    <3>1. CASE i \in f.kept
      <4>1. i \in f.heads <=> ~Continues(i, 1)
        BY <2>1, <2>4, <3>1 DEF MemoryOK
      <4>2. i \notin BuildUnits(first, last)
        BY <1>4, <2>4, <3>1 DEF BuildUnits
      <4> QED BY <1>3, <4>1, <4>2
    <3>2. CASE i \in first .. last
      <4>1. i \notin f.heads
        BY <1>4, <2>4, <3>2
      <4>2. Continues(i, 1) <=> Continues(i, first)
        BY <1>4, <2>3, <3>2, PageUnits
      <4> QED BY <1>3, <3>2, <4>1, <4>2 DEF BuildUnits
    <3> QED BY <1>3, <3>1, <3>2
  <2>8. ASSUME ~e(last).loaded PROVE last + 1 <= Stored /\ ~Continues(last + 1, 1)
    <3>1. ~Fits(f.after) /\ SafeMessagePageCut(first, last)
      BY <1>2, <1>3, <2>8
    <3>2. last < first + PageSize /\ Role(last + 1) # "tool"
      BY <3>1 DEF SafeMessagePageCut
    <3>3. last + 1 <= Stored
      BY <1>4, <3>1, <3>2, ContextMemoryAssumption DEF Fits, ContextMemoryAssumption
    <3>4. ASSUME NEW a \in 1 .. (last + 1) - 1 PROVE ~Answers(last + 1, a)
      <4>1. last + 1 \in a + 1 .. last + 1
        BY <1>4
      <4> QED BY <3>2, <4>1 DEF Answers
    <3> QED BY <3>3, <3>4 DEF Continues
  <2>9. ASSUME e(last).loaded PROVE \A i \in Own(r) : i <= last
    <3>1. last = Stored
      BY <1>2, <1>3, <2>9
    <3> QED BY <3>1, <1>4, OwnType
  <2>10. \A i \in e(last).kept : ~(last < i)
    BY <1>3, <1>4, <2>5
  <2> QED BY <1>3, <1>6, <2>2, <2>5, <2>6, <2>7, <2>8, <2>9, <2>10 DEF MemoryOK
<1>9. ContextOK(r, e(last))
  BY <1>8 DEF ContextOK
<1>10. UNCHANGED <<transcript, snapshots>>
  BY DEF ReadPage
<1> QED BY <1>2, <1>7, <1>9, <1>10, Quiet

LEMMA NextPageOK ==
    ASSUME IInv, NEW r \in Runs, NextPage(r)
    PROVE  ExecutorOK(r, executor[r])' /\ ContextOK(r, executor[r])'
<1> TypeOK /\ ExecutorOK(r, executor[r]) /\ ContextOK(r, executor[r]) /\ SnapshotsOK
  BY DEF IInv, RunOK
<1> DEFINE f == executor[r]
           covered == Covered(f.held)
           e == [f EXCEPT !.stage = IF f.loaded THEN "asking" ELSE "paging",
                          !.after = IF @ < Covered(f.held) THEN Covered(f.held) ELSE @]
<1>1. f.stage = "compacting" /\ f.open = 0
  BY DEF NextPage, ExecutorOK
<1>2. /\ e.stage = (IF f.loaded THEN "asking" ELSE "paging") /\ e.loaded = f.loaded
      /\ e.after = (IF f.after < covered THEN covered ELSE f.after)
      /\ e.held = f.held /\ e.open = f.open /\ e.protected = f.protected
      /\ e.kept = f.kept /\ e.heads = f.heads
  BY StageType DEF Executors
<1>3. /\ f.held \in 0 .. Len(snapshots) /\ Len(snapshots) \in Nat
      /\ covered \in 0 .. Stored /\ f.after \in 0 .. Stored /\ Stored \in Nat
      /\ f.kept \subseteq 1 .. Stored /\ Own(r) \subseteq 1 .. Stored
      /\ f.loaded \in BOOLEAN
  BY StageType, CoveredType, Lengths, OwnType
<1>4. f.after <= e.after /\ covered <= e.after /\ e.after \in Nat
  BY <1>2, <1>3
<1>5. ExecutorOK(r, e)
  <2>1. f.loaded => \E i \in Own(r) : i <= e.after
    BY <1>3, <1>4 DEF ExecutorOK
  <2> QED BY <1>1, <1>2, <1>3, <2>1 DEF ExecutorOK
<1>6. ASSUME ~LateWriter, Fresh(r, e) PROVE MemoryOK(r, e)
  <2>1. MemoryOK(r, f)
    BY <1>1, <1>2, <1>6 DEF ContextOK, Live, Fresh
  <2>2. CASE f.after >= covered
    <3>1. e.after = f.after
      BY <1>2, <1>3, <2>2
    <3> QED BY <1>1, <1>2, <2>1, <2>2, <3>1 DEF MemoryOK
  <2>3. CASE f.after < covered
    <3>1. e.after = covered
      BY <1>2, <2>3
    <3>2. f.held # 0 /\ f.held \in 1 .. Len(snapshots)
      BY <1>3, <2>3 DEF Covered
    <3>3. SnapshotOK(f.held) /\ covered = snapshots[f.held].covered
      BY <1>6, <3>2 DEF SnapshotsOK, Covered
    <3>4. \A i \in f.kept : covered < i
      BY <2>1 DEF MemoryOK
    <3>5. \A i \in f.kept : ~(i <= covered) /\ f.after < i
      BY <1>3, <2>3, <3>4
    <3>6. \A i \in f.kept :
            i \in Own(r) /\ f.loaded /\ \E h \in f.heads : covered < h /\ h <= i
      <4>1. f.heads \subseteq f.kept
        BY DEF ExecutorOK
      <4> QED BY <2>1, <3>4, <3>5, <4>1 DEF MemoryOK
    <3>7. \A i \in Own(r) : f.loaded => i <= covered \/ i \in f.kept
      BY <1>3, <2>1, <2>3 DEF MemoryOK
    <3>8. \A i \in 1 .. covered : ~(covered < i)
      BY <1>3
    <3>9. ~Continues(covered + 1, 1) /\ covered + 1 <= Stored
      BY <3>3 DEF SnapshotOK
    <3> QED BY <1>1, <1>2, <1>3, <3>1, <3>4, <3>5, <3>6, <3>7, <3>8, <3>9 DEF MemoryOK
  <2> QED BY <1>3, <2>2, <2>3
<1>7. ContextOK(r, e)
  BY <1>6 DEF ContextOK
<1> QED BY <1>5, <1>7, Quiet DEF NextPage

\* Steps that leave what is kept as it is.
LEMMA SameMemory ==
    ASSUME NEW r \in Runs, NEW e, NEW f, ContextOK(r, f), Live(f),
           e.stage # "paging" /\ e.loaded = f.loaded /\ e.after = f.after /\ e.held = f.held,
           e.open = f.open /\ e.kept = f.kept /\ e.heads = f.heads
    PROVE  ContextOK(r, e)
  BY DEF ContextOK, Fresh, MemoryOK

LEMMA SummariseOK ==
    ASSUME IInv, NEW r \in Runs, Summarise(r)
    PROVE  ExecutorOK(r, executor[r])' /\ ContextOK(r, executor[r])'
<1> TypeOK /\ ExecutorOK(r, executor[r]) /\ ContextOK(r, executor[r])
  BY DEF IInv, RunOK
<1> DEFINE f == executor[r]
           e(c, n) == [f EXCEPT !.stage = "summarised", !.cut = c, !.calls = @ + n]
<1>1. PICK c \in Ends(f), n \in 1 .. SummaryAttempts :
        /\ Cardinality({d \in Ends(f) : d <= c}) \in Halves((Compactable(f) + 1) \div 2)
        /\ Move(r, e(c, n))
  BY DEF Summarise
<1>2. f.stage \in {"compacting", "asking"} /\ f.open = 0 /\ Compactable(f) > 0
  BY DEF Summarise, MayCompact
<1>3. /\ e(c, n).stage = "summarised" /\ e(c, n).cut = c /\ e(c, n).loaded = f.loaded
      /\ e(c, n).after = f.after /\ e(c, n).held = f.held /\ e(c, n).open = f.open
      /\ e(c, n).protected = f.protected /\ e(c, n).kept = f.kept /\ e(c, n).heads = f.heads
  BY StageType DEF Executors
<1>4. f.protected # 0 => c < f.protected
  BY <1>1, <1>2, CutSparesOwn
<1>5. c \in Ends(e(c, n))
  BY <1>1, <1>3 DEF Ends, SameUnit
<1>6. ExecutorOK(r, e(c, n))
  BY <1>2, <1>3, <1>4, <1>5 DEF ExecutorOK
<1>7. ContextOK(r, e(c, n))
  BY <1>2, <1>3, SameMemory DEF Live
<1> QED BY <1>1, <1>6, <1>7, Quiet DEF Summarise

LEMMA FailSummaryOK ==
    ASSUME IInv, NEW r \in Runs, FailSummary(r)
    PROVE  ExecutorOK(r, executor[r])' /\ ContextOK(r, executor[r])'
<1> TypeOK /\ ExecutorOK(r, executor[r]) /\ ContextOK(r, executor[r])
  BY DEF IInv, RunOK
<1> DEFINE f == executor[r]
           e(n) == [f EXCEPT !.failed = TRUE, !.calls = @ + n]
<1>1. PICK n : Move(r, e(n))
  BY DEF FailSummary
<1>2. f.stage \in {"compacting", "asking"} /\ f.open = 0
  BY DEF FailSummary, MayCompact
<1>3. /\ e(n).stage = f.stage /\ e(n).loaded = f.loaded
      /\ e(n).after = f.after /\ e(n).held = f.held /\ e(n).open = f.open
      /\ e(n).protected = f.protected /\ e(n).kept = f.kept /\ e(n).heads = f.heads
  BY StageType DEF Executors
<1>4. ExecutorOK(r, e(n))
  BY <1>2, <1>3 DEF ExecutorOK
<1>5. ContextOK(r, e(n))
  BY <1>2, <1>3, SameMemory DEF Live
<1> QED BY <1>1, <1>4, <1>5, Quiet DEF FailSummary

LEMMA LoseSnapshotOK ==
    ASSUME IInv, NEW r \in Runs, LoseSnapshot(r)
    PROVE  ExecutorOK(r, executor[r])' /\ ContextOK(r, executor[r])'
<1> TypeOK /\ ExecutorOK(r, executor[r]) /\ ContextOK(r, executor[r])
  BY DEF IInv, RunOK
<1> DEFINE f == executor[r]
           e == [f EXCEPT !.stage = "conflict"]
<1>1. f.stage = "summarised"
  BY DEF LoseSnapshot
<1>2. /\ e.stage = "conflict" /\ e.cut = f.cut /\ e.loaded = f.loaded
      /\ e.after = f.after /\ e.held = f.held /\ e.open = f.open
      /\ e.protected = f.protected /\ e.kept = f.kept /\ e.heads = f.heads
  BY StageType DEF Executors
<1>3. f.cut \in Ends(f) => e.cut \in Ends(e)
  BY <1>2 DEF Ends, SameUnit
<1>4. ExecutorOK(r, e)
  BY <1>1, <1>2, <1>3 DEF ExecutorOK
<1>5. ContextOK(r, e)
  BY <1>1, <1>2, SameMemory DEF Live
<1> QED BY <1>4, <1>5, Quiet DEF LoseSnapshot

LEMMA GiveUpSnapshotOK ==
    ASSUME IInv, NEW r \in Runs, GiveUpSnapshot(r)
    PROVE  ExecutorOK(r, executor[r])' /\ ContextOK(r, executor[r])'
<1> TypeOK /\ ExecutorOK(r, executor[r]) /\ ContextOK(r, executor[r])
  BY DEF IInv, RunOK
<1> DEFINE f == executor[r]
           e == [f EXCEPT !.stage = Back(f), !.failed = TRUE, !.cut = 0]
<1>1. f.stage \in {"summarised", "conflict"}
  BY DEF GiveUpSnapshot
<1>2. /\ e.stage = Back(f) /\ e.loaded = f.loaded
      /\ e.after = f.after /\ e.held = f.held /\ e.open = f.open
      /\ e.protected = f.protected /\ e.kept = f.kept /\ e.heads = f.heads
  BY StageType DEF Executors
<1>3. Back(f) = IF f.loaded THEN "asking" ELSE "compacting"
  BY DEF Back
<1>4. ExecutorOK(r, e)
  BY <1>1, <1>2, <1>3 DEF ExecutorOK
<1>5. ContextOK(r, e)
  BY <1>1, <1>2, <1>3, SameMemory DEF Live
<1> QED BY <1>4, <1>5, Quiet DEF GiveUpSnapshot

LEMMA AdoptSnapshotOK ==
    ASSUME IInv, NEW r \in Runs, AdoptSnapshot(r)
    PROVE  ExecutorOK(r, executor[r])' /\ ContextOK(r, executor[r])'
<1> TypeOK /\ ExecutorOK(r, executor[r]) /\ ContextOK(r, executor[r]) /\ SnapshotsOK
  BY DEF IInv, RunOK
<1> DEFINE f == executor[r]
           last == Len(snapshots)
           covered == Covered(last)
           drop == DropCovered(f, covered)
           e == [f EXCEPT !.stage = Back(f), !.held = last, !.cut = 0,
                          !.kept = drop, !.heads = @ \cap drop]
<1>1. f.stage = "conflict" /\ f.open = 0
  BY DEF AdoptSnapshot, ExecutorOK
<1>2. /\ e.stage = Back(f) /\ e.loaded = f.loaded
      /\ e.after = f.after /\ e.held = last /\ e.open = f.open
      /\ e.protected = f.protected /\ e.kept = drop /\ e.heads = f.heads \cap drop
  BY StageType DEF Executors
<1>3. Back(f) = IF f.loaded THEN "asking" ELSE "compacting"
  BY DEF Back
<1>4. ExecutorOK(r, e)
  BY <1>1, <1>2, <1>3 DEF ExecutorOK
<1>5. /\ f.held \in 0 .. last /\ last \in Nat
      /\ covered \in 0 .. Stored /\ f.after \in 0 .. Stored /\ Stored \in Nat
      /\ f.kept \subseteq 1 .. Stored /\ f.heads \subseteq f.kept
      /\ Covered(f.held) \in 0 .. Stored /\ Own(r) \subseteq 1 .. Stored
  BY StageType, CoveredType, Lengths, OwnType DEF ExecutorOK
<1>6. ASSUME ~LateWriter, Fresh(r, e) PROVE MemoryOK(r, e)
  <2>1. Covered(f.held) <= covered
    <3>1. CASE f.held = 0
      BY <3>1, <1>5 DEF Covered
    <3>2. CASE f.held = last
      BY <3>2, <1>5
    <3>3. CASE f.held # 0 /\ f.held # last
      <4>1. f.held \in 1 .. last /\ last \in 1 .. last /\ f.held < last
        BY <1>5, <3>3
      <4>2. snapshots[f.held].covered < snapshots[last].covered
        BY <4>1 DEF SnapshotsOK
      <4> QED BY <1>5, <4>1, <4>2 DEF Covered
    <3> QED BY <3>1, <3>2, <3>3
  <2>2. \A i \in Own(r) : covered < i
    BY <1>2, <1>6 DEF Fresh
  <2>3. MemoryOK(r, f)
    <3>1. Fresh(r, f)
      BY <1>5, <2>1, <2>2 DEF Fresh
    <3> QED BY <1>1, <1>6, <3>1 DEF ContextOK, Live
  <2>4. ASSUME NEW i \in f.kept, covered < i PROVE i \in drop
    <3>1. SameUnit(f, i, i) /\ i <= i
      BY <1>5 DEF SameUnit
    <3> QED BY <2>4, <3>1 DEF DropCovered
  <2>5. ASSUME NEW i \in drop PROVE covered < i /\ i \in f.kept
    <3>1. PICK j \in f.kept : i <= j /\ SameUnit(f, i, j) /\ covered < j
      BY DEF DropCovered
    <3>2. i \in f.kept /\ i \in Nat /\ j \in Nat /\ Covered(f.held) < i
      BY <1>5, <2>3, DropIsKept DEF MemoryOK
    <3>3. ASSUME i <= covered PROVE FALSE
      <4>1. i <= f.after
        BY <1>5, <2>2, <2>3, <3>2, <3>3 DEF MemoryOK
      <4>2. CASE covered + 1 <= f.after
        <5>1. covered + 1 \in 1 .. f.after /\ Covered(f.held) < covered + 1
          BY <1>5, <2>1, <4>2
        <5>2. covered + 1 \in f.kept
          BY <2>3, <5>1 DEF MemoryOK
        <5>3. last # 0 /\ last \in 1 .. last
          BY <1>5, <3>2, <3>3 DEF Covered
        <5>4. SnapshotOK(last) /\ covered = snapshots[last].covered
          BY <1>6, <5>3 DEF SnapshotsOK, Covered
        <5>5. covered + 1 \in f.heads
          BY <2>3, <4>2, <5>2, <5>4 DEF MemoryOK, SnapshotOK
        <5>6. ~(covered + 1 <= i) /\ ~(j < covered + 1)
          BY <1>5, <3>1, <3>2, <3>3
        <5> QED BY <3>1, <5>5, <5>6 DEF SameUnit
      <4>3. CASE f.after <= covered
        <5>1. f.after < j
          BY <1>5, <3>1, <3>2, <4>3
        <5>2. PICK h \in f.heads : f.after < h /\ h <= j
          BY <2>3, <5>1 DEF MemoryOK
        <5>3. ~(h <= i) /\ ~(j < h)
          BY <1>5, <3>2, <4>1, <5>2
        <5> QED BY <3>1, <5>3 DEF SameUnit
      <4> QED BY <1>5, <4>2, <4>3
    <3> QED BY <1>5, <3>2, <3>3
  <2>6. \A i \in 1 .. f.after : covered < i => i \in drop
    BY <1>5, <2>1, <2>3, <2>4 DEF MemoryOK
  <2>7. \A i \in drop : i <= f.after => (i \in e.heads <=> ~Continues(i, 1))
    BY <1>2, <2>3, <2>5 DEF MemoryOK
  <2>8. ASSUME NEW i \in drop, f.after < i
        PROVE  i \in Own(r) /\ f.loaded /\ \E h \in e.heads : f.after < h /\ h <= i
    <3>1. i \in Own(r) /\ f.loaded /\ \E h \in f.heads : f.after < h /\ h <= i
      BY <2>3, <2>5, <2>8 DEF MemoryOK
    <3>2. PICK h \in f.heads : f.after < h /\ h <= i
      BY <3>1
    <3>3. h \in f.kept /\ h \in Own(r)
      BY <1>5, <2>3, <3>2 DEF MemoryOK
    <3>4. h \in drop
      BY <2>2, <2>4, <3>3
    <3> QED BY <1>2, <3>1, <3>2, <3>4
  <2>9. f.loaded => \A i \in Own(r) : i <= f.after \/ i \in drop
    BY <2>2, <2>3, <2>4 DEF MemoryOK
  <2>10. ~f.loaded => f.after + 1 <= Stored /\ ~Continues(f.after + 1, 1)
    BY <2>3 DEF MemoryOK
  <2>11. Covered(e.held) = covered
    BY <1>2
  <2> QED BY <1>1, <1>2, <1>3, <2>5, <2>6, <2>7, <2>8, <2>9, <2>10, <2>11 DEF MemoryOK
<1>7. ContextOK(r, e)
  BY <1>6 DEF ContextOK
<1>8. Move(r, e) /\ UNCHANGED <<transcript, snapshots>>
  BY DEF AdoptSnapshot
<1> QED BY <1>4, <1>7, <1>8, Quiet

-----------------------------------------------------------------------------
(* The steps that write.                                                   *)

LEMMA StagesStay ==
    ASSUME TypeOK, Next, NEW q \in Runs, executor[q].stage # "none"
    PROVE  executor'[q].stage # "none"
<1>1. CASE \A r \in Runs : ~AcceptRun(r)
  BY <1>1, StageSteps
<1>2. ASSUME NEW r \in Runs, AcceptRun(r) PROVE executor'[q].stage # "none"
  <2>1. q # r /\ Move(r, [executor[r] EXCEPT !.stage = "accepted"])
    BY <1>2 DEF AcceptRun
  <2> QED BY <2>1, MoveOne
<1> QED BY <1>1, <1>2

LEMMA SnapshotStays ==
    ASSUME TypeOK, Next, NEW v \in 1 .. Len(snapshots), SnapshotOK(v)
    PROVE  SnapshotOK(v)'
<1>1. Keeps
  BY NextKeeps
<1>2. snapshots'[v] = snapshots[v] /\ snapshots[v] \in Snapshots /\ Stored \in Nat
  BY <1>1, Lengths DEF Keeps
<1>3. PICK c \in Nat : c = snapshots[v].covered /\ c + 1 \in 1 .. Stored
  BY <1>2 DEF SnapshotOK, Snapshots
<1>4. c + 1 <= Stored' /\ ~Continues(c + 1, 1)'
  <2>1. ~Continues(c + 1, 1)
    BY <1>3 DEF SnapshotOK
  <2>2. Continues(c + 1, 1)' <=> Continues(c + 1, 1)
    BY <1>1, <1>3, ExchangesStay
  <2>3. c + 1 <= Stored'
    BY <1>1, <1>2, <1>3 DEF Keeps
  <2> QED BY <2>1, <2>2, <2>3
<1>5. PICK q \in Runs : executor[q].stage # "none" /\ \A i \in Own(q) : c < i
  BY <1>3 DEF SnapshotOK
<1>6. executor'[q].stage # "none"
  BY <1>5, StagesStay
<1>7. \A i \in Own(q)' : c < i
  <2>1. c < Stored + 1
    BY <1>2, <1>3
  <2>2. Own(q)' = Own(q) \/ Own(q)' = Own(q) \cup {Stored + 1}
    BY OwnSteps
  <2> QED BY <1>5, <2>1, <2>2
<1>8. snapshots'[v].covered = c
  BY <1>2, <1>3 DEF SnapshotOK
<1> QED BY <1>4, <1>6, <1>7, <1>8 DEF SnapshotOK

\* A writer that covers none of its run's messages has read what it covers.
LEMMA WriteSpares ==
    ASSUME IInv, Next, NEW r \in Runs, WriteSnapshot(r), ~LateWriter'
    PROVE  /\ ~LateWriter /\ Fresh(r, executor[r]) /\ MemoryOK(r, executor[r])
           /\ \A i \in Own(r) : executor[r].cut < i
           /\ executor[r].cut <= executor[r].after
<1> /\ TypeOK /\ ExecutorOK(r, executor[r]) /\ ContextOK(r, executor[r])
    /\ Keeps
  BY NextKeeps DEF IInv, RunOK
<1> DEFINE f == executor[r]
           late == f.protected = 0 /\ \E i \in Own(r) : i <= f.cut
<1>1. /\ f.stage = "summarised" /\ Covered(f.held) < f.cut
      /\ \E knows : snapshots' = Append(snapshots,
            [covered |-> f.cut, knows |-> knows, late |-> late])
  BY DEF WriteSnapshot
<1>2. /\ Stored \in Nat /\ f.after \in 0 .. Stored
      /\ f.cut \in 0 .. Stored /\ f.kept \subseteq 1 .. Stored
      /\ Covered(f.held) \in 0 .. Stored /\ Own(r) \subseteq 1 .. Stored
  BY StageType, CoveredType, Lengths, OwnType
<1>3. f.cut \in f.kept /\ (f.protected # 0 => f.cut < f.protected)
  BY <1>1, EndsAreKept DEF ExecutorOK
<1>4. ~late
  <2> HIDE DEF late
  <2>1. PICK new : snapshots' = Append(snapshots, new) /\ new.late = late
    BY <1>1
  <2>2. Len(snapshots) + 1 \in DOMAIN snapshots' /\ snapshots'[Len(snapshots) + 1] = new
    BY <2>1 DEF TypeOK
  <2> QED BY <2>1, <2>2 DEF LateWriter
<1>5. \A i \in Own(r) : f.cut < i
  <2>1. f.protected # 0 => f.protected \in Own(r) /\ \A i \in Own(r) : f.protected <= i
    BY DEF ExecutorOK
  <2> QED BY <1>2, <1>3, <1>4, <2>1
<1>6. ~LateWriter /\ Fresh(r, f)
  BY <1>1, <1>2, <1>5, LateStays DEF Fresh
<1>7. MemoryOK(r, f)
  BY <1>1, <1>6 DEF ContextOK, Live
<1>8. f.cut <= f.after
  BY <1>2, <1>3, <1>5, <1>7 DEF MemoryOK
<1> QED BY <1>5, <1>6, <1>7, <1>8

LEMMA WriteSnapshotOK ==
    ASSUME IInv, Next, NEW r \in Runs, WriteSnapshot(r)
    PROVE  ExecutorOK(r, executor[r])' /\ ContextOK(r, executor[r])' /\ SnapshotsOK'
<1> /\ TypeOK /\ BegunOK(r) /\ ExecutorOK(r, executor[r]) /\ ContextOK(r, executor[r])
    /\ SnapshotsOK /\ Keeps
  BY NextKeeps DEF IInv, RunOK
<1> DEFINE f == executor[r]
           last == Len(snapshots)
           new == [covered |-> f.cut, knows |-> Known(f.held) \cup (Segment(f) \cap replayed[r]),
                   late |-> f.protected = 0 /\ \E i \in Own(r) : i <= f.cut]
           e == [f EXCEPT !.stage = Back(f), !.held = @ + 1, !.cut = 0,
                          !.kept = @ \ Segment(f), !.heads = @ \ Segment(f)]
<1>1. /\ f.stage = "summarised" /\ f.open = 0 /\ f.held = last /\ Covered(f.held) < f.cut
      /\ snapshots' = Append(snapshots, new) /\ Move(r, e) /\ UNCHANGED transcript
  BY DEF WriteSnapshot, ExecutorOK
<1>2. /\ e.stage = Back(f) /\ e.loaded = f.loaded
      /\ e.after = f.after /\ e.held = last + 1 /\ e.open = f.open
      /\ e.protected = f.protected /\ e.kept = f.kept \ Segment(f)
      /\ e.heads = f.heads \ Segment(f)
  BY <1>1, StageType DEF Executors
<1>3. Back(f) = IF f.loaded THEN "asking" ELSE "compacting"
  BY DEF Back
<1>4. /\ last \in Nat /\ Stored \in Nat /\ f.after \in 0 .. Stored
      /\ f.cut \in 0 .. Stored /\ f.kept \subseteq 1 .. Stored /\ f.heads \subseteq f.kept
      /\ Covered(f.held) \in 0 .. Stored /\ Own(r) \subseteq 1 .. Stored
      /\ f.loaded \in BOOLEAN
  BY StageType, CoveredType, Lengths, OwnType DEF ExecutorOK
<1>5. executor'[r] = e
  BY <1>1, MoveOne
<1>6. Own(r)' = Own(r) /\ Stored' = Stored /\ \A i : Continues(i, 1)' <=> Continues(i, 1)
  BY <1>1 DEF Own, Stored, Continues, Answers, Calling, Role
<1>7. /\ Len(snapshots') = last + 1 /\ snapshots'[last + 1] = new
      /\ \A v \in 1 .. last : snapshots'[v] = snapshots[v]
      /\ DOMAIN snapshots' = 1 .. last + 1
  BY <1>1 DEF TypeOK
<1>8. Covered(executor[r].held)' = f.cut
  <2>1. executor'[r].held = last + 1 /\ last + 1 # 0
    BY <1>2, <1>4, <1>5
  <2> QED BY <1>7, <2>1 DEF Covered
<1>9. f.cut \in Ends(f) /\ f.cut \in f.kept /\ (f.protected # 0 => f.cut < f.protected)
  BY <1>1, EndsAreKept DEF ExecutorOK
<1>10. ExecutorOK(r, executor[r])'
  <2>1. f.loaded => \E i \in Own(r) : i <= f.after
    BY DEF ExecutorOK
  <2>2. e.heads \subseteq e.kept
    BY <1>2, <1>4
  <2>3. ~f.loaded => \A i, j \in Own(r) : i = j
    BY <1>1 DEF ExecutorOK
  <2>4. f.protected # 0 => f.protected \in Own(r) /\ \A i \in Own(r) : f.protected <= i
    BY DEF ExecutorOK
  <2>5. ExecutorOK(r, e)
    BY <1>1, <1>2, <1>3, <2>1, <2>2, <2>3, <2>4 DEF ExecutorOK
  <2> QED BY <1>5, <1>6, <2>5 DEF ExecutorOK, Ends, SameUnit
<1>11. ASSUME \A i \in Own(r) : f.cut < i, ~LateWriter PROVE MemoryOK(r, f)
  <2>1. Fresh(r, f)
    BY <1>1, <1>4, <1>11 DEF Fresh
  <2> QED BY <1>1, <1>11, <2>1 DEF ContextOK, Live
<1>12. ~LateWriter' => ~LateWriter
  BY LateStays
<1>13. ASSUME ~LateWriter', Fresh(r, executor[r])' PROVE MemoryOK(r, executor[r])'
  <2>1. \A i \in Own(r) : f.cut < i
    BY <1>6, <1>8, <1>13 DEF Fresh
  <2>2. MemoryOK(r, f)
    BY <1>11, <1>12, <1>13, <2>1
  <2>3. \A i \in e.kept : f.cut < i /\ i \in f.kept
    BY <1>2, <1>4 DEF Segment
  <2>4. \A i \in f.kept : f.cut < i => i \in e.kept
    BY <1>2, <1>4 DEF Segment
  <2>5. \A i \in f.heads : f.cut < i => i \in e.heads
    BY <1>2, <1>4 DEF Segment
  <2>6. \A i \in 1 .. e.after : f.cut < i => i \in e.kept
    BY <1>1, <1>2, <1>4, <2>2, <2>4 DEF MemoryOK
  <2>7. \A i \in e.kept : i <= e.after => (i \in e.heads <=> ~Continues(i, 1))
    BY <1>2, <2>2, <2>3, <2>5 DEF MemoryOK
  <2>8. ASSUME NEW i \in e.kept, e.after < i
        PROVE  i \in Own(r) /\ e.loaded /\ \E h \in e.heads : e.after < h /\ h <= i
    <3>1. i \in Own(r) /\ f.loaded /\ \E h \in f.heads : f.after < h /\ h <= i
      BY <1>2, <2>2, <2>3, <2>8 DEF MemoryOK
    <3>2. PICK h \in f.heads : f.after < h /\ h <= i
      BY <3>1
    <3>3. h \in f.kept /\ h \in Own(r)
      BY <1>4, <2>2, <3>2 DEF MemoryOK
    <3>4. h \in e.heads
      BY <2>1, <2>5, <3>3
    <3> QED BY <1>2, <3>1, <3>2, <3>4
  <2>9. e.loaded => \A i \in Own(r) : i <= e.after \/ i \in e.kept
    BY <1>2, <2>1, <2>2, <2>4 DEF MemoryOK
  <2>10. ~e.loaded => e.after + 1 <= Stored /\ ~Continues(e.after + 1, 1)
    BY <1>2, <2>2 DEF MemoryOK
  <2>11. e.open = 0 /\ e.stage # "paging"
    BY <1>1, <1>2, <1>3
  <2> HIDE DEF e
  <2> QED
    BY <1>5, <1>6, <1>8, <2>3, <2>6, <2>7, <2>8, <2>9, <2>10, <2>11 DEF MemoryOK
<1>14. ContextOK(r, executor[r])'
  BY <1>13 DEF ContextOK
<1>15. ASSUME NEW n, n = last, ~LateWriter' PROVE SnapshotOK(n + 1)'
  <2>2. \A i \in Own(r) : f.cut < i
    BY <1>15, WriteSpares
  <2>3. MemoryOK(r, f)
    BY <1>15, WriteSpares
  <2>4. f.cut <= f.after
    BY <1>15, WriteSpares
  <2>5. PICK own \in Own(r) : f.loaded => own <= f.after
    BY <1>1, <1>4 DEF BegunOK, ExecutorOK
  <2>6. f.cut + 1 <= Stored
    BY <1>4, <2>2, <2>5
  <2>7. ~Continues(f.cut + 1, 1)
    <3>1. CASE f.cut < f.after
      <4>1. f.cut + 1 \in f.kept /\ f.cut + 1 <= f.after /\ f.cut < f.cut + 1
        <5>1. /\ f.cut + 1 \in 1 .. f.after /\ f.cut < f.cut + 1
              /\ Covered(f.held) < f.cut + 1
          BY <1>1, <1>4, <3>1
        <5> QED BY <2>3, <5>1 DEF MemoryOK
      <4>2. PICK h \in f.heads : f.cut < h /\ h <= f.cut + 1
        BY <1>4, <1>9, <4>1, EndsDivide
      <4>3. h = f.cut + 1
        BY <1>4, <4>2
      <4> QED BY <2>3, <4>1, <4>2, <4>3 DEF MemoryOK
    <3>2. CASE f.cut = f.after
      <4>1. ~f.loaded
        BY <1>4, <2>2, <2>5, <3>2
      <4> QED BY <2>3, <3>2, <4>1 DEF MemoryOK
    <3> QED BY <1>4, <2>4, <3>1, <3>2
  <2>9. executor'[r].stage # "none"
    BY <1>2, <1>3, <1>5
  <2>10. snapshots'[n + 1].covered = f.cut
    BY <1>7, <1>15
  <2>11. \A i \in Own(r)' : f.cut < i
    BY <1>6, <2>2
  <2>12. f.cut + 1 <= Stored' /\ ~Continues(snapshots[n + 1].covered + 1, 1)'
    BY <1>6, <2>6, <2>7, <2>10
  <2> QED BY <2>9, <2>10, <2>11, <2>12 DEF SnapshotOK
<1>16. ASSUME NEW v \in 1 .. last, ~LateWriter' PROVE SnapshotOK(v)'
  BY <1>12, <1>16, SnapshotStays DEF SnapshotsOK
<1>17. ASSUME NEW v \in 1 .. last + 1, NEW w \in 1 .. last + 1, v < w
       PROVE  snapshots'[v].covered < snapshots'[w].covered
  <2>1. v \in 1 .. last
    BY <1>4, <1>17
  <2>2. CASE w \in 1 .. last
    BY <1>7, <1>17, <2>1, <2>2 DEF SnapshotsOK
  <2>3. CASE w = last + 1
    <3>1. snapshots'[w].covered = f.cut
      BY <1>7, <2>3
    <3>2. last # 0 /\ last \in 1 .. last /\ Covered(f.held) = snapshots[last].covered
      BY <1>1, <1>4, <2>1 DEF Covered
    <3>3. v = last \/ snapshots[v].covered < snapshots[last].covered
      BY <1>4, <2>1, <3>2 DEF SnapshotsOK
    <3>4. snapshots[v].covered \in Nat /\ snapshots[last].covered \in Nat
      BY <1>4, <2>1, <3>2, Lengths DEF Snapshots
    <3> QED BY <1>1, <1>4, <1>7, <2>1, <3>1, <3>2, <3>3, <3>4
  <2> QED BY <1>4, <2>2, <2>3
<1>18. SnapshotsOK'
  <2>1. PICK n : n = last
    OBVIOUS
  <2>2. ASSUME NEW v \in 1 .. n + 1, ~LateWriter' PROVE SnapshotOK(v)'
    <3>1. v \in 1 .. last \/ v = n + 1
      BY <1>4, <2>1
    <3> QED BY <1>15, <1>16, <2>1, <2>2, <3>1
  <2>3. Len(snapshots') = n + 1
    BY <1>7, <2>1
  <2>4. \A v, w \in 1 .. n + 1 : v < w => snapshots'[v].covered < snapshots'[w].covered
    BY <1>17, <2>1
  <2> QED BY <2>2, <2>3, <2>4 DEF SnapshotsOK
<1> QED BY <1>10, <1>14, <1>18

\* A step that appends a message of the run to the transcript and to its units.
LEMMA AppendOK ==
    ASSUME IInv, Next, NEW r \in Runs, NEW m \in Messages, m.run = r,
           transcript' = Append(transcript, m), UNCHANGED snapshots,
           executor[r].stage = "asking",
           executor'[r].stage \in {"asking", "answered"},
           executor'[r].loaded = executor[r].loaded,
           executor'[r].after = executor[r].after,
           executor'[r].held = executor[r].held,
           executor'[r].protected = executor[r].protected,
           executor'[r].kept = executor[r].kept \cup {Stored + 1},
           \/ executor'[r].heads = executor[r].heads \cup {Stored + 1}
           \/ executor'[r].heads = executor[r].heads /\ executor[r].open # 0,
           executor'[r].open # 0 => executor'[r].stage = "asking"
    PROVE  ExecutorOK(r, executor[r])' /\ ContextOK(r, executor[r])'
<1> /\ TypeOK /\ ExecutorOK(r, executor[r]) /\ ContextOK(r, executor[r]) /\ Keeps
  BY NextKeeps DEF IInv, RunOK
<1> DEFINE f == executor[r]
           seq == Stored + 1
<1>1. /\ f.after \in 0 .. Stored /\ Stored \in Nat /\ f.kept \subseteq 1 .. Stored
      /\ f.heads \subseteq f.kept /\ Own(r) \subseteq 1 .. Stored /\ f.loaded
      /\ f.held \in 0 .. Len(snapshots) /\ Covered(f.held) \in 0 .. Stored
  BY StageType, CoveredType, Lengths, OwnType DEF ExecutorOK
<1>2. Stored' = Stored + 1
  BY Grows
<1>3. Own(r)' = Own(r) \cup {seq}
  BY OwnAppend
<1>4. ExecutorOK(r, executor[r])'
  <2>1. \E i \in Own(r)' : i <= f.after
    BY <1>1, <1>3 DEF ExecutorOK
  <2>2. f.protected # 0 => f.protected \in Own(r)' /\ \A i \in Own(r)' : f.protected <= i
    BY <1>1, <1>3 DEF ExecutorOK
  <2>3. executor'[r].heads \subseteq executor'[r].kept
    BY <1>1
  <2> QED BY <1>1, <2>1, <2>2, <2>3 DEF ExecutorOK
<1>5. ASSUME ~LateWriter', Fresh(r, executor[r])' PROVE MemoryOK(r, executor[r])'
  <2>1. PICK covered \in 0 .. Stored : covered = Covered(f.held)
    BY <1>1
  <2>2. Covered(executor[r].held)' = covered
    <3>1. \A v \in 0 .. Len(snapshots) : Covered(v)' = Covered(v)
      BY SummariesStay
    <3> QED BY <1>1, <2>1, <3>1 DEF Covered
  <2>3. MemoryOK(r, f)
    <3>1. \A i \in Own(r) : covered < i
      BY <1>3, <1>5, <2>2 DEF Fresh
    <3> QED BY <1>5, <2>1, <3>1, LateStays DEF ContextOK, Live, Fresh
  <2>4. \A i \in executor'[r].kept : covered < i
    BY <1>1, <2>1, <2>3 DEF MemoryOK
  <2>5. \A i \in 1 .. f.after : covered < i => i \in executor'[r].kept
    BY <2>1, <2>3 DEF MemoryOK
  <2>6. ASSUME NEW i \in executor'[r].kept, i <= f.after
        PROVE  i \in executor'[r].heads <=> ~Continues(i, 1)'
    <3>1. i \in f.kept /\ i # seq /\ i \in 1 .. Stored
      BY <1>1, <2>6
    <3>2. i \in f.heads <=> ~Continues(i, 1)
      BY <2>3, <2>6, <3>1 DEF MemoryOK
    <3>3. Continues(i, 1)' <=> Continues(i, 1)
      BY <3>1, ExchangesStay
    <3> QED BY <3>1, <3>2, <3>3
  <2>7. \E h \in executor'[r].heads : f.after < h /\ h <= seq
    <3>1. CASE seq \in executor'[r].heads
      BY <1>1, <3>1
    <3>2. CASE executor'[r].heads = f.heads /\ f.open # 0
      <4>1. PICK h \in f.heads : f.after < h
        BY <2>3, <3>2 DEF MemoryOK
      <4>2. h <= seq
        BY <1>1
      <4> QED BY <3>2, <4>1, <4>2
    <3> QED BY <3>1, <3>2
  <2>8. ASSUME NEW i \in executor'[r].kept, f.after < i
        PROVE  i \in Own(r)' /\ \E h \in executor'[r].heads : f.after < h /\ h <= i
    <3>1. CASE i \in f.kept
      <4>1. i \in Own(r) /\ \E h \in f.heads : f.after < h /\ h <= i
        BY <2>3, <2>8, <3>1 DEF MemoryOK
      <4> QED BY <1>3, <4>1
    <3>2. CASE i = seq
      BY <1>3, <2>7, <3>2
    <3> QED BY <2>8, <3>1, <3>2
  <2>9. \A i \in Own(r)' : i <= f.after \/ i \in executor'[r].kept
    BY <1>1, <1>3, <2>3 DEF MemoryOK
  <2>10. \E h \in executor'[r].heads : f.after < h
    BY <2>7
  <2> QED BY <1>1, <2>2, <2>4, <2>5, <2>6, <2>8, <2>9, <2>10 DEF MemoryOK
<1> QED BY <1>4, <1>5 DEF ContextOK

LEMMA AppendAssistantOK ==
    ASSUME IInv, Next, NEW r \in Runs, NEW n \in 0 .. MaxCalls, NEW x \in BOOLEAN,
             AppendAssistant(r, n, x)
    PROVE  ExecutorOK(r, executor[r])' /\ ContextOK(r, executor[r])'
<1> TypeOK
  BY DEF IInv
<1> DEFINE f == executor[r]
           e == [f EXCEPT !.kept = @ \cup {Stored + 1}, !.heads = @ \cup {Stored + 1},
                          !.open = n, !.stage = IF n = 0 THEN "answered" ELSE @]
           m == Message(r, "assistant", n, x)
<1>1. /\ transcript' = Append(transcript, m) /\ Move(r, e) /\ UNCHANGED snapshots
      /\ f.stage = "asking"
  BY DEF AppendAssistant, Asking
<1>2. m \in Messages /\ m.run = r
  BY AssistantMessage
<1>3. executor'[r] = e
  BY <1>1, MoveOne
<1>4. /\ e.stage = (IF n = 0 THEN "answered" ELSE "asking") /\ e.loaded = f.loaded
      /\ e.after = f.after /\ e.held = f.held /\ e.open = n
      /\ e.protected = f.protected /\ e.kept = f.kept \cup {Stored + 1}
      /\ e.heads = f.heads \cup {Stored + 1}
  BY <1>1, StageType DEF Executors
<1> HIDE DEF e, m
<1> QED BY <1>1, <1>2, <1>3, <1>4, AppendOK

LEMMA AppendToolOK ==
    ASSUME IInv, Next, NEW r \in Runs, AppendTool(r)
    PROVE  ExecutorOK(r, executor[r])' /\ ContextOK(r, executor[r])'
<1> TypeOK
  BY DEF IInv
<1> DEFINE f == executor[r]
           e == [f EXCEPT !.kept = @ \cup {Stored + 1}, !.open = @ - 1]
           m == Message(r, "tool", 0, FALSE)
<1>1. /\ transcript' = Append(transcript, m) /\ Move(r, e) /\ UNCHANGED snapshots
      /\ f.stage = "asking" /\ f.open # 0
  BY StageType DEF AppendTool
<1>2. m \in Messages /\ m.run = r
  BY PlainMessage
<1>3. executor'[r] = e
  BY <1>1, MoveOne
<1>4. /\ e.stage = "asking" /\ e.loaded = f.loaded
      /\ e.after = f.after /\ e.held = f.held
      /\ e.protected = f.protected /\ e.kept = f.kept \cup {Stored + 1}
      /\ e.heads = f.heads
  BY <1>1, StageType DEF Executors
<1> HIDE DEF e, m
<1> QED BY <1>1, <1>2, <1>3, <1>4, AppendOK

\* The question of a run is the first of its messages.
LEMMA AcceptRunOK ==
    ASSUME IInv, Next, NEW r \in Runs, AcceptRun(r)
    PROVE  ExecutorOK(r, executor[r])' /\ ContextOK(r, executor[r])'
<1> TypeOK /\ BegunOK(r)
  BY DEF IInv, RunOK
<1> DEFINE e == [executor[r] EXCEPT !.stage = "accepted"]
<1>1. Move(r, e) /\ executor[r] = Idle /\ Own(r) = {}
  BY DEF AcceptRun, BegunOK
<1>2. /\ executor[r].kept = {} /\ executor[r].heads = {} /\ executor[r].loaded = FALSE
      /\ executor[r].protected = 0 /\ executor[r].open = 0
  BY <1>1 DEF Idle
<1>3. /\ e.stage = "accepted" /\ e.kept = {} /\ e.heads = {} /\ e.loaded = FALSE
      /\ e.protected = 0 /\ e.open = 0
  BY <1>2, StageType DEF Executors
<1>4. executor'[r] = e
  BY <1>1, MoveOne
<1>5. Own(r)' = Own(r) \/ Own(r)' = Own(r) \cup {Stored + 1}
  BY OwnSteps
<1>6. \A i, j \in Own(r)' : i = j
  BY <1>1, <1>5
<1> HIDE DEF e
<1> QED BY <1>3, <1>4, <1>6 DEF ExecutorOK, ContextOK, Live

-----------------------------------------------------------------------------
LEMMA InitOK == Init => IInv
<1> SUFFICES ASSUME Init PROVE IInv
  OBVIOUS
<1> DEFINE Past == MessagesOf(PastRuns)
<1>1. Past \subseteq Messages /\ \A m \in Past : m.run \in Int /\ m.run <= 0
  BY ContextMemoryAssumption DEF Messages, MessagesOf, ContextMemoryAssumption
<1>2. transcript \in Seq(Past)
  BY ContextMemoryAssumption DEF Init, ContextMemoryAssumption
<1> HIDE DEF Past
<1>2a. transcript \in Seq(Messages)
  BY <1>1, <1>2
<1>3. Stored \in Nat /\ Len(snapshots) = 0 /\ snapshots \in Seq(Snapshots)
  BY <1>2 DEF Init, Stored
<1>4. Idle \in Executors
  BY <1>3, ContextMemoryAssumption DEF Idle, Executors, Stages, ContextMemoryAssumption
<1>5. TypeOK
  BY <1>2a, <1>3, <1>4, ContextMemoryAssumption DEF Init, TypeOK, ContextMemoryAssumption
<1>6. ActiveOK /\ SnapshotsOK
  BY <1>3 DEF Init, ActiveOK, SnapshotsOK
<1>7. ASSUME NEW r \in Runs PROVE RunOK(r)
  <2>1. executor[r] = Idle /\ Idle.stage = "none" /\ Idle.heads = {} /\ Idle.loaded = FALSE
        /\ Idle.open = 0 /\ Idle.protected = 0
    BY DEF Init, Idle
  <2>2. Own(r) = {}
    <3>1. \A i \in 1 .. Stored : transcript[i].run <= 0
      BY <1>1, <1>2 DEF Stored
    <3>2. r \in Nat /\ r > 0
      BY ContextMemoryAssumption DEF Runs, ContextMemoryAssumption
    <3> QED BY <3>1, <3>2 DEF Own
  <2> QED BY <2>1, <2>2 DEF RunOK, BegunOK, ExecutorOK, ContextOK, Live
<1> QED BY <1>5, <1>6, <1>7 DEF IInv

LEMMA NextRunsOK ==
    ASSUME IInv, Next, TypeOK'
    PROVE  SnapshotsOK' /\ \A q \in Runs : ExecutorOK(q, executor[q])' /\ ContextOK(q, executor[q])'
<1> TypeOK /\ SnapshotsOK /\ Keeps
  BY NextKeeps DEF IInv
<1>1. ASSUME UNCHANGED snapshots PROVE SnapshotsOK'
  <2>1. ~LateWriter' => ~LateWriter
    BY LateStays
  <2>2. ASSUME NEW v \in 1 .. Len(snapshots), ~LateWriter' PROVE SnapshotOK(v)'
    BY <2>1, <2>2, SnapshotStays DEF SnapshotsOK
  <2> QED BY <1>1, <2>2 DEF SnapshotsOK
<1>2. ASSUME NEW r \in Runs, \/ executor'[r] = executor[r] /\ Own(r)' = Own(r)
                             \/ ExecutorOK(r, executor[r])' /\ ContextOK(r, executor[r])',
             \A q \in Runs \ {r} : executor'[q] = executor[q],
             \A q \in Runs \ {r} : Own(q)' = Own(q)
      PROVE  \A q \in Runs : ExecutorOK(q, executor[q])' /\ ContextOK(q, executor[q])'
  <2>1. ASSUME NEW q \in Runs, executor'[q] = executor[q], Own(q)' = Own(q)
        PROVE  ExecutorOK(q, executor[q])' /\ ContextOK(q, executor[q])'
    <3>1. ExecutorOK(q, executor[q]) /\ ContextOK(q, executor[q])
      BY DEF IInv, RunOK
    <3> QED BY <2>1, <3>1, Bystander
  <2> QED BY <1>2, <2>1
<1>3. CASE ReplaceRun
  <2>1. UNCHANGED <<transcript, snapshots, executor>>
    BY <1>3 DEF ReplaceRun
  <2>2. \A q \in Runs : executor'[q] = executor[q] /\ Own(q)' = Own(q)
    BY <2>1, OwnSame
  <2>3. ASSUME NEW q \in Runs PROVE ExecutorOK(q, executor[q])' /\ ContextOK(q, executor[q])'
    BY <1>2, <2>2
  <2> QED BY <1>1, <2>1, <2>3
<1>4. ASSUME NEW r \in Runs,
             ExecutorOK(r, executor[r])', ContextOK(r, executor[r])',
             \E e : Move(r, e),
             UNCHANGED transcript
                \/ \E m \in Messages : m.run = r /\ transcript' = Append(transcript, m)
      PROVE  \A q \in Runs : ExecutorOK(q, executor[q])' /\ ContextOK(q, executor[q])'
  <2>1. \A q \in Runs \ {r} : executor'[q] = executor[q]
    BY <1>4, MoveOne
  <2>2. \A q \in Runs \ {r} : Own(q)' = Own(q)
    <3>1. CASE UNCHANGED transcript
      BY <3>1, OwnSame
    <3>2. ASSUME NEW m \in Messages, m.run = r, transcript' = Append(transcript, m)
          PROVE  \A q \in Runs \ {r} : Own(q)' = Own(q)
      BY <3>2, OwnAppend
    <3> QED BY <1>4, <3>1, <3>2
  <2> QED BY <1>2, <1>4, <2>1, <2>2
<1> DEFINE Goal ==
      SnapshotsOK' /\ \A q \in Runs : ExecutorOK(q, executor[q])' /\ ContextOK(q, executor[q])'
<1>7. ASSUME NEW r \in Runs, AcceptRun(r) PROVE Goal
  <2>1. /\ \E e : Move(r, e)
        /\ \E m \in Messages : m.run = r /\ transcript' = Append(transcript, m)
        /\ UNCHANGED snapshots
    BY <1>7, PlainMessage DEF AcceptRun
  <2> QED BY <1>1, <1>4, <1>7, <2>1, AcceptRunOK
<1>8. ASSUME NEW r \in Runs, NEW n \in 0 .. MaxCalls, NEW x \in BOOLEAN,
             AppendAssistant(r, n, x) PROVE Goal
  <2>1. /\ \E e : Move(r, e)
        /\ \E m \in Messages : m.run = r /\ transcript' = Append(transcript, m)
        /\ UNCHANGED snapshots
    BY <1>8, AssistantMessage DEF AppendAssistant
  <2> QED BY <1>1, <1>4, <1>8, <2>1, AppendAssistantOK
<1>9. ASSUME NEW r \in Runs, AppendTool(r) PROVE Goal
  <2>1. /\ \E e : Move(r, e)
        /\ \E m \in Messages : m.run = r /\ transcript' = Append(transcript, m)
        /\ UNCHANGED snapshots
    BY <1>9, PlainMessage DEF AppendTool
  <2> QED BY <1>1, <1>4, <1>9, <2>1, AppendToolOK
<1>10. ASSUME NEW r \in Runs, WriteSnapshot(r) PROVE Goal
  <2>1. (\E e : Move(r, e)) /\ UNCHANGED transcript
    BY <1>10 DEF WriteSnapshot
  <2> QED BY <1>4, <1>10, <2>1, WriteSnapshotOK
<1>11. ASSUME NEW r \in Runs,
              \/ Stop(r) \/ LoadSnapshot(r) \/ ReadPage(r) \/ NextPage(r)
              \/ Summarise(r) \/ FailSummary(r) \/ LoseSnapshot(r) \/ AdoptSnapshot(r)
              \/ GiveUpSnapshot(r)
       PROVE  Goal
  <2>1. (\E e : Move(r, e)) /\ UNCHANGED <<transcript, snapshots>>
    BY <1>11
    DEF Stop, LoadSnapshot, ReadPage, NextPage, Summarise, FailSummary,
        LoseSnapshot, AdoptSnapshot, GiveUpSnapshot
  <2>2. ExecutorOK(r, executor[r])' /\ ContextOK(r, executor[r])'
    BY <1>11, StopOK, LoadSnapshotOK, ReadPageOK, NextPageOK, SummariseOK,
       FailSummaryOK, LoseSnapshotOK, AdoptSnapshotOK, GiveUpSnapshotOK
  <2> QED BY <1>1, <1>4, <2>1, <2>2
<1> QED BY <1>3, <1>7, <1>8, <1>9, <1>10, <1>11 DEF Next, Compact

LEMMA NextOK == IInv /\ [Next]_vars => IInv'
<1> SUFFICES ASSUME IInv, [Next]_vars PROVE IInv'
  OBVIOUS
<1>1. ASSUME Next PROVE IInv'
  <2>1. TypeOK'
    BY <1>1, NextCoreOK, ReplayedType DEF IInv, RunOK, CoreOK, TypeOK
  <2>2. ActiveOK' /\ \A q \in Runs : BegunOK(q)'
    BY <1>1, NextBegunOK
  <2>3. /\ SnapshotsOK'
        /\ \A q \in Runs : ExecutorOK(q, executor[q])' /\ ContextOK(q, executor[q])'
    BY <1>1, <2>1, NextRunsOK
  <2> QED BY <2>1, <2>2, <2>3 DEF IInv, RunOK
<1>2. CASE UNCHANGED vars
  <2>1. UNCHANGED <<transcript, snapshots, active, executor, replayed>>
    BY <1>2 DEF vars
  <2>2. TypeOK'
    BY <2>1 DEF IInv, TypeOK, Stored, Snapshots, Executors
  <2>3. ActiveOK' /\ SnapshotsOK'
    BY <2>1 DEF IInv, ActiveOK, SnapshotsOK, SnapshotOK, LateWriter, Continues, Answers, Calling, Role,
                Stored, Own
  <2>4. ASSUME NEW r \in Runs PROVE RunOK(r)'
    <3>1. RunOK(r)
      BY DEF IInv
    <3> QED BY <2>1, <3>1 DEF RunOK, BegunOK, ExecutorOK, ContextOK, MemoryOK, Live, Fresh,
              LateWriter, Continues, Answers, Calling, Role, Stored, Own, Ends, SameUnit, Covered
  <2> QED BY <2>2, <2>3, <2>4 DEF IInv
<1> QED BY <1>1, <1>2

-----------------------------------------------------------------------------
\* No summary tells anything of the run the session has.
LEMMA ActiveIsFresh ==
    ASSUME IInv, ~LateWriter, NEW r \in Runs, active = r
    PROVE  Fresh(r, executor[r])
<1> TypeOK /\ ActiveOK /\ SnapshotsOK /\ \A q \in Runs : BegunOK(q)
  BY DEF IInv, RunOK
<1> DEFINE v == executor[r].held
<1>1. /\ v \in 0 .. Len(snapshots) /\ Len(snapshots) \in Nat /\ Stored \in Nat
      /\ Own(r) \subseteq 1 .. Stored
  BY StageType, Lengths, OwnType
<1>2. CASE v = 0
  BY <1>1, <1>2 DEF Fresh, Covered
<1>3. CASE v # 0
  <2>1. v \in 1 .. Len(snapshots) /\ Covered(v) = snapshots[v].covered
    BY <1>1, <1>3 DEF Covered
  <2>2. PICK q \in Runs : /\ executor[q].stage # "none"
                          /\ \A i \in Own(q) : Covered(v) < i
    BY <2>1 DEF SnapshotsOK, SnapshotOK
  <2>3. q \in Nat /\ r \in Nat /\ r # 0
    BY ContextMemoryAssumption DEF Runs, ContextMemoryAssumption
  <2>4. q <= r
    BY <2>2, <2>3 DEF ActiveOK
  <2>5. PICK i \in Own(q) : \A j \in 1 .. i - 1 : transcript[j].run < q
    BY <2>2 DEF BegunOK
  <2>6. i \in 1 .. Stored /\ Covered(v) < i /\ Covered(v) \in Nat
    BY <1>1, <2>1, <2>2, <2>5, OwnType, CoveredType
  <2>7. ASSUME NEW k \in Own(r), k <= Covered(v) PROVE FALSE
    <3>1. k \in 1 .. i - 1 /\ transcript[k].run = r
      BY <1>1, <2>6, <2>7 DEF Own
    <3> QED BY <2>3, <2>4, <2>5, <3>1
  <2> QED BY <1>1, <2>6, <2>7 DEF Fresh
<1> QED BY <1>2, <1>3

LEMMA MemoryInScope ==
    ASSUME IInv, NEW r \in Runs, InScope(r)
    PROVE  /\ MemoryOK(r, executor[r]) /\ executor[r].loaded
           /\ Fresh(r, executor[r])
           /\ executor[r].held # 0 => SnapshotOK(executor[r].held)
<1>1. active = r /\ executor[r].stage = "asking" /\ ~LateWriter
  BY DEF InScope, Asking
<1>2. Fresh(r, executor[r])
  BY <1>1, ActiveIsFresh
<1>3. MemoryOK(r, executor[r]) /\ executor[r].loaded
  BY <1>1, <1>2 DEF IInv, RunOK, ContextOK, ExecutorOK, Live
<1>4. executor[r].held # 0 => executor[r].held \in 1 .. Len(snapshots)
  BY StageType, Lengths DEF IInv
<1> QED BY <1>1, <1>2, <1>3, <1>4 DEF IInv, SnapshotsOK

-----------------------------------------------------------------------------
(* What is replayed: the invariant that rests on IInv.                     *)

\* A summary was made from all it covers but what no context has a message for.
SummaryOK(v) ==
    /\ snapshots[v].knows \subseteq 1 .. snapshots[v].covered
    /\ \A i \in 1 .. snapshots[v].covered : i \in snapshots[v].knows \/ Unreplayable(i)

SummariesOK == ~LateWriter => \A v \in 1 .. Len(snapshots) : SummaryOK(v)

\* What an executor reads of its own run is its question.
OwnOK(r, e, s) ==
    /\ e.stage \in {"none", "accepted"} => s = {}
    /\ e.stage # "over" /\ (~e.loaded \/ e.stage = "compacting") =>
          \A i \in Own(r) : Role(i) = "user"
    /\ e.loaded => \A i \in Own(r) : i <= e.after => Role(i) = "user"

ReplayOK(r, e, s) ==
    /\ s \subseteq e.kept
    /\ \A i \in e.kept : i \in s \/ Unreplayable(i)
    /\ \A i \in e.kept : i \in Own(r) => i \in s
    /\ \A a, i \in e.kept : Answers(i, a) /\ SameRun(i, a) => (a \in s <=> i \in s)
    /\ \A i \in s : Role(i) = "tool" =>
          \E a \in s : ResultOf(i, a) /\ (a \in Own(r) \/ Answers(i, a))
    /\ e.open # 0 => \E a \in s : /\ a \in Own(r) /\ Calling(a)
                                  /\ \A j \in Own(r) : Calling(j) => j <= a

ReplaysOK(r, e, s) == ~LateWriter /\ Live(e) /\ Fresh(r, e) => ReplayOK(r, e, s)

ShownOK(r) == OwnOK(r, executor[r], replayed[r]) /\ ReplaysOK(r, executor[r], replayed[r])

JInv ==
    /\ IInv
    /\ SummariesOK
    /\ \A r \in Runs : ShownOK(r)

-----------------------------------------------------------------------------
(* What the transcript decides does not change.                            *)

LEMMA CallsAreAnswers ==
    ASSUME TypeOK, NEW i \in 1 .. Stored
    PROVE  /\ Calling(i) => Role(i) = "assistant"
           /\ transcript[i].shared => Calling(i)
<1>1. transcript[i] \in Messages
  BY Lengths
<1>2. transcript[i].calls \in 0 .. MaxCalls
  BY <1>1 DEF Messages, MessagesOf
<1>3. /\ transcript[i].role # "assistant" => transcript[i].calls = 0
      /\ transcript[i].calls = 0 => ~transcript[i].shared
  BY <1>1 DEF Messages, MessagesOf
<1> QED BY <1>2, <1>3, ContextMemoryAssumption DEF Calling, Role, ContextMemoryAssumption

LEMMA OneCaller ==
    ASSUME TypeOK, NEW i \in 1 .. Stored, NEW a \in 1 .. Stored, NEW b \in 1 .. Stored,
           Answers(i, a), Answers(i, b)
    PROVE  a = b
<1> Role(a) = "assistant" /\ Role(b) = "assistant"
  BY CallsAreAnswers DEF Answers
<1>1. ~(a < b)
  <2>1. a < b => b \in a + 1 .. i
    BY DEF Answers
  <2> QED BY <2>1 DEF Answers
<1>2. ~(b < a)
  <2>1. b < a => a \in b + 1 .. i
    BY DEF Answers
  <2> QED BY <2>1 DEF Answers
<1> QED BY <1>1, <1>2

LEMMA AnswersAreResults ==
    ASSUME TypeOK, NEW i \in 1 .. Stored, NEW a \in 1 .. Stored, Answers(i, a), SameRun(i, a)
    PROVE  ResultOf(i, a)
<1>1. a < i /\ Calling(a) /\ \A j \in a + 1 .. i : Role(j) = "tool"
  BY DEF Answers
<1>2. Role(i) = "tool"
  BY <1>1
<1>3. ASSUME NEW j \in a + 1 .. i - 1 PROVE ~Calling(j)
  <2>1. j \in 1 .. Stored /\ j \in a + 1 .. i
    BY Lengths
  <2> QED BY <1>1, <2>1, CallsAreAnswers
<1> QED BY <1>1, <1>2, <1>3 DEF ResultOf

LEMMA FactsStay ==
    ASSUME TypeOK, Keeps, NEW i \in 1 .. Stored
    PROVE  /\ Role(i)' = Role(i) /\ (Calling(i)' <=> Calling(i))
           /\ \A a \in 1 .. Stored : /\ Answers(i, a)' <=> Answers(i, a)
                                     /\ SameRun(i, a)' <=> SameRun(i, a)
                                     /\ ResultOf(i, a)' <=> ResultOf(i, a)
           /\ Unreplayable(i)' <=> Unreplayable(i)
<1> Stored \in Nat
  BY Lengths
<1>1. \A j \in 1 .. Stored : transcript'[j] = transcript[j]
  BY DEF Keeps
<1>2. \A j \in 1 .. Stored : Role(j)' = Role(j) /\ (Calling(j)' <=> Calling(j))
  BY <1>1 DEF Role, Calling
<1>3. \A j, k \in 1 .. Stored : SameRun(j, k)' <=> SameRun(j, k)
  BY <1>1 DEF SameRun
<1>4. ASSUME NEW a \in 1 .. Stored
      PROVE  (Answers(i, a)' <=> Answers(i, a)) /\ (ResultOf(i, a)' <=> ResultOf(i, a))
  <2>1. \A j \in a + 1 .. i : j \in 1 .. Stored
    OBVIOUS
  <2>2. Answers(i, a)' <=> Answers(i, a)
    BY <1>2, <2>1 DEF Answers
  <2>3. \A j \in a + 1 .. i - 1 : j \in 1 .. Stored
    OBVIOUS
  <2>4. ResultOf(i, a)' <=> ResultOf(i, a)
    BY <1>2, <1>3, <2>3 DEF ResultOf
  <2> QED BY <2>2, <2>4
<1>5. ASSUME NEW j \in 1 .. Stored PROVE Repeats(j)' <=> Repeats(j)
  <2>1. \A k \in 1 .. j - 1 : k \in 1 .. Stored
    OBVIOUS
  <2> QED BY <1>1, <2>1 DEF Repeats
<1>6. Unreplayable(i)' <=> Unreplayable(i)
  <2>1. \A a \in 1 .. i - 1 : a \in 1 .. Stored
    OBVIOUS
  <2> QED BY <1>2, <1>3, <1>4, <1>5, <2>1 DEF Unreplayable
<1> QED BY <1>2, <1>3, <1>4, <1>6

\* What is told of executors that do not move.
LEMMA OthersShown ==
    ASSUME JInv, Keeps, NEW q \in Runs, executor'[q] = executor[q], replayed'[q] = replayed[q],
           Own(q)' = Own(q)
    PROVE  ShownOK(q)'
<1> DEFINE e == executor[q]
           s == replayed[q]
<1> TypeOK /\ ShownOK(q)
  BY DEF JInv, IInv
<1>1. Own(q) \subseteq 1 .. Stored /\ e.kept \subseteq 1 .. Stored
  BY OwnType, StageType
<1>2. \A i \in 1 .. Stored : Role(i)' = Role(i) /\ (Calling(i)' <=> Calling(i))
  BY FactsStay
<1>3. OwnOK(q, e, s)'
  BY <1>1, <1>2 DEF ShownOK, OwnOK
<1>4. ASSUME ~LateWriter', Live(e)', Fresh(q, e)' PROVE ReplayOK(q, e, s)'
  <2>1. Covered(e.held)' = Covered(e.held)
    <3>1. e.held \in 0 .. Len(snapshots)
      BY StageType
    <3>2. \A v \in 0 .. Len(snapshots) : Covered(v)' = Covered(v)
      BY SummariesStay
    <3> QED BY <3>1, <3>2 DEF Covered
  <2>2. ~LateWriter /\ Live(e) /\ Fresh(q, e)
    BY <1>4, <2>1, LateStays DEF Live, Fresh
  <2>3. ReplayOK(q, e, s)
    BY <2>2 DEF ShownOK, ReplaysOK
  <2>4. s \subseteq 1 .. Stored
    BY <1>1, <2>3 DEF ReplayOK
  <2>5. \A i, a \in 1 .. Stored : /\ Answers(i, a)' <=> Answers(i, a)
                                  /\ SameRun(i, a)' <=> SameRun(i, a)
                                  /\ ResultOf(i, a)' <=> ResultOf(i, a)
    BY FactsStay
  <2>6. \A i \in 1 .. Stored : Unreplayable(i)' <=> Unreplayable(i)
    BY FactsStay
  <2>7. /\ s' \subseteq e'.kept
        /\ \A i \in e'.kept : i \in s' \/ Unreplayable(i)'
        /\ \A i \in e'.kept : i \in Own(q)' => i \in s'
    BY <1>1, <2>3, <2>6 DEF ReplayOK
  <2>8. \A a, i \in e'.kept : Answers(i, a)' /\ SameRun(i, a)' => (a \in s' <=> i \in s')
    BY <1>1, <2>3, <2>5 DEF ReplayOK
  <2>9. \A i \in s' : Role(i)' = "tool" =>
          \E a \in s' : ResultOf(i, a)' /\ (a \in Own(q)' \/ Answers(i, a)')
    BY <1>2, <2>3, <2>4, <2>5 DEF ReplayOK
  <2>10. e'.open # 0 => \E a \in s' : /\ a \in Own(q)' /\ Calling(a)'
                                      /\ \A j \in Own(q)' : Calling(j)' => j <= a
    BY <1>1, <1>2, <2>3, <2>4 DEF ReplayOK
  <2> HIDE DEF e, s
  <2> QED BY <2>7, <2>8, <2>9, <2>10 DEF ReplayOK
<1> QED BY <1>3, <1>4 DEF ShownOK, ReplaysOK

LEMMA SameTranscript ==
    ASSUME UNCHANGED transcript, NEW r \in Runs, NEW e, NEW s, executor'[r] = e, replayed'[r] = s
    PROVE  /\ OwnOK(r, e, s) => OwnOK(r, executor[r], replayed[r])'
           /\ ReplayOK(r, e, s) => ReplayOK(r, executor[r], replayed[r])'
           /\ \A i : Unreplayable(i)' <=> Unreplayable(i)
<1>1. Own(r)' = Own(r) /\ \A i : /\ Role(i)' = Role(i) /\ (Calling(i)' <=> Calling(i))
                                 /\ (Unreplayable(i)' <=> Unreplayable(i))
  BY DEF Own, Stored, Role, Calling, Unreplayable, Answers, SameRun, Repeats
<1>2. \A i, a : /\ Answers(i, a)' <=> Answers(i, a)
                /\ SameRun(i, a)' <=> SameRun(i, a)
                /\ ResultOf(i, a)' <=> ResultOf(i, a)
  BY DEF Role, Calling, Answers, SameRun, ResultOf
<1>3. OwnOK(r, e, s) => OwnOK(r, executor[r], replayed[r])'
  BY <1>1 DEF OwnOK
<1>4. ReplayOK(r, e, s) => ReplayOK(r, executor[r], replayed[r])'
  BY <1>1, <1>2 DEF ReplayOK
<1> QED BY <1>1, <1>3, <1>4

\* A step that changes neither transcript nor snapshots.
LEMMA QuietShown ==
    ASSUME TypeOK, NEW r \in Runs, NEW e, NEW s, Move(r, e), UNCHANGED <<transcript, snapshots>>,
           replayed'[r] = s, OwnOK(r, e, s), ReplaysOK(r, e, s)
    PROVE  ShownOK(r)'
<1>1. executor'[r] = e
  BY MoveOne
<1>2. Own(r)' = Own(r) /\ LateWriter' = LateWriter /\ Covered(executor[r].held)' = Covered(e.held)
  BY <1>1 DEF Own, Stored, LateWriter, Covered
<1>3. OwnOK(r, executor[r], replayed[r])'
  BY <1>1, SameTranscript
<1>4. ReplaysOK(r, executor[r], replayed[r])'
  BY <1>1, <1>2, SameTranscript DEF ReplaysOK, Live, Fresh
<1> QED BY <1>3, <1>4 DEF ShownOK

\* One that leaves what is kept as it is, too.
LEMMA SameShown ==
    ASSUME JInv, NEW r \in Runs, NEW e, Move(r, e), UNCHANGED <<transcript, snapshots, replayed>>,
           Live(executor[r]), e.stage \notin {"none", "accepted", "over"},
           e.stage = "compacting" => executor[r].stage = "compacting" \/ ~e.loaded,
           e.loaded = executor[r].loaded, e.after = executor[r].after,
           e.held = executor[r].held, e.open = executor[r].open, e.kept = executor[r].kept
    PROVE  ShownOK(r)'
<1> TypeOK /\ ShownOK(r)
  BY DEF JInv, IInv
<1>1. OwnOK(r, e, replayed[r])
  BY DEF ShownOK, OwnOK, Live
<1>2. ReplaysOK(r, e, replayed[r])
  BY DEF ShownOK, ReplaysOK, ReplayOK, Fresh
<1> QED BY <1>1, <1>2, QuietShown

-----------------------------------------------------------------------------
(* The steps of an executor that changes neither transcript nor snapshots. *)

LEMMA StopShown ==
    ASSUME JInv, NEW r \in Runs, Stop(r)
    PROVE  ShownOK(r)'
<1> TypeOK
  BY DEF JInv, IInv
<1> DEFINE e == [Idle EXCEPT !.stage = "over"]
<1>1. e.stage = "over" /\ e.loaded = FALSE
  BY DEF Idle
<1>2. Move(r, e) /\ replayed'[r] = {} /\ UNCHANGED <<transcript, snapshots>>
  BY RepeatOne DEF Stop
<1>3. OwnOK(r, e, {}) /\ ReplaysOK(r, e, {})
  BY <1>1 DEF OwnOK, ReplaysOK, Live
<1> HIDE DEF e
<1> QED BY <1>2, <1>3, QuietShown

LEMMA LoadSnapshotShown ==
    ASSUME JInv, NEW r \in Runs, LoadSnapshot(r)
    PROVE  ShownOK(r)'
<1> TypeOK /\ BegunOK(r) /\ ShownOK(r)
  BY DEF JInv, IInv, RunOK
<1> DEFINE e == [executor[r] EXCEPT !.stage = "paging", !.held = Len(snapshots),
                                    !.after = Covered(Len(snapshots))]
<1>1. executor[r] = [Idle EXCEPT !.stage = "accepted"] /\ executor[r].stage = "accepted"
  BY DEF LoadSnapshot, BegunOK
<1>2. executor[r].kept = {} /\ executor[r].loaded = FALSE /\ executor[r].open = 0
  BY <1>1 DEF Idle
<1>3. e.kept = {} /\ e.loaded = FALSE /\ e.open = 0 /\ e.stage = "paging"
  BY <1>2, StageType DEF Executors
<1>4. replayed[r] = {} /\ \A i \in Own(r) : Role(i) = "user"
  BY <1>1, <1>2 DEF ShownOK, OwnOK
<1>5. Move(r, e) /\ replayed'[r] = {} /\ UNCHANGED <<transcript, snapshots>>
  BY <1>4 DEF LoadSnapshot
<1> HIDE DEF e
<1>6. OwnOK(r, e, {}) /\ ReplaysOK(r, e, {})
  BY <1>3, <1>4 DEF OwnOK, ReplaysOK, ReplayOK
<1> QED BY <1>5, <1>6, QuietShown

LEMMA NextPageShown ==
    ASSUME JInv, NEW r \in Runs, NextPage(r)
    PROVE  ShownOK(r)'
<1> TypeOK /\ ShownOK(r)
  BY DEF JInv, IInv
<1> DEFINE f == executor[r]
           e == [f EXCEPT !.stage = IF f.loaded THEN "asking" ELSE "paging",
                          !.after = IF @ < Covered(f.held) THEN Covered(f.held) ELSE @]
<1>1. /\ e.stage = (IF f.loaded THEN "asking" ELSE "paging") /\ e.loaded = f.loaded
      /\ e.held = f.held /\ e.open = f.open /\ e.kept = f.kept
  BY StageType DEF Executors
<1>2. f.stage = "compacting" /\ Move(r, e) /\ UNCHANGED <<transcript, snapshots, replayed>>
  BY DEF NextPage
<1>3. \A i \in Own(r) : Role(i) = "user"
  BY <1>2 DEF ShownOK, OwnOK
<1> HIDE DEF e
<1>4. OwnOK(r, e, replayed[r])
  BY <1>1, <1>3 DEF OwnOK
<1>5. ReplaysOK(r, e, replayed[r])
  BY <1>1, <1>2 DEF ShownOK, ReplaysOK, ReplayOK, Fresh, Live
<1> QED BY <1>2, <1>4, <1>5, QuietShown

LEMMA SummariseShown ==
    ASSUME JInv, NEW r \in Runs, Summarise(r)
    PROVE  ShownOK(r)'
<1> TypeOK
  BY DEF JInv, IInv
<1> DEFINE f == executor[r]
           e(c, n) == [f EXCEPT !.stage = "summarised", !.cut = c, !.calls = @ + n]
<1>1. PICK c, n : Move(r, e(c, n))
  BY DEF Summarise
<1>2. /\ e(c, n).stage = "summarised" /\ e(c, n).loaded = f.loaded
      /\ e(c, n).after = f.after /\ e(c, n).held = f.held /\ e(c, n).open = f.open
      /\ e(c, n).kept = f.kept
  BY StageType DEF Executors
<1>3. Live(f) /\ UNCHANGED <<transcript, snapshots, replayed>>
  BY DEF Summarise, MayCompact, Live
<1> HIDE DEF e
<1> QED BY <1>1, <1>2, <1>3, SameShown

LEMMA FailSummaryShown ==
    ASSUME JInv, NEW r \in Runs, FailSummary(r)
    PROVE  ShownOK(r)'
<1> TypeOK
  BY DEF JInv, IInv
<1> DEFINE f == executor[r]
           e(n) == [f EXCEPT !.failed = TRUE, !.calls = @ + n]
<1>1. PICK n : Move(r, e(n))
  BY DEF FailSummary
<1>2. /\ e(n).stage = f.stage /\ e(n).loaded = f.loaded
      /\ e(n).after = f.after /\ e(n).held = f.held /\ e(n).open = f.open
      /\ e(n).kept = f.kept
  BY StageType DEF Executors
<1>3. /\ f.stage \in {"compacting", "asking"} /\ Live(f)
      /\ UNCHANGED <<transcript, snapshots, replayed>>
  BY DEF FailSummary, MayCompact, Live
<1> HIDE DEF e
<1> QED BY <1>1, <1>2, <1>3, SameShown

LEMMA LoseSnapshotShown ==
    ASSUME JInv, NEW r \in Runs, LoseSnapshot(r)
    PROVE  ShownOK(r)'
<1> TypeOK
  BY DEF JInv, IInv
<1> DEFINE f == executor[r]
           e == [f EXCEPT !.stage = "conflict"]
<1>1. /\ e.stage = "conflict" /\ e.loaded = f.loaded
      /\ e.after = f.after /\ e.held = f.held /\ e.open = f.open /\ e.kept = f.kept
  BY StageType DEF Executors
<1>2. Move(r, e) /\ Live(f) /\ UNCHANGED <<transcript, snapshots, replayed>>
  BY DEF LoseSnapshot, Live
<1> HIDE DEF e
<1> QED BY <1>1, <1>2, SameShown

LEMMA GiveUpSnapshotShown ==
    ASSUME JInv, NEW r \in Runs, GiveUpSnapshot(r)
    PROVE  ShownOK(r)'
<1> TypeOK
  BY DEF JInv, IInv
<1> DEFINE f == executor[r]
           e == [f EXCEPT !.stage = Back(f), !.failed = TRUE, !.cut = 0]
<1>1. /\ e.stage = (IF f.loaded THEN "asking" ELSE "compacting") /\ e.loaded = f.loaded
      /\ e.after = f.after /\ e.held = f.held /\ e.open = f.open /\ e.kept = f.kept
  BY StageType DEF Executors, Back
<1>2. Move(r, e) /\ Live(f) /\ UNCHANGED <<transcript, snapshots, replayed>>
  BY DEF GiveUpSnapshot, Live
<1> HIDE DEF e
<1> QED BY <1>1, <1>2, SameShown

\* An answer to calls before a place where a unit starts comes before that place.
LEMMA UnitsDivide ==
    ASSUME TypeOK, NEW first \in 1 .. Stored, ~Continues(first, 1),
           NEW i \in first .. Stored, NEW a \in 1 .. Stored, Answers(i, a)
    PROVE  first <= a
<1> SUFFICES ASSUME a < first PROVE FALSE
  OBVIOUS
<1>1. a \in 1 .. first - 1 /\ \A j \in a + 1 .. first : j \in a + 1 .. i
  BY Lengths
<1>2. Answers(first, a)
  BY <1>1 DEF Answers
<1> QED BY <1>1, <1>2 DEF Continues

LEMMA ReadPageShown ==
    ASSUME JInv, NEW r \in Runs, ReadPage(r)
    PROVE  ShownOK(r)'
<1> TypeOK /\ ExecutorOK(r, executor[r]) /\ ContextOK(r, executor[r]) /\ ShownOK(r)
  BY DEF JInv, IInv, RunOK
<1> DEFINE f == executor[r]
           s == replayed[r]
           first == f.after + 1
           page(last) == Replayed(first, last, s)
           e(last) == [f EXCEPT !.stage = "compacting",
                                !.loaded = Fits(f.after),
                                !.after = last,
                                !.protected = IF @ = 0 THEN OwnFirst(r, first, last) ELSE @,
                                !.kept = @ \cup first .. last,
                                !.heads = @ \cup BuildUnits(first, last)]
<1>1. f.stage = "paging" /\ ~f.loaded /\ f.open = 0
  BY DEF ReadPage, ExecutorOK
<1>2. PICK last \in first .. Stored : Move(r, e(last)) /\ Repeat(r, s \cup page(last))
  BY DEF ReadPage
<1>3. /\ e(last).stage = "compacting" /\ e(last).held = f.held /\ e(last).open = f.open
      /\ e(last).kept = f.kept \cup first .. last
  BY StageType DEF Executors
<1>4. /\ Stored \in Nat /\ f.after \in 0 .. Stored /\ last \in Nat /\ last <= Stored
      /\ first \in 1 .. Stored /\ f.kept \subseteq 1 .. Stored
      /\ first .. last \subseteq 1 .. Stored
  BY <1>2, StageType, Lengths
<1>5. \A i \in Own(r) : Role(i) = "user"
  BY <1>1 DEF ShownOK, OwnOK
<1>6. OwnOK(r, e(last), s \cup page(last))
  BY <1>3, <1>5 DEF OwnOK
<1>7. ASSUME ~LateWriter, Fresh(r, e(last)) PROVE ReplayOK(r, e(last), s \cup page(last))
  <2> DEFINE seen == s \cup first .. last
             kept == f.kept \cup first .. last
  <2>1. MemoryOK(r, f) /\ ReplayOK(r, f, s)
    BY <1>1, <1>3, <1>7 DEF ShownOK, ReplaysOK, ContextOK, Live, Fresh
  <2>2. ~Continues(first, 1) /\ \A i \in f.kept : i < first
    BY <1>1, <1>4, <2>1 DEF MemoryOK
  <2>3. s \subseteq f.kept /\ s \subseteq 1 .. Stored
    BY <1>4, <2>1 DEF ReplayOK
  <2>4. page(last) \subseteq first .. last
    BY DEF Replayed
  <2>5. \A i \in first .. last : i \notin s /\ i \notin f.kept
    BY <1>4, <2>2, <2>3
  <2>6. \A i \in first .. last : Role(i) # "tool" => (i \in page(last) <=> ~Unsafe(i, seen))
    BY DEF Replayed
  <2>7. \A i \in first .. last : Role(i) = "tool" =>
          (i \in page(last) <=> \E a \in first .. i - 1 :
              Answers(i, a) /\ SameRun(i, a) /\ ~Unsafe(a, seen))
    BY DEF Replayed
  <2>8. ASSUME NEW i \in first .. last, Unsafe(i, seen) PROVE Repeats(i)
    <3>1. PICK j \in seen : j < i /\ transcript[j].shared /\ transcript[i].shared
      BY <2>8 DEF Unsafe
    <3>2. j \in 1 .. i - 1
      BY <1>4, <2>3, <3>1
    <3> QED BY <3>1, <3>2 DEF Repeats
  <2>9. ASSUME NEW i \in first .. last, NEW a \in 1 .. Stored, Answers(i, a)
        PROVE  a \in first .. i - 1 /\ a \in first .. last /\ Role(a) # "tool" /\ Role(i) = "tool"
    <3>1. i \in first .. Stored /\ a \in Nat /\ i \in Nat
      BY <1>4
    <3>2. first <= a
      BY <1>4, <2>2, <2>9, <3>1, UnitsDivide
    <3>3. Role(a) = "assistant"
      BY <2>9, CallsAreAnswers DEF Answers
    <3>4. a < i /\ Role(i) = "tool"
      BY <2>9, <3>1 DEF Answers
    <3> QED BY <1>4, <3>1, <3>2, <3>3, <3>4
  <2>10. ASSUME NEW i \in first .. last, i \notin page(last) PROVE Unreplayable(i)
    <3>1. CASE Role(i) # "tool"
      BY <2>6, <2>8, <2>10, <3>1 DEF Unreplayable
    <3>2. CASE Role(i) = "tool"
      <4>1. ASSUME NEW a \in 1 .. i - 1, Answers(i, a), SameRun(i, a) PROVE Repeats(a)
        <5>1. a \in 1 .. Stored
          BY <1>4
        <5>2. a \in first .. i - 1 /\ a \in first .. last
          BY <2>9, <4>1, <5>1
        <5> QED BY <2>7, <2>8, <2>10, <3>2, <4>1, <5>2
      <4> QED BY <3>2, <4>1 DEF Unreplayable
    <3> QED BY <3>1, <3>2
  <2>11. ASSUME NEW i \in first .. last, i \in Own(r) PROVE i \in page(last)
    <3>1. Role(i) = "user" /\ ~transcript[i].shared
      BY <1>4, <1>5, <2>11, CallsAreAnswers
    <3> QED BY <2>6, <3>1 DEF Unsafe
  <2>12. ASSUME NEW a \in kept, NEW i \in kept, Answers(i, a), SameRun(i, a)
         PROVE  a \in s \cup page(last) <=> i \in s \cup page(last)
    <3>1. a \in 1 .. Stored /\ i \in 1 .. Stored /\ a < i
      BY <1>4, <2>12 DEF Answers
    <3>2. CASE i \in f.kept
      <4>1. a \notin first .. last
        BY <1>4, <2>2, <3>1, <3>2
      <4>2. a \in s <=> i \in s
        BY <2>1, <2>12, <3>2, <4>1 DEF ReplayOK
      <4> QED BY <2>4, <2>5, <3>2, <4>1, <4>2
    <3>3. CASE i \in first .. last
      <4>1. /\ a \in first .. i - 1 /\ a \in first .. last
            /\ Role(a) # "tool" /\ Role(i) = "tool"
        BY <2>9, <2>12, <3>1, <3>3
      <4>2. i \in page(last) <=> ~Unsafe(a, seen)
        <5>1. \A b \in first .. i - 1 : Answers(i, b) => b = a
          <6>1. \A b \in first .. i - 1 : b \in 1 .. Stored
            BY <1>4, <3>1
          <6> QED BY <2>12, <3>1, <6>1, OneCaller
        <5> QED BY <2>7, <2>12, <3>3, <4>1, <5>1
      <4> QED BY <2>5, <2>6, <3>3, <4>1, <4>2
    <3> QED BY <3>2, <3>3
  <2>13. ASSUME NEW i \in s \cup page(last), Role(i) = "tool"
         PROVE  \E a \in s \cup page(last) : ResultOf(i, a) /\ (a \in Own(r) \/ Answers(i, a))
    <3>1. CASE i \in s
      BY <2>1, <2>13, <3>1 DEF ReplayOK
    <3>2. CASE i \in page(last)
      <4>1. i \in first .. last
        BY <2>4, <3>2
      <4>2. PICK a \in first .. i - 1 : Answers(i, a) /\ SameRun(i, a) /\ ~Unsafe(a, seen)
        BY <2>7, <2>13, <3>2, <4>1
      <4>3. a \in 1 .. Stored /\ i \in 1 .. Stored
        BY <1>4, <4>1
      <4>4. a \in page(last)
        BY <2>6, <2>9, <4>1, <4>2, <4>3
      <4> QED BY <4>2, <4>3, <4>4, AnswersAreResults
    <3> QED BY <3>1, <3>2
  <2>14. \A i \in kept : i \in s \cup page(last) \/ Unreplayable(i)
    BY <2>1, <2>10 DEF ReplayOK
  <2>15. \A i \in kept : i \in Own(r) => i \in s \cup page(last)
    BY <2>1, <2>11 DEF ReplayOK
  <2>16. s \cup page(last) \subseteq kept
    BY <2>3, <2>4
  <2> HIDE DEF e, page, s
  <2> QED BY <1>1, <1>3, <2>12, <2>13, <2>14, <2>15, <2>16 DEF ReplayOK
<1>8. replayed'[r] = s \cup page(last) /\ UNCHANGED <<transcript, snapshots>>
  BY <1>2, RepeatOne DEF ReadPage
<1>9. ReplaysOK(r, e(last), s \cup page(last))
  BY <1>7 DEF ReplaysOK
<1> HIDE DEF e, page, s
<1> QED BY <1>2, <1>6, <1>8, <1>9, QuietShown

-----------------------------------------------------------------------------
(* Checkpoints.                                                            *)

\* What is cut off before a place where a unit starts, and before the run's own messages,
\* takes no exchange apart.
LEMMA CutReplay ==
    ASSUME TypeOK, NEW r \in Runs, NEW f, NEW e, NEW s, ReplayOK(r, f, s),
           f.kept \subseteq 1 .. Stored,
           NEW c \in Nat, c + 1 \in 1 .. Stored, ~Continues(c + 1, 1), \A i \in Own(r) : c < i,
           e.kept = {i \in f.kept : c < i}, e.open = 0
    PROVE  ReplayOK(r, e, {i \in s : c < i})
<1> DEFINE t == {i \in s : c < i}
<1> Stored \in Nat /\ s \subseteq f.kept
  BY Lengths DEF ReplayOK
<1>1. t \subseteq e.kept /\ \A i \in e.kept : i \in f.kept /\ (i \in t <=> i \in s)
  OBVIOUS
<1>2. /\ \A i \in e.kept : i \in t \/ Unreplayable(i)
      /\ \A i \in e.kept : i \in Own(r) => i \in t
      /\ \A a, i \in e.kept : Answers(i, a) /\ SameRun(i, a) => (a \in t <=> i \in t)
  BY <1>1 DEF ReplayOK
<1>3. ASSUME NEW i \in t, Role(i) = "tool"
      PROVE  \E a \in t : ResultOf(i, a) /\ (a \in Own(r) \/ Answers(i, a))
  <2>1. i \in s /\ c < i /\ i \in 1 .. Stored
    OBVIOUS
  <2>2. PICK a \in s : ResultOf(i, a) /\ (a \in Own(r) \/ Answers(i, a))
    BY <1>3, <2>1 DEF ReplayOK
  <2>3. a \in 1 .. Stored
    OBVIOUS
  <2>4. c < a
    <3>1. CASE a \in Own(r)
      BY <3>1
    <3>2. CASE Answers(i, a)
      <4>1. i \in c + 1 .. Stored
        BY <2>1
      <4>2. c + 1 <= a
        BY <2>3, <3>2, <4>1, UnitsDivide
      <4> QED BY <2>3, <4>2
    <3> QED BY <2>2, <3>1, <3>2
  <2> QED BY <2>2, <2>4
<1> HIDE DEF t
<1> QED BY <1>1, <1>2, <1>3 DEF ReplayOK

LEMMA LaterCoversMore ==
    ASSUME IInv, NEW v \in 0 .. Len(snapshots)
    PROVE  Covered(v) <= Covered(Len(snapshots))
<1> DEFINE last == Len(snapshots)
<1> TypeOK /\ SnapshotsOK /\ last \in Nat
  BY Lengths DEF IInv
<1>1. Covered(v) \in 0 .. Stored /\ Covered(last) \in 0 .. Stored /\ Stored \in Nat
  BY CoveredType, Lengths
<1>2. CASE v = 0
  BY <1>1, <1>2 DEF Covered
<1>3. CASE v = last
  BY <1>1, <1>3
<1>4. CASE v # 0 /\ v # last
  <2>1. v \in 1 .. last /\ last \in 1 .. last /\ v < last
    BY <1>4
  <2>2. snapshots[v].covered < snapshots[last].covered
    BY <2>1 DEF SnapshotsOK
  <2> QED BY <1>1, <2>1, <2>2 DEF Covered
<1> QED BY <1>2, <1>3, <1>4

LEMMA AdoptSnapshotShown ==
    ASSUME JInv, Next, NEW r \in Runs, AdoptSnapshot(r)
    PROVE  ShownOK(r)'
<1> /\ IInv /\ TypeOK /\ ExecutorOK(r, executor[r]) /\ ShownOK(r) /\ SnapshotsOK
  BY DEF JInv, IInv, RunOK
<1> DEFINE f == executor[r]
           s == replayed[r]
           last == Len(snapshots)
           covered == Covered(last)
           drop == DropCovered(f, covered)
           e == [f EXCEPT !.stage = Back(f), !.held = last, !.cut = 0,
                          !.kept = drop, !.heads = @ \cap drop]
<1>1. /\ f.stage = "conflict" /\ f.open = 0 /\ f.cut \in f.kept /\ f.cut <= covered
      /\ Move(r, e) /\ UNCHANGED <<transcript, snapshots>>
  BY EndsAreKept DEF AdoptSnapshot, ExecutorOK
<1>2. /\ e.stage = (IF f.loaded THEN "asking" ELSE "compacting") /\ e.loaded = f.loaded
      /\ e.after = f.after /\ e.held = last /\ e.open = f.open /\ e.kept = drop
  BY StageType DEF Executors, Back
<1>3. /\ f.held \in 0 .. last /\ last \in Nat /\ covered \in 0 .. Stored /\ Stored \in Nat
      /\ f.kept \subseteq 1 .. Stored /\ Covered(f.held) \in 0 .. Stored
      /\ Own(r) \subseteq 1 .. Stored /\ f.heads \subseteq f.kept
  BY StageType, CoveredType, Lengths, OwnType DEF ExecutorOK
<1>4. executor'[r] = e /\ replayed'[r] = s \cap drop
  BY <1>1, MoveOne, RepeatOne DEF AdoptSnapshot
<1>5. OwnOK(r, e, s \cap drop)
  BY <1>1, <1>2 DEF ShownOK, OwnOK
<1>6. ASSUME ~LateWriter, Fresh(r, e) PROVE ReplayOK(r, e, s \cap drop)
  <2>1. \A i \in Own(r) : covered < i
    BY <1>2, <1>6 DEF Fresh
  <2>2. Fresh(r, f)
    BY <1>3, <2>1, LaterCoversMore DEF Fresh
  <2>3. ReplayOK(r, f, s)
    BY <1>1, <1>6, <2>2 DEF ShownOK, ReplaysOK, Live
  <2>4. \A i \in drop : covered < i
    <3>1. ContextOK(r, executor[r])'
      BY AdoptSnapshotOK
    <3>2. ~LateWriter' /\ Own(r)' = Own(r) /\ Covered(executor[r].held)' = covered
      BY <1>1, <1>2, <1>4, <1>6 DEF LateWriter, Own, Stored, Covered
    <3>3. Live(executor[r])' /\ Fresh(r, executor[r])'
      BY <1>2, <1>4, <2>1, <3>2 DEF Live, Fresh
    <3>4. MemoryOK(r, executor[r])'
      BY <3>1, <3>2, <3>3 DEF ContextOK
    <3> HIDE DEF e, drop, covered
    <3> QED BY <1>2, <1>4, <3>2, <3>4 DEF MemoryOK
  <2>5. ASSUME NEW i \in f.kept, covered < i PROVE i \in drop
    <3>1. SameUnit(f, i, i) /\ i <= i
      BY <1>3 DEF SameUnit
    <3> QED BY <2>5, <3>1 DEF DropCovered
  <2>6. e.kept = {i \in f.kept : covered < i}
    BY <1>2, <2>4, <2>5, DropIsKept
  <2>7. s \cap drop = {i \in s : covered < i}
    BY <1>2, <2>3, <2>6 DEF ReplayOK
  <2>8. last \in 1 .. last /\ covered = snapshots[last].covered
    BY <1>1, <1>3 DEF Covered
  <2>9. covered \in Nat /\ covered + 1 \in 1 .. Stored /\ ~Continues(covered + 1, 1)
    BY <1>3, <1>6, <2>8 DEF SnapshotsOK, SnapshotOK
  <2> HIDE DEF e, drop, covered
  <2> QED BY <1>1, <1>2, <1>3, <2>1, <2>3, <2>6, <2>7, <2>9, CutReplay
<1>7. ReplaysOK(r, e, s \cap drop)
  BY <1>6 DEF ReplaysOK
<1> HIDE DEF e, drop
<1> QED BY <1>1, <1>4, <1>5, <1>7, QuietShown

LEMMA WriteSnapshotShown ==
    ASSUME JInv, Next, NEW r \in Runs, WriteSnapshot(r)
    PROVE  ShownOK(r)' /\ SummariesOK'
<1> /\ IInv /\ TypeOK /\ ExecutorOK(r, executor[r]) /\ ShownOK(r) /\ SnapshotsOK /\ SummariesOK
  BY DEF JInv, IInv, RunOK
<1> DEFINE f == executor[r]
           s == replayed[r]
           cut == f.cut
           last == Len(snapshots)
           new == [covered |-> f.cut, knows |-> Known(f.held) \cup (Segment(f) \cap s),
                   late |-> f.protected = 0 /\ \E i \in Own(r) : i <= f.cut]
           e == [f EXCEPT !.stage = Back(f), !.held = @ + 1, !.cut = 0,
                          !.kept = @ \ Segment(f), !.heads = @ \ Segment(f)]
<1>1. /\ f.stage = "summarised" /\ f.open = 0 /\ f.held = last /\ Covered(f.held) < cut
      /\ snapshots' = Append(snapshots, new) /\ Move(r, e) /\ UNCHANGED transcript
  BY DEF WriteSnapshot, ExecutorOK
<1>2. /\ e.stage = (IF f.loaded THEN "asking" ELSE "compacting") /\ e.loaded = f.loaded
      /\ e.after = f.after /\ e.held = last + 1 /\ e.open = f.open
      /\ e.kept = f.kept \ Segment(f)
  BY <1>1, StageType DEF Executors, Back
<1>3. /\ last \in Nat /\ Stored \in Nat /\ f.after \in 0 .. Stored
      /\ cut \in 0 .. Stored /\ f.kept \subseteq 1 .. Stored
      /\ Covered(f.held) \in 0 .. Stored /\ Own(r) \subseteq 1 .. Stored
      /\ f.held \in 0 .. last
  BY StageType, CoveredType, Lengths, OwnType
<1>4. executor'[r] = e /\ replayed'[r] = s \ Segment(f)
  BY <1>1, MoveOne, RepeatOne DEF WriteSnapshot
<1>5. /\ Len(snapshots') = last + 1 /\ snapshots'[last + 1] = new
      /\ \A v \in 1 .. last : snapshots'[v] = snapshots[v]
  BY <1>1 DEF TypeOK
<1>6. OwnOK(r, e, s \ Segment(f))
  BY <1>1, <1>2 DEF ShownOK, OwnOK
<1>7. OwnOK(r, executor[r], replayed[r])'
  <2> HIDE DEF e
  <2> QED BY <1>1, <1>4, <1>6, SameTranscript
<1>8. ASSUME ~LateWriter'
      PROVE  /\ ~LateWriter /\ ReplayOK(r, f, s) /\ MemoryOK(r, f)
             /\ \A i \in Own(r) : cut < i
             /\ cut <= f.after
  BY <1>1, <1>8, WriteSpares DEF ShownOK, ReplaysOK, Live
<1>9. ASSUME ~LateWriter' PROVE ReplayOK(r, e, s \ Segment(f))
  <2>1. ~Continues(cut + 1, 1) /\ cut + 1 <= Stored
    <3>1. PICK n \in 1 .. Len(snapshots') : snapshots'[n].covered = cut
      <4>1. last + 1 \in 1 .. Len(snapshots') /\ snapshots'[last + 1].covered = cut
        BY <1>3, <1>5
      <4> QED BY <4>1
    <3>2. SnapshotOK(n)'
      BY <1>9, WriteSnapshotOK DEF SnapshotsOK
    <3>3. \A i : Continues(i, 1)' <=> Continues(i, 1)
      BY <1>1 DEF Continues, Answers, Calling, Role
    <3> QED BY <1>1, <3>1, <3>2, <3>3 DEF SnapshotOK, Stored
  <2>2. e.kept = {i \in f.kept : cut < i}
    BY <1>2, <1>3 DEF Segment
  <2>3. s \ Segment(f) = {i \in s : cut < i}
    BY <1>3, <1>8, <1>9 DEF Segment, ReplayOK
  <2>4. cut \in Nat /\ cut + 1 \in 1 .. Stored
    BY <1>3, <2>1
  <2> HIDE DEF e, cut
  <2> QED BY <1>1, <1>2, <1>3, <1>8, <1>9, <2>1, <2>2, <2>3, <2>4, CutReplay
<1>10. ReplaysOK(r, executor[r], replayed[r])'
  <2> HIDE DEF e
  <2> QED BY <1>1, <1>4, <1>9, SameTranscript DEF ReplaysOK
<1>11. ASSUME ~LateWriter'
       PROVE  /\ new.knows \subseteq 1 .. cut
              /\ \A i \in 1 .. cut : i \in new.knows \/ Unreplayable(i)
  <2>1. /\ Known(f.held) \subseteq 1 .. Covered(f.held)
        /\ \A i \in 1 .. Covered(f.held) : i \in Known(f.held) \/ Unreplayable(i)
    <3>1. CASE f.held = 0
      BY <3>1 DEF Known, Covered
    <3>2. CASE f.held # 0
      <4>1. SummaryOK(f.held)
        BY <1>3, <1>8, <1>11, <3>2 DEF SummariesOK
      <4> QED BY <3>2, <4>1 DEF SummaryOK, Known, Covered
    <3> QED BY <3>1, <3>2
  <2>2. Segment(f) \subseteq 1 .. cut
    BY <1>3 DEF Segment
  <2>3. ASSUME NEW i \in 1 .. cut PROVE i \in new.knows \/ Unreplayable(i)
    <3>1. CASE i <= Covered(f.held)
      BY <1>3, <2>1, <3>1
    <3>2. CASE Covered(f.held) < i
      <4>1. i \in 1 .. f.after
        BY <1>3, <1>8, <1>11
      <4>2. i \in f.kept
        BY <1>8, <1>11, <3>2, <4>1 DEF MemoryOK
      <4>3. i \in Segment(f)
        BY <1>3, <4>2 DEF Segment
      <4> QED BY <1>8, <1>11, <4>2, <4>3 DEF ReplayOK
    <3> QED BY <1>3, <3>1, <3>2
  <2>4. \A i \in Known(f.held) : i \in 1 .. cut
    BY <1>1, <1>3, <2>1
  <2> QED BY <2>2, <2>3, <2>4
<1>12. \A i : Unreplayable(i)' <=> Unreplayable(i)
  BY <1>1, <1>4, SameTranscript
<1>13. ASSUME NEW v \in 1 .. last + 1, ~LateWriter' PROVE SummaryOK(v)'
  <2>1. CASE v \in 1 .. last
    BY <1>5, <1>8, <1>12, <1>13, <2>1 DEF SummariesOK, SummaryOK
  <2>2. CASE v = last + 1
    <3>1. snapshots'[v].covered = cut /\ snapshots'[v].knows = new.knows
      BY <1>5, <2>2
    <3> HIDE DEF new, cut
    <3> QED BY <1>11, <1>12, <1>13, <3>1 DEF SummaryOK
  <2> QED BY <1>3, <2>1, <2>2
<1>14. SummariesOK'
  <2>1. PICK n : n = last + 1
    OBVIOUS
  <2>2. \A v \in 1 .. n : ~LateWriter' => SummaryOK(v)'
    BY <1>13, <2>1
  <2> QED BY <1>5, <2>1, <2>2 DEF SummariesOK
<1> QED BY <1>7, <1>10, <1>14 DEF ShownOK

-----------------------------------------------------------------------------
(* Messages.                                                               *)

LEMMA AppendShown ==
    ASSUME JInv, Next, NEW r \in Runs, NEW m \in Messages, m.run = r,
           transcript' = Append(transcript, m), UNCHANGED snapshots,
           executor[r].stage = "asking",
           executor'[r].stage \in {"asking", "answered"},
           executor'[r].loaded = executor[r].loaded,
           executor'[r].after = executor[r].after,
           executor'[r].held = executor[r].held,
           executor'[r].kept = executor[r].kept \cup {Stored + 1},
           replayed'[r] = replayed[r] \cup {Stored + 1},
           m.role = "tool" => executor[r].open # 0,
           executor'[r].open # 0 => m.calls > 0 \/ (executor[r].open # 0 /\ m.calls = 0)
    PROVE  ShownOK(r)'
<1> TypeOK /\ ExecutorOK(r, executor[r]) /\ ShownOK(r) /\ Keeps
  BY NextKeeps DEF JInv, IInv, RunOK
<1> DEFINE f == executor[r]
           s == replayed[r]
<1>1. PICK seq : seq = Stored + 1
  OBVIOUS
<1>2. /\ f.after \in 0 .. Stored /\ Stored \in Nat /\ f.kept \subseteq 1 .. Stored
      /\ Own(r) \subseteq 1 .. Stored /\ f.loaded /\ f.held \in 0 .. Len(snapshots)
  BY StageType, Lengths, OwnType DEF ExecutorOK
<1>3. /\ Stored' = seq /\ transcript'[seq] = m /\ Own(r)' = Own(r) \cup {seq}
      /\ seq \notin 1 .. Stored /\ \A i \in 1 .. Stored : transcript'[i] = transcript[i]
  <2>1. /\ Stored' = Stored + 1 /\ transcript'[Stored + 1] = m
        /\ \A i \in 1 .. Stored : transcript'[i] = transcript[i]
    BY Grows
  <2>2. Own(r)' = Own(r) \cup {Stored + 1}
    BY OwnAppend
  <2>3. seq \notin 1 .. Stored
    BY <1>1, <1>2
  <2>4. Stored' = seq /\ transcript'[seq] = m
    BY <1>1, <2>1
  <2>5. Own(r)' = Own(r) \cup {seq}
    BY <1>1, <2>2
  <2> QED BY <2>1, <2>3, <2>4, <2>5
<1>4. \A i \in 1 .. Stored : /\ Role(i)' = Role(i) /\ (Calling(i)' <=> Calling(i))
                             /\ (Unreplayable(i)' <=> Unreplayable(i))
  BY FactsStay
<1>5. \A i, a \in 1 .. Stored : /\ Answers(i, a)' <=> Answers(i, a)
                                /\ SameRun(i, a)' <=> SameRun(i, a)
                                /\ ResultOf(i, a)' <=> ResultOf(i, a)
  BY FactsStay
<1>6. OwnOK(r, executor[r], replayed[r])'
  <2>1. \A i \in Own(r)' : i <= f.after => i \in Own(r)
    BY <1>1, <1>2, <1>3
  <2>2. \A i \in Own(r) : i <= f.after => Role(i) = "user"
    BY <1>2 DEF ShownOK, OwnOK
  <2> QED BY <1>2, <1>4, <2>1, <2>2 DEF OwnOK
<1>7. ASSUME ~LateWriter', Fresh(r, executor[r])'
      PROVE  ReplayOK(r, executor[r], replayed[r])'
  <2>1. Covered(executor[r].held)' = Covered(f.held)
    <3>1. \A v \in 0 .. Len(snapshots) : Covered(v)' = Covered(v)
      BY SummariesStay
    <3> QED BY <1>2, <3>1 DEF Covered
  <2>2. ~LateWriter /\ Fresh(r, f)
    BY <1>3, <1>7, <2>1, LateStays DEF Fresh
  <2>3. ReplayOK(r, f, s)
    BY <2>2 DEF ShownOK, ReplaysOK, Live
  <2>4. s \subseteq 1 .. Stored
    BY <1>2, <2>3 DEF ReplayOK
  <2>5. executor'[r].kept = f.kept \cup {seq} /\ replayed'[r] = s \cup {seq}
    BY <1>1
  <2>6. /\ replayed'[r] \subseteq executor'[r].kept
        /\ \A i \in executor'[r].kept : i \in replayed'[r] \/ Unreplayable(i)'
        /\ \A i \in executor'[r].kept : i \in Own(r)' => i \in replayed'[r]
    BY <1>2, <1>3, <1>4, <2>3, <2>5 DEF ReplayOK
  <2>7. ASSUME NEW a \in 1 .. Stored, SameRun(seq, a)' PROVE a \in Own(r)
    BY <1>2, <1>3, <2>7 DEF SameRun, Own
  <2>8. ASSUME NEW a \in executor'[r].kept, NEW i \in executor'[r].kept,
               Answers(i, a)', SameRun(i, a)'
        PROVE  a \in replayed'[r] <=> i \in replayed'[r]
    <3>1. a < i
      BY <2>8 DEF Answers
    <3>2. a \in f.kept
      BY <1>1, <1>2, <2>5, <3>1
    <3>3. CASE i \in f.kept
      <4>1. Answers(i, a) /\ SameRun(i, a)
        BY <1>2, <1>5, <2>8, <3>2, <3>3
      <4> QED BY <1>2, <1>3, <2>3, <2>5, <3>2, <3>3, <4>1 DEF ReplayOK
    <3>4. CASE i = seq
      <4>1. a \in Own(r)
        BY <1>2, <2>7, <2>8, <3>2, <3>4
      <4> QED BY <2>3, <2>5, <3>2, <3>4, <4>1 DEF ReplayOK
    <3> QED BY <2>5, <3>3, <3>4
  <2>9. ASSUME f.open # 0
        PROVE  \E a \in s : /\ a \in Own(r) /\ Calling(a)'
                            /\ \A j \in Own(r) : Calling(j)' => j <= a
    BY <1>2, <1>4, <2>3, <2>4, <2>9 DEF ReplayOK
  <2>10. ASSUME NEW i \in replayed'[r], Role(i)' = "tool"
         PROVE  \E a \in replayed'[r] : ResultOf(i, a)' /\ (a \in Own(r)' \/ Answers(i, a)')
    <3>1. CASE i \in s
      <4>1. PICK a \in s : ResultOf(i, a) /\ (a \in Own(r) \/ Answers(i, a))
        BY <1>4, <2>3, <2>4, <2>10, <3>1 DEF ReplayOK
      <4>2. ResultOf(i, a)' /\ (a \in Own(r)' \/ Answers(i, a)')
        BY <1>3, <1>5, <2>4, <3>1, <4>1
      <4> QED BY <2>5, <4>2
    <3>2. CASE i = seq
      <4>1. f.open # 0
        BY <1>3, <2>10, <3>2 DEF Role
      <4>2. PICK a \in s : /\ a \in Own(r) /\ Calling(a)'
                           /\ \A j \in Own(r) : Calling(j)' => j <= a
        BY <2>9, <4>1
      <4>3. a < seq /\ SameRun(seq, a)' /\ a \in Nat
        <5>1. a \in 1 .. Stored /\ transcript[a].run = r
          BY <4>2 DEF Own
        <5>2. transcript'[a].run = transcript'[seq].run
          BY <1>3, <5>1
        <5> QED BY <1>1, <1>2, <5>1, <5>2 DEF SameRun
      <4>4. ASSUME NEW j \in a + 1 .. seq - 1, SameRun(j, a)' PROVE ~Calling(j)'
        <5>1. j \in 1 .. Stored /\ a < j
          BY <1>1, <1>2, <4>3
        <5>2. SameRun(j, a)
          BY <1>5, <2>4, <4>4, <5>1
        <5>3. j \in Own(r)
          BY <4>2, <5>1, <5>2 DEF SameRun, Own
        <5> QED BY <4>2, <4>3, <5>1, <5>3
      <4>5. ResultOf(seq, a)'
        <5>1. PICK q : q = seq
          OBVIOUS
        <5>2. Role(q)' = "tool"
          BY <2>10, <3>2, <5>1
        <5>3. ResultOf(q, a)'
          BY <4>2, <4>3, <4>4, <5>1, <5>2 DEF ResultOf
        <5> QED BY <5>1, <5>3
      <4> QED BY <1>3, <2>5, <3>2, <4>2, <4>5
    <3> QED BY <2>5, <3>1, <3>2
  <2>11. ASSUME executor'[r].open # 0
         PROVE  \E a \in replayed'[r] : /\ a \in Own(r)' /\ Calling(a)'
                                        /\ \A j \in Own(r)' : Calling(j)' => j <= a
    <3>1. Calling(seq)' <=> m.calls > 0
      BY <1>3 DEF Calling
    <3>2. CASE m.calls > 0
      <4>1. \A j \in Own(r)' : j <= seq
        BY <1>1, <1>2, <1>3
      <4> QED BY <1>3, <2>5, <3>1, <3>2, <4>1
    <3>3. CASE f.open # 0 /\ m.calls = 0
      <4>1. ~Calling(seq)'
        BY <3>1, <3>3
      <4> QED BY <1>3, <2>5, <2>9, <3>3, <4>1
    <3> QED BY <2>11, <3>2, <3>3
  <2> QED BY <2>6, <2>8, <2>10, <2>11 DEF ReplayOK
<1> QED BY <1>6, <1>7 DEF ShownOK, ReplaysOK

LEMMA AppendAssistantShown ==
    ASSUME JInv, Next, NEW r \in Runs, NEW n \in 0 .. MaxCalls, NEW x \in BOOLEAN,
           AppendAssistant(r, n, x)
    PROVE  ShownOK(r)'
<1> TypeOK
  BY DEF JInv, IInv
<1> DEFINE f == executor[r]
           e == [f EXCEPT !.kept = @ \cup {Stored + 1}, !.heads = @ \cup {Stored + 1},
                          !.open = n, !.stage = IF n = 0 THEN "answered" ELSE @]
           m == Message(r, "assistant", n, x)
<1>1. /\ transcript' = Append(transcript, m) /\ Move(r, e) /\ UNCHANGED snapshots
      /\ f.stage = "asking" /\ Repeat(r, replayed[r] \cup {Stored + 1})
  BY DEF AppendAssistant, Asking
<1>2. m \in Messages /\ m.run = r /\ m.role = "assistant" /\ m.calls = n
  BY AssistantMessage DEF Message
<1>3. executor'[r] = e /\ replayed'[r] = replayed[r] \cup {Stored + 1}
  BY <1>1, MoveOne, RepeatOne
<1>4. /\ e.stage = (IF n = 0 THEN "answered" ELSE "asking") /\ e.loaded = f.loaded
      /\ e.after = f.after /\ e.held = f.held /\ e.open = n
      /\ e.kept = f.kept \cup {Stored + 1}
  BY <1>1, StageType DEF Executors
<1>5. n # 0 => n > 0
  OBVIOUS
<1> HIDE DEF e, m
<1> QED BY <1>1, <1>2, <1>3, <1>4, <1>5, AppendShown

LEMMA AppendToolShown ==
    ASSUME JInv, Next, NEW r \in Runs, AppendTool(r)
    PROVE  ShownOK(r)'
<1> TypeOK
  BY DEF JInv, IInv
<1> DEFINE f == executor[r]
           e == [f EXCEPT !.kept = @ \cup {Stored + 1}, !.open = @ - 1]
           m == Message(r, "tool", 0, FALSE)
<1>1. /\ transcript' = Append(transcript, m) /\ Move(r, e) /\ UNCHANGED snapshots
      /\ f.stage = "asking" /\ f.open # 0 /\ Repeat(r, replayed[r] \cup {Stored + 1})
  BY StageType DEF AppendTool
<1>2. m \in Messages /\ m.run = r /\ m.calls = 0
  BY PlainMessage DEF Message
<1>3. executor'[r] = e /\ replayed'[r] = replayed[r] \cup {Stored + 1}
  BY <1>1, MoveOne, RepeatOne
<1>4. /\ e.stage = "asking" /\ e.loaded = f.loaded
      /\ e.after = f.after /\ e.held = f.held /\ e.kept = f.kept \cup {Stored + 1}
  BY <1>1, StageType DEF Executors
<1> HIDE DEF e, m
<1> QED BY <1>1, <1>2, <1>3, <1>4, AppendShown

LEMMA AcceptRunShown ==
    ASSUME JInv, Next, NEW r \in Runs, AcceptRun(r)
    PROVE  ShownOK(r)'
<1> TypeOK /\ BegunOK(r) /\ ShownOK(r)
  BY DEF JInv, IInv, RunOK
<1> DEFINE e == [executor[r] EXCEPT !.stage = "accepted"]
           m == Message(r, "user", 0, FALSE)
<1>1. /\ Move(r, e) /\ executor[r] = Idle /\ executor[r].stage = "none" /\ Own(r) = {}
      /\ transcript' = Append(transcript, m) /\ UNCHANGED replayed
  BY DEF AcceptRun, BegunOK
<1>2. e.stage = "accepted" /\ e.loaded = FALSE
  BY <1>1, StageType DEF Executors, Idle
<1>3. executor'[r] = e /\ replayed'[r] = {}
  BY <1>1, MoveOne DEF ShownOK, OwnOK
<1>4. m \in Messages /\ m.run = r /\ m.role = "user"
  BY PlainMessage DEF Message
<1>5. Own(r)' = {Stored + 1} /\ transcript'[Stored + 1] = m
  BY <1>1, <1>4, OwnAppend, Grows
<1> HIDE DEF e, m
<1>6. \A i \in Own(r)' : Role(i)' = "user"
  BY <1>4, <1>5 DEF Role
<1> QED BY <1>2, <1>3, <1>6 DEF ShownOK, OwnOK, ReplaysOK, Live

-----------------------------------------------------------------------------
LEMMA InitShown == Init => JInv
<1> SUFFICES ASSUME Init PROVE JInv
  OBVIOUS
<1>1. IInv
  BY InitOK
<1>2. SummariesOK
  BY DEF Init, SummariesOK
<1>3. ASSUME NEW r \in Runs PROVE ShownOK(r)
  <2>1. /\ executor[r] = Idle /\ replayed[r] = {} /\ Idle.stage = "none"
        /\ Idle.loaded = FALSE /\ Own(r) = {}
    BY <1>1 DEF Init, Idle, IInv, RunOK, BegunOK
  <2> QED BY <2>1 DEF ShownOK, OwnOK, ReplaysOK, Live
<1> QED BY <1>1, <1>2, <1>3 DEF JInv

LEMMA NextShown ==
    ASSUME JInv, Next
    PROVE  SummariesOK' /\ \A q \in Runs : ShownOK(q)'
<1> IInv /\ TypeOK /\ Keeps
  BY NextKeeps DEF JInv, IInv
<1>1. ASSUME UNCHANGED snapshots PROVE SummariesOK'
  <2>1. ~LateWriter' => ~LateWriter
    BY LateStays
  <2>2. ASSUME NEW v \in 1 .. Len(snapshots), ~LateWriter' PROVE SummaryOK(v)'
    <3>1. SummaryOK(v)
      BY <2>1, <2>2 DEF JInv, SummariesOK
    <3>2. snapshots[v].covered \in 1 .. Stored
      BY Lengths DEF Snapshots
    <3>3. \A i \in 1 .. snapshots[v].covered : i \in 1 .. Stored
      BY <3>2, Lengths
    <3>4. \A i \in 1 .. Stored : Unreplayable(i)' <=> Unreplayable(i)
      BY FactsStay
    <3> QED BY <1>1, <3>1, <3>3, <3>4 DEF SummaryOK
  <2> QED BY <1>1, <2>2 DEF SummariesOK
<1>2. ASSUME NEW r \in Runs, ShownOK(r)', \E e : Move(r, e),
             \A q \in Runs \ {r} : replayed'[q] = replayed[q],
             \A q \in Runs \ {r} : Own(q)' = Own(q)
      PROVE  \A q \in Runs : ShownOK(q)'
  <2>1. \A q \in Runs \ {r} : executor'[q] = executor[q]
    BY <1>2, MoveOne
  <2> QED BY <1>2, <2>1, OthersShown
<1>3. ASSUME NEW r \in Runs, (\E s : Repeat(r, s)) \/ UNCHANGED replayed
      PROVE  \A q \in Runs \ {r} : replayed'[q] = replayed[q]
  BY <1>3, RepeatOne
<1>4. ASSUME NEW r \in Runs, NEW m \in Messages, m.run = r, transcript' = Append(transcript, m)
      PROVE  \A q \in Runs \ {r} : Own(q)' = Own(q)
  BY <1>4, OwnAppend
<1>5. CASE ReplaceRun
  <2>1. UNCHANGED <<transcript, snapshots, executor, replayed>>
    BY <1>5 DEF ReplaceRun
  <2> QED BY <1>1, <2>1, OwnSame, OthersShown
<1> DEFINE Goal == SummariesOK' /\ \A q \in Runs : ShownOK(q)'
<1>6. ASSUME NEW r \in Runs, AcceptRun(r) PROVE Goal
  <2>1. /\ \E e : Move(r, e)
        /\ \E m \in Messages : m.run = r /\ transcript' = Append(transcript, m)
        /\ UNCHANGED <<snapshots, replayed>>
    BY <1>6, PlainMessage DEF AcceptRun
  <2> QED BY <1>1, <1>2, <1>3, <1>4, <1>6, <2>1, AcceptRunShown
<1>7. ASSUME NEW r \in Runs, NEW n \in 0 .. MaxCalls, NEW x \in BOOLEAN, AppendAssistant(r, n, x)
      PROVE  Goal
  <2>1. /\ \E e : Move(r, e)
        /\ \E s : Repeat(r, s)
        /\ \E m \in Messages : m.run = r /\ transcript' = Append(transcript, m)
        /\ UNCHANGED snapshots
    BY <1>7, AssistantMessage DEF AppendAssistant
  <2> QED BY <1>1, <1>2, <1>3, <1>4, <1>7, <2>1, AppendAssistantShown
<1>8. ASSUME NEW r \in Runs, AppendTool(r) PROVE Goal
  <2>1. /\ \E e : Move(r, e)
        /\ \E s : Repeat(r, s)
        /\ \E m \in Messages : m.run = r /\ transcript' = Append(transcript, m)
        /\ UNCHANGED snapshots
    BY <1>8, PlainMessage DEF AppendTool
  <2> QED BY <1>1, <1>2, <1>3, <1>4, <1>8, <2>1, AppendToolShown
<1>9. ASSUME NEW r \in Runs, WriteSnapshot(r) PROVE Goal
  <2>1. (\E e : Move(r, e)) /\ (\E s : Repeat(r, s)) /\ UNCHANGED transcript
    BY <1>9 DEF WriteSnapshot
  <2> QED BY <1>2, <1>3, <1>9, <2>1, OwnSame, WriteSnapshotShown
<1>10. ASSUME NEW r \in Runs,
              \/ Stop(r) \/ LoadSnapshot(r) \/ ReadPage(r) \/ NextPage(r)
              \/ Summarise(r) \/ FailSummary(r) \/ LoseSnapshot(r) \/ AdoptSnapshot(r)
              \/ GiveUpSnapshot(r)
       PROVE  Goal
  <2>1. /\ \E e : Move(r, e)
        /\ (\E s : Repeat(r, s)) \/ UNCHANGED replayed
        /\ UNCHANGED <<transcript, snapshots>>
    BY <1>10
    DEF Stop, LoadSnapshot, ReadPage, NextPage, Summarise, FailSummary,
        LoseSnapshot, AdoptSnapshot, GiveUpSnapshot
  <2>2. ShownOK(r)'
    BY <1>10, StopShown, LoadSnapshotShown, ReadPageShown, NextPageShown, SummariseShown,
       FailSummaryShown, LoseSnapshotShown, AdoptSnapshotShown, GiveUpSnapshotShown
  <2> QED BY <1>1, <1>2, <1>3, <2>1, <2>2, OwnSame
<1> QED BY <1>5, <1>6, <1>7, <1>8, <1>9, <1>10 DEF Next, Compact

LEMMA NextInductive == JInv /\ [Next]_vars => JInv'
<1> SUFFICES ASSUME JInv, [Next]_vars PROVE JInv'
  OBVIOUS
<1>1. IInv'
  BY NextOK DEF JInv
<1>2. CASE Next
  BY <1>1, <1>2, NextShown DEF JInv
<1>3. CASE UNCHANGED vars
  <2>1. UNCHANGED <<transcript, snapshots, active, executor, replayed>>
    BY <1>3 DEF vars
  <2>2. TypeOK /\ Keeps
    BY <2>1, Lengths DEF JInv, IInv, Keeps, Stored
  <2>3. \A r \in Runs : ShownOK(r)'
    BY <2>1, <2>2, OwnSame, OthersShown
  <2>4. SummariesOK'
    BY <2>1
    DEF JInv, SummariesOK, SummaryOK, LateWriter, Unreplayable, Answers, SameRun, Repeats,
        Role, Calling
  <2> QED BY <1>1, <2>3, <2>4 DEF JInv
<1> QED BY <1>2, <1>3

THEOREM Inductive == Spec => []JInv
  BY InitShown, NextInductive, PTL DEF Spec

-----------------------------------------------------------------------------
(* What the session's run is shown.                                        *)

LEMMA ReplayInScope ==
    ASSUME JInv, NEW r \in Runs, InScope(r)
    PROVE  /\ ReplayOK(r, executor[r], replayed[r]) /\ OwnOK(r, executor[r], replayed[r])
           /\ executor[r].held # 0 => SummaryOK(executor[r].held)
<1>1. IInv /\ ~LateWriter /\ executor[r].stage = "asking" /\ Fresh(r, executor[r])
  BY MemoryInScope DEF JInv, InScope, Asking
<1>2. executor[r].held # 0 => executor[r].held \in 1 .. Len(snapshots)
  BY <1>1, StageType, Lengths DEF IInv
<1> QED BY <1>1, <1>2 DEF JInv, ShownOK, ReplaysOK, SummariesOK, Live

LEMMA KeepsOwn == JInv => OwnQuestionKept
<1> SUFFICES ASSUME JInv, NEW r \in Runs, InScope(r) PROVE Own(r) \subseteq replayed[r]
  BY DEF OwnQuestionKept
<1> IInv /\ TypeOK
  BY DEF JInv, IInv
<1>1. MemoryOK(r, executor[r]) /\ executor[r].loaded /\ Fresh(r, executor[r])
  BY MemoryInScope
<1>2. Own(r) \subseteq 1 .. Stored /\ executor[r].after \in 0 .. Stored /\ Stored \in Nat
  BY OwnType, StageType, Lengths
<1>3. ASSUME NEW i \in Own(r) PROVE i \in executor[r].kept
  <2>1. Covered(executor[r].held) < i /\ (i <= executor[r].after \/ i \in executor[r].kept)
    BY <1>1 DEF Fresh, MemoryOK
  <2>2. CASE i <= executor[r].after
    <3>1. i \in 1 .. executor[r].after
      BY <1>2, <2>2
    <3> QED BY <1>1, <2>1, <3>1 DEF MemoryOK
  <2> QED BY <2>1, <2>2
<1> QED BY <1>3, ReplayInScope DEF ReplayOK

LEMMA ShowsAll == JInv => ContextIsWhole
<1> SUFFICES ASSUME JInv, NEW r \in Runs, InScope(r)
             PROVE  /\ \A i \in 1 .. executor[r].after :
                          \/ i \in Known(executor[r].held) \/ i \in replayed[r]
                          \/ Unreplayable(i)
                    /\ Known(executor[r].held) \cap replayed[r] = {}
  BY DEF ContextIsWhole
<1> IInv /\ TypeOK
  BY DEF JInv, IInv
<1> DEFINE covered == Covered(executor[r].held)
<1>1. MemoryOK(r, executor[r]) /\ ReplayOK(r, executor[r], replayed[r])
  BY MemoryInScope, ReplayInScope
<1>2. /\ Known(executor[r].held) \subseteq 1 .. covered
      /\ \A i \in 1 .. covered : i \in Known(executor[r].held) \/ Unreplayable(i)
  <2>1. CASE executor[r].held = 0
    BY <2>1 DEF Known, Covered
  <2>2. CASE executor[r].held # 0
    <3>1. SummaryOK(executor[r].held)
      BY <2>2, ReplayInScope
    <3> QED BY <2>2, <3>1 DEF SummaryOK, Known, Covered
  <2> QED BY <2>1, <2>2
<1>3. /\ covered \in 0 .. Stored /\ Stored \in Nat /\ executor[r].after \in 0 .. Stored
      /\ executor[r].kept \subseteq 1 .. Stored
  BY StageType, CoveredType, Lengths
<1>4. \A i \in 1 .. executor[r].after : i \in 1 .. covered \/ i \in executor[r].kept
  BY <1>1, <1>3 DEF MemoryOK
<1>5. \A i \in executor[r].kept : i \notin 1 .. covered
  BY <1>1, <1>3 DEF MemoryOK
<1> HIDE DEF covered
<1> QED BY <1>1, <1>2, <1>4, <1>5 DEF ReplayOK

LEMMA SplitsNone == JInv => ExchangesStayWhole
<1> SUFFICES ASSUME JInv, NEW r \in Runs, InScope(r)
             PROVE  /\ \A a, i \in 1 .. executor[r].after : Answers(i, a) =>
                          /\ a \in executor[r].kept <=> i \in executor[r].kept
                          /\ SameRun(i, a) => (a \in replayed[r] <=> i \in replayed[r])
                    /\ \A i \in replayed[r] :
                          Role(i) = "tool" => \E a \in replayed[r] : ResultOf(i, a)
  BY DEF ExchangesStayWhole
<1> IInv /\ TypeOK
  BY DEF JInv, IInv
<1> DEFINE e == executor[r]
           covered == Covered(e.held)
<1>1. MemoryOK(r, e) /\ ReplayOK(r, e, replayed[r])
  BY MemoryInScope, ReplayInScope
<1>2. ASSUME NEW a \in 1 .. e.after, NEW i \in 1 .. e.after, Answers(i, a)
      PROVE  a \in e.kept <=> i \in e.kept
  <2>1. /\ covered \in 0 .. Stored /\ Stored \in Nat /\ e.after \in 0 .. Stored
        /\ a \in Nat /\ i \in Nat /\ a < i
    BY <1>2, StageType, CoveredType, Lengths DEF Answers
  <2>2. ASSUME a \in e.kept PROVE i \in e.kept
    <3>1. covered < i
      BY <1>1, <2>1, <2>2 DEF MemoryOK
    <3> QED BY <1>1, <3>1 DEF MemoryOK
  <2>3. ASSUME i \in e.kept, a \notin e.kept PROVE FALSE
    <3>1. a <= covered /\ covered < i
      BY <1>1, <2>1, <2>3 DEF MemoryOK
    <3>2. e.held # 0
      BY <2>1, <3>1, <1>2 DEF Covered
    <3>3. SnapshotOK(e.held) /\ covered = snapshots[e.held].covered
      BY <3>2, MemoryInScope DEF Covered
    <3>4. covered + 1 \in 1 .. Stored /\ i \in covered + 1 .. Stored /\ a \in 1 .. Stored
      BY <2>1, <3>1
    <3>5. covered + 1 <= a
      BY <1>2, <3>3, <3>4, UnitsDivide DEF SnapshotOK
    <3> QED BY <2>1, <3>1, <3>5
  <2> QED BY <2>2, <2>3
<1>3. ASSUME NEW a \in 1 .. e.after, NEW i \in 1 .. e.after, Answers(i, a), SameRun(i, a)
      PROVE  a \in replayed[r] <=> i \in replayed[r]
  BY <1>1, <1>2, <1>3 DEF ReplayOK
<1>4. \A i \in replayed[r] : Role(i) = "tool" => \E a \in replayed[r] : ResultOf(i, a)
  BY <1>1 DEF ReplayOK
<1> QED BY <1>2, <1>3, <1>4

LEMMA ShowsLatest == JInv => LatestResultsInFull
<1> SUFFICES ASSUME JInv, NEW r \in Runs, InScope(r), NEW a \in Own(r), NEW i \in Own(r),
                    ResultOf(i, a), \A b \in Own(r) : Calling(b) => b <= a
             PROVE  i \in replayed[r] \ PrunedResults(replayed[r])
  BY DEF LatestResultsInFull
<1> IInv /\ TypeOK
  BY DEF JInv, IInv
<1> DEFINE e == executor[r]
           s == replayed[r]
<1>1. MemoryOK(r, e) /\ e.loaded /\ ReplayOK(r, e, s) /\ OwnOK(r, e, s)
  BY MemoryInScope, ReplayInScope
<1>2. /\ Own(r) \subseteq 1 .. Stored /\ e.kept \subseteq 1 .. Stored /\ Stored \in Nat
      /\ e.after \in 0 .. Stored /\ s \subseteq e.kept
  BY <1>1, OwnType, StageType, Lengths DEF ReplayOK
<1>3. i \in s
  BY KeepsOwn DEF OwnQuestionKept
<1>4. e.after < a
  <2>1. Calling(a) /\ Role(a) = "assistant"
    BY <1>2, CallsAreAnswers DEF ResultOf
  <2> QED BY <1>1, <1>2, <2>1 DEF OwnOK
<1>5. ASSUME NEW b \in s, Calling(b), a < b PROVE FALSE
  <2>1. b \in e.kept /\ b \in 1 .. Stored /\ a \in 1 .. Stored
    BY <1>2
  <2>2. e.after < b
    BY <1>2, <1>4, <1>5, <2>1
  <2>3. b \in Own(r)
    BY <1>1, <2>1, <2>2 DEF MemoryOK
  <2> QED BY <1>5, <2>1, <2>3
<1>6. ASSUME NEW b \in s, ResultOf(i, b) PROVE b = a
  <2>1. a \in 1 .. Stored /\ b \in 1 .. Stored /\ i \in 1 .. Stored
    BY <1>2
  <2>2. SameRun(a, b) /\ SameRun(b, a) /\ Calling(a) /\ Calling(b) /\ a < i /\ b < i
    BY <1>6 DEF ResultOf, SameRun
  <2>3. ~(a < b)
    <3>1. a < b => b \in a + 1 .. i - 1
      BY <2>1, <2>2
    <3> QED BY <2>2, <3>1 DEF ResultOf
  <2>4. ~(b < a)
    <3>1. b < a => a \in b + 1 .. i - 1
      BY <2>1, <2>2
    <3> QED BY <1>6, <2>2, <3>1 DEF ResultOf
  <2> QED BY <2>1, <2>3, <2>4
<1>7. ASSUME i \in PrunedResults(s) PROVE FALSE
  <2>1. PICK b \in s : /\ ResultOf(i, b)
                       /\ Cardinality({c \in s : b < c /\ Calling(c)}) >= KeptResults
    BY <1>7 DEF PrunedResults
  <2>2. {c \in s : b < c /\ Calling(c)} = {}
    BY <1>5, <1>6, <2>1
  <2>3. Cardinality({}) >= KeptResults
    BY <2>1, <2>2
  <2> QED BY <2>3, FS_EmptySet, ContextMemoryAssumption DEF ContextMemoryAssumption
<1> QED BY <1>3, <1>7

(* Every variable keeps its type. *)
THEOREM TypeCorrect == Spec => []TypeOK
  BY Inductive, PTL DEF JInv, IInv

(* The model is told every message once, in the summary, which was made from it, or by a
   message of its own, unless the transcript alone keeps it out of every context. *)
THEOREM WholeContext == Spec => []ContextIsWhole
  BY Inductive, ShowsAll, PTL

(* A run's own question, and what came after it, is repeated to it as it is. *)
THEOREM QuestionKept == Spec => []OwnQuestionKept
  BY Inductive, KeepsOwn, PTL

(* The results of tools stay with the calls they answer, and none is sent without them. *)
THEOREM WholeExchanges == Spec => []ExchangesStayWhole
  BY Inductive, SplitsNone, PTL

(* Pruning puts no placeholder for what the last calls of the run returned. *)
THEOREM LatestResultsShown == Spec => []LatestResultsInFull
  BY Inductive, ShowsLatest, PTL
=============================================================================
