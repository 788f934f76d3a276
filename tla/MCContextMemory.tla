--------------------------- MODULE MCContextMemory ---------------------------
(* A small instance of ContextMemory for TLC. *)
EXTENDS ContextMemory, TLC

Question(run) == Message(run, "user", 0, FALSE)
Result(run)   == Message(run, "tool", 0, FALSE)

\* A question that was answered with the help of two results and one whose run was
\* interrupted before the last of them.
Answered    == <<Question(0), Message(0, "assistant", 2, FALSE), Result(0), Result(0)>>
Interrupted == <<Question(0), Message(0, "assistant", 2, TRUE), Result(0)>>

\* Two runs, the first of which was replaced and went on: a result that comes among those
\* of the second, and calls by the same identifier.
Orphaned == <<Question(-1), Question(0), Message(-1, "assistant", 1, FALSE),
              Message(0, "assistant", 1, FALSE), Result(-1)>>
Clashing == <<Question(-1), Question(0),
              Message(-1, "assistant", 1, TRUE), Message(0, "assistant", 1, TRUE)>>

Ended         == {-1, 0}
PastHistories == {Answered, Interrupted, Orphaned, Clashing}
=============================================================================
