----------------------------- MODULE MCAgentLoop -----------------------------
(* A small instance of AgentLoop for TLC. *)
EXTENDS AgentLoop, TLC

CONSTANTS search, c1, c2, c3, r1, r2

\* One tool, called with different arguments.
OneTool == [c \in Calls |-> search]

\* Nothing in the properties tells calls or results apart.
Alike == Permutations(Calls) \cup Permutations(Results)
=============================================================================
