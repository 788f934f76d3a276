----------------------------- MODULE MCTooling -----------------------------
EXTENDS Tooling, TLC

Conn(s, v) == [slug |-> s, valid |-> v]
Tool(s, c) == [slug |-> s, valid |-> TRUE, connection |-> c]

\* A connection with its tool; a tool of a connection that must be saved; an
\* invalid connection, with entries that repeat a slug.
MCBundles ==
    {[connections |-> <<Conn("x", TRUE)>>, tools |-> <<Tool("x", "x")>>],
     [connections |-> <<>>, tools |-> <<Tool("y", "x")>>],
     [connections |-> <<Conn("x", FALSE), Conn("x", TRUE)>>,
      tools |-> <<Tool("x", "x"), Tool("x", None)>>]}

Symmetry == Permutations(ConnIDs) \cup Permutations(ToolIDs)
              \cup Permutations(ServerIDs) \cup Permutations(Admins)
              \cup Permutations(Endpoints)
=============================================================================
