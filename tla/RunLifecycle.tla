---------------------------- MODULE RunLifecycle ----------------------------
(***************************************************************************)
(* What the platform promises its callers about one execution ("run"),     *)
(* whatever queue, lease, process or crash lies underneath: a run is       *)
(* accepted once, is given to an executor at most once, ends at most once, *)
(* and tells its webhook exactly once, with the status it ended in.        *)
(*                                                                         *)
(* Module RunQueue is shown to implement this specification.               *)
(***************************************************************************)
EXTENDS Naturals, Sequences

CONSTANT Runs

VARIABLES
    status,     \* the durable status of each run, "absent" before it exists
    wanted,     \* whether the caller asked for a callback
    begun,      \* how many executors were ever given the run
    outbox      \* the callbacks recorded for the run, oldest first

vars == <<status, wanted, begun, outbox>>

\* The final statuses: no worker may change the run's lifecycle again.
Terminal == {"succeeded", "failed", "cancelled"}

Active == {"queued", "running"}

Init ==
    /\ status = [r \in Runs |-> "absent"]
    /\ wanted \in [Runs -> BOOLEAN]
    /\ begun = [r \in Runs |-> 0]
    /\ outbox = [r \in Runs |-> << >>]

\* A caller's request is accepted, to be executed later.
Accept(r) ==
    /\ status[r] = "absent"
    /\ status' = [status EXCEPT ![r] = "queued"]
    /\ UNCHANGED <<wanted, begun, outbox>>

\* A run is marked running. Its executor gets it at the same instant, unless it
\* never learns that it did.
Begin(r) ==
    /\ status[r] \in {"absent", "queued"}
    /\ status' = [status EXCEPT ![r] = "running"]
    /\ begun' = [begun EXCEPT ![r] = @ + 1] \/ UNCHANGED begun
    /\ UNCHANGED <<wanted, outbox>>

\* The run ends and the callback is recorded in the same instant. Only a run
\* that was given to an executor can succeed.
End(r) ==
    /\ status[r] \in Active
    /\ \E final \in Terminal :
          /\ final = "succeeded" => begun[r] = 1
          /\ status' = [status EXCEPT ![r] = final]
          /\ outbox' = IF wanted[r]
                         THEN [outbox EXCEPT ![r] = Append(@, final)]
                         ELSE outbox
    /\ UNCHANGED <<wanted, begun>>

Next == \E r \in Runs : Accept(r) \/ Begin(r) \/ End(r)

Spec == Init /\ [][Next]_vars
=============================================================================
