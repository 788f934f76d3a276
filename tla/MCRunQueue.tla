----------------------------- MODULE MCRunQueue -----------------------------
(* Small instances of RunQueue for TLC. *)
EXTENDS RunQueue, TLC

CONSTANTS r1, r2, e1, e2, e3, w1, w2

\* Two goroutines in one process, which therefore share a worker identity, and
\* one in another process.
OneShared == e1 :> w1 @@ e2 :> w1 @@ e3 :> w2

\* One goroutine in each of two processes.
OneEach == e1 :> w1 @@ e2 :> w2

\* The requests of the liveness run: jobs only, and none with a callback. The
\* requests left out never hold a job and the callback guards no action.
InitJobs == Init /\ \A r \in Runs : mode[r] = "async" /\ ~wanted[r]

FairJobsSpec == InitJobs /\ [][Next]_vars /\ Fairness
=============================================================================
