\* Liveness: two runs compete for two goroutines in two processes.
CONSTANTS
    r1 = r1  r2 = r2
    e1 = e1  e2 = e2  e3 = e3
    w1 = w1  w2 = w2
    Runs = {r1, r2}
    Executors = {e1, e2}
    Workers = {w1, w2}
    WorkerOf <- OneEach
    None = None
    MaxFaults = 1
SPECIFICATION FairJobsSpec
PROPERTIES
    AcceptedRunsEnd
    CancelledInQueueNeverExecutes
CHECK_DEADLOCK FALSE
