\* One run of any mode, three goroutines in two processes.
CONSTANTS
    r1 = r1  r2 = r2
    e1 = e1  e2 = e2  e3 = e3
    w1 = w1  w2 = w2
    Runs = {r1}
    Executors = {e1, e2, e3}
    Workers = {w1, w2}
    WorkerOf <- OneShared
    None = None
    MaxFaults = 2
SPECIFICATION Spec
INVARIANTS
    TypeOK
    ExecutedAtMostOnce
    NoLostRun
    OneCallbackPerEnd
PROPERTIES
    EndedRunsStay
    ImplementsLifecycle
CHECK_DEADLOCK FALSE
