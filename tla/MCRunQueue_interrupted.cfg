\* An asynchronous run that loses its lease, or its process to a graceful stop.
CONSTANTS
    r1 = r1  r2 = r2
    e1 = e1  e2 = e2  e3 = e3
    w1 = w1  w2 = w2
    Runs = {r1}
    Executors = {e1, e2}
    Workers = {w1, w2}
    WorkerOf <- OneEach
    None = None
    MaxFaults = 3
SPECIFICATION Spec
INVARIANT AsyncCancelledOnRequest
CHECK_DEADLOCK FALSE
