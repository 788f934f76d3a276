\* Up to eleven iterations, seven calls, two of them in one answer.
CONSTANTS
    search = search  c1 = c1  c2 = c2  c3 = c3  r1 = r1  r2 = r2
    Tools = {search}
    Calls = {c1, c2, c3}
    ToolOf <- OneTool
    Results = {r1, r2}
    Limits = {1, 4, 11}
    MaxBatch = 2
    MaxToolCalls = 7
    MaxToolRetries = 2
    MaxEmptyRetries = 2
    Threshold = 3
    WarnSame = 4
    StopSame = 6
SYMMETRY Alike
SPECIFICATION Spec
INVARIANTS
    TypeOK
    LimitsHold
    LastIterationDecides
    AskedInformed
    WastedIsBounded
PROPERTIES
    NoToolsOnceForced
    EveryStepCounts
CHECK_DEADLOCK FALSE
