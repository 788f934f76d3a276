\* Retries with one key, and requests that create or continue the session of one session_key.
CONSTANTS
    q1 = q1  q2 = q2  q3 = q3  q4 = q4
    s0 = s0  k1 = k1  n1 = n1  a1 = a1  a2 = a2  b1 = b1  b2 = b2
    Requests = {q1, q2, q3, q4}
    Keys = {k1}
    Names = {n1}
    Agents = {a1, a2}
    Bodies = {b1, b2}
    Stored = {s0}
    Asked <- Forms
    AgentOfStored <- StoredByOne
    Deleter = Deleter
    None = None
    MaxFaults = 1
SPECIFICATION FairSpec
INVARIANTS
    TypeOK
    OneActiveRunPerSession
    DeletedSessionsAreIdle
    WaitsAreOrdered
PROPERTIES
    ImplementsAtomicStart
    OneRunPerKey
    EveryRequestAnswered
CHECK_DEADLOCK FALSE
