\* A receiver that answers with a status outside 100..599.
CONSTANTS
    m1 = m1  m2 = m2  d1 = d1  d2 = d2  k1 = k1
    Deliveries = {m1}
    Dispatchers = {d1}
    Keys = {k1}
    KeyOf <- OneKey
    Replies = {"refused", "odd"}
    MaxAttempts = 2
    BatchSize = 1
    MaxResets = 0
    MaxClaims = 4
    MaxFaults = 0
SPECIFICATION Spec
INVARIANTS
    AttemptsCapped
CHECK_DEADLOCK FALSE
