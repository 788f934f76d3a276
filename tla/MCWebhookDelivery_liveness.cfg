\* Liveness: batches that are dropped half way, receivers that never accept.
CONSTANTS
    m1 = m1  m2 = m2  d1 = d1  d2 = d2  k1 = k1
    Deliveries = {m1, m2}
    Dispatchers = {d1, d2}
    Keys = {k1}
    KeyOf <- OneKey
    Replies = {"refused"}
    MaxAttempts = 2
    BatchSize = 2
    MaxResets = 0
    MaxClaims = 8
    MaxFaults = 1
SPECIFICATION FairSpec
PROPERTIES
    CallbacksSettle
CHECK_DEADLOCK FALSE
