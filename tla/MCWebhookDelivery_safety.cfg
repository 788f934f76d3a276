\* Two callbacks, two dispatchers, one explicit retry.
CONSTANTS
    m1 = m1  m2 = m2  d1 = d1  d2 = d2  k1 = k1
    Deliveries = {m1, m2}
    Dispatchers = {d1, d2}
    Keys = {k1}
    KeyOf <- OneKey
    Replies = {"accepted", "gone", "refused"}
    MaxAttempts = 2
    BatchSize = 2
    MaxResets = 1
    MaxClaims = 3
    MaxFaults = 1
SYMMETRY Symmetric
SPECIFICATION Spec
INVARIANTS
    TypeOK
    GivenUpForAReason
PROPERTIES
    DeliveredIsFinal
CHECK_DEADLOCK FALSE
