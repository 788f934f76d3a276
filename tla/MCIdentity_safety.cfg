\* Two people, three refresh tokens, two requests at a time.
CONSTANTS
    u1 = u1  u2 = u2  t1 = t1  t2 = t2  t3 = t3  r1 = r1  r2 = r2
    Users = {u1, u2}
    Tokens = {t1, t2, t3}
    Requests = {r1, r2}
    MaxPasswords = 2
    Given = {"owner", "admin"}
    None = None
SYMMETRY AnyOrder
SPECIFICATION Spec
INVARIANTS
    FamiliesAreChains
    DisabledUsersHaveNoSession
    SessionsKnowThePassword
    AnOwnerRemains
PROPERTIES
    ImplementsAccounts
    AdminsChangeOnlyMembers
CHECK_DEADLOCK FALSE
