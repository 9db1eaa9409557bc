SPECIFICATION FairSpec
CONSTANTS
    u1 = u1
    u2 = u2
    own = own
    lid = lid
    a = a
    b = b
    Calls = {a, b}
    Kinds <- MCKinds
    Places = {"chat", "status", "newsletter"}
    ClientIds = {i1}
    FreshIds = {f1, f2}
    Audience <- MCAudience
    Lists <- MCLists
    Users = {u1, u2, own}
    BatchSize = 2
    Null = Null
INVARIANTS
    WitnessesAgree
    EveryUserTriedOnce
PROPERTIES
    EveryCallAnswered
CHECK_DEADLOCK FALSE
