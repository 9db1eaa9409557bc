SPECIFICATION FairSpec
CONSTANTS
    Names = {n1, n2}
    Clients = {g1, g2}
    Calls = {c1, c2, c3}
    Null = Null
INVARIANTS
    TypeOK
    NoOrphanClient
    MapHoldsWholeClients
    StoppedStaysDown
    StartsItsOwnSession
    UnproxiedOnlyAfterError
PROPERTIES
    StoppedGainsNothing
    ImplementsRegistry
    StopReclaimsGoroutines
    StartIsTried
CHECK_DEADLOCK FALSE
