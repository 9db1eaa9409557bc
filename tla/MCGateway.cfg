SPECIFICATION FairSpec
CONSTANTS
    Names = {n1, n2}
    Clients = {g1, g2}
    Calls = {c1, c2}
    Streams = {s1}
    Events = {e1}
    Codes = {}
    LinkedDevices = TRUE
    ChanCapacity = 1
    ListenerCapacity = 2
    Null = Null
INVARIANTS
    OwnSessionOnly
    OnePumpKeepsOrder
PROPERTIES
    NothingIsStuck
CHECK_DEADLOCK FALSE
