SPECIFICATION Spec
CONSTANTS
    Names = {n1}
    Clients = {g1}
    Calls = {c1, c2, c3}
    Streams = {s1}
    Events = {}
    Codes = {1, 2}
    LinkedDevices = FALSE
    ChanCapacity = 1
    ListenerCapacity = 2
    Null = Null
SYMMETRY Symmetry
INVARIANTS
    CodesArriveInOrder
CHECK_DEADLOCK FALSE
