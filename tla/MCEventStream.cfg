SPECIFICATION FairSpec
CONSTANTS
    Names = {n1, n2}
    Streams = {s1, s2}
    Senders = {p1, p2}
    Items = {x1, x2}
    Unmarshalable = {x2}
    Capacity = 1
    Null = Null
INVARIANTS
    RegisteredIffOpen
    OwnEventsOnce
    NobodySkipped
PROPERTIES
    SenderReturns
CHECK_DEADLOCK FALSE
