SPECIFICATION FairSpec
CONSTANTS
    Groups = {g1}
    Jids = {a}
    Timers = {Off}
    Off = Off
    Same = Same
    Handlers = {h1, h2}
    MaxVersion = 4
    Attempts = 2
    MembershipStable = FALSE
    NothingMissed = FALSE
    DbFails = TRUE
    Null = Null
INVARIANTS
    StoredIsSomeVersion
PROPERTIES
    HandlersEnd
CHECK_DEADLOCK FALSE
