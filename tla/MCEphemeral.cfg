SPECIFICATION Spec
CONSTANTS
    Expirations = {1, 2}
    Handlers = {h1, h2, h3, h4}
    MaxTime = 2
    Serial = TRUE
    Null = Null
SYMMETRY Symmetry
INVARIANTS
    InOrderIsTruth
PROPERTIES
    DeleteChatSparesNewer
CHECK_DEADLOCK FALSE
