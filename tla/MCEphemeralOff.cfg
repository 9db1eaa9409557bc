SPECIFICATION Spec
CONSTANTS
    Expirations = {1, 2}
    Handlers = {h1, h2, h3}
    MaxTime = 3
    Serial = TRUE
    Null = Null
SYMMETRY Symmetry
PROPERTIES
    DeletesSpareNewer
CHECK_DEADLOCK FALSE
