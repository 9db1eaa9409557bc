SPECIFICATION PartsSpec
CONSTANTS
    LabelIds = {l1, l2}
    Names = {x, y}
    Chats = {c, broadcast}
    Ignored = {broadcast}
    Handlers = {h1, h2, h3}
    FailingDb = {h3}
    Attempts = 2
    Null = Null
    Jids = {u, v, w}
    Timers = {day}
    Same = Same
    Ids = {1, 2, 3}
    ListChats = {1, 2, 3}
    Saves <- SomeMessages
    Users = {1, 2, 3}
    userPart <- SomeUserParts
    ContactNames = {1, 2, 3}
    Filter <- SomeFilter
    Limits = {1, 2}
    Bits = 4
    Dialect = "sqlite3"
    Failed = Failed
    Panicked = Panicked
SYMMETRY Symmetry
INVARIANTS
    QuietMirrorsPhones
    AnswersAreLabels
    WalkMissesNothing
    ChatListIsRight
    PaginationsAgree
PROPERTIES
    MeansSets
    KeepsOrder
CHECK_DEADLOCK FALSE
