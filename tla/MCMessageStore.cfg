SPECIFICATION Spec
CONSTANTS
    m1 = m1
    r1 = r1
    m2 = m2
    c1 = c1
    c2 = c2
    c3 = c3
    Ids = {m1, r1, m2}
    Chats = {c1, c2, c3}
    Times = {1, 2}
    chatOf <- MCchatOf
    timeOf <- MCtimeOf
    fromMe <- MCfromMe
    revokes <- MCrevokes
    Ignored = {c3}
    Handlers = {h1, h2, h3}
    Attempts = 2
    FailingDb = {h3}
    Null = Null
SYMMETRY Symmetry
INVARIANTS
    SavedUnlessDeleted
    ReceiptsCount
PROPERTIES
    ImplementsLedger
CHECK_DEADLOCK FALSE
