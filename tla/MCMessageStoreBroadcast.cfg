SPECIFICATION Spec
CONSTANTS
    m1 = m1
    r1 = r1
    m2 = m2
    c1 = c1
    c2 = c2
    c3 = c3
    Ids = {m1, r1, m2}
    Chats = {c1, c2}
    Times = {1, 2}
    chatOf <- MCchatOf
    timeOf <- MCtimeOf
    fromMe <- MCfromMe
    revokes <- MCrevokes
    Ignored = {}
    Handlers = {h1, h2}
    Attempts = 2
    FailingDb = {}
    Null = Null
SYMMETRY Symmetry
PROPERTIES
    BroadcastReceiptsIgnored
CHECK_DEADLOCK FALSE
