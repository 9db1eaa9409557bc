SPECIFICATION Spec
CONSTANTS
    Groups = {g1, g2}
    Jids = {a}
    Timers = {Off, day}
    Off = Off
    Same = Same
    Handlers = {h1, h2, h3}
    MaxVersion = 3
    Attempts = 2
    MembershipStable = TRUE
    NothingMissed = TRUE
    DbFails = FALSE
    Null = Null
SYMMETRY Symmetry
INVARIANTS
    TypeOK
    NeverRollsBack
    SettingMirrorsRow
    ListIsWhole
    QuietMeansCurrent
CHECK_DEADLOCK FALSE
