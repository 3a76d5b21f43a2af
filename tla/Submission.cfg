SPECIFICATION Spec
CONSTANTS
    Clients = {c1, c2}
    Ids = {s1}
    NoId = NoId
INVARIANTS
    SettledIsWhole
PROPERTIES
    PollsNeverGoBack
CHECK_DEADLOCK FALSE
