SPECIFICATION MCSpec
CONSTANTS
    c1 = c1
    c2 = c2
    Clients <- TwoClients
    SendCap = 2
    BroadcastCap = 2
    MaxMessages = 4
INVARIANTS
    NoPanic
    NoGaps
CHECK_DEADLOCK FALSE
