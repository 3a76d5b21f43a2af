SPECIFICATION StalledSpec
CONSTANTS
    c1 = c1
    p1 = p1
    p2 = p2
    d1 = d1
    m1 = m1
    Clients <- OneClient
    Places <- TwoPlaces
    Cancels <- OneCancel
    Malformed <- None
    SendCap = 1
    BroadcastCap = 1
    InputCap = 1
PROPERTIES
    RequestsAnswered
CHECK_DEADLOCK FALSE
