SPECIFICATION Spec
CONSTANTS
    c1 = c1
    p1 = p1
    p2 = p2
    d1 = d1
    m1 = m1
    Clients <- OneClient
    Places <- TwoPlaces
    Cancels <- OneCancel
    Malformed <- OneMalformed
    SendCap = 1
    BroadcastCap = 1
    InputCap = 2
INVARIANTS
    ReplyOnce
    StaleIsMarked
    TapePublished
    CleanStopDrains
CHECK_DEADLOCK FALSE
SYMMETRY PlaceSymmetry
