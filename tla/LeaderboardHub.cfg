SPECIFICATION FairSpec
CONSTANTS
    Clients = {c1, c2}
    Leavers = {c1}
    SendCap = 1
    MaxUpdates = 3
INVARIANTS
    ClosedOnce
    FrameNeverWaits
    GapMeansLeaving
PROPERTIES
    LeaversEnd
CHECK_DEADLOCK FALSE
