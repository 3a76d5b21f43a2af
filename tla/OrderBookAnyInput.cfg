SPECIFICATION Spec
CONSTANTS
    a = a
    b = b
    c = c
    d = d
    NoId = NoId
    MaxOrders = 4
    Modulus = 4
    Ids <- TwoIds
    Requests <- AnyRequests
    FreshIds = FALSE
SYMMETRY TwoIdSymmetry
INVARIANTS
    FifoLinks
    BookUncrossed
    VolumeExact
    IndexSound
    LimitRespected
CHECK_DEADLOCK FALSE
