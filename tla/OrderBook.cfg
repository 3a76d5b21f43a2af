SPECIFICATION Spec
CONSTANTS
    a = a
    b = b
    c = c
    d = d
    NoId = NoId
    MaxOrders = 4
    Modulus = 16
    Ids <- FourIds
    Requests <- ClientRequests
    FreshIds = TRUE
SYMMETRY IdSymmetry
INVARIANTS
    IndexComplete
    DepthExact
PROPERTIES
    ProcessReturns
    ImplementsPriceTime
CHECK_DEADLOCK FALSE
