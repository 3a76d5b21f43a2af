SPECIFICATION FairSpec
CONSTANTS
    Bots = {b1, b2, b3}
    TotalTPS = 1
    Backlog = 1
    MaxRequests = 4
INVARIANTS
    NoSendOnClosed
    ReportComplete
    SuccessesPlaced
PROPERTIES
    RunEnds
CHECK_DEADLOCK FALSE
