SPECIFICATION FairSpec
CONSTANTS
    a = a
    b = b
    Nothing = Nothing
    Consumer = consumer
    consumer = consumer
    post = post
    Callers = {consumer, post}
    Posts = {post}
    Results <- SomeResults
    Limit = 2
    Partitions = {p1, p2}
    NumEvents = 3
    Telemetry <- SomeTelemetry
    PostOf <- DebugPost
    MaxFaults = 1
INVARIANTS
    StoresAgree
    ListedInOrder
    HandledOnce
    LossesAreFaults
PROPERTIES
    ConsumerCatchesUp
CHECK_DEADLOCK FALSE
