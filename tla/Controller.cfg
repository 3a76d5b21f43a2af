SPECIFICATION FairSpec
CONSTANTS
    r1 = r1
    r2 = r2
    s1 = s1
    NoRun = NoRun
    Runs <- TwoRuns
    SubmissionOf <- SameSubmission
    WithoutSpec <- SecondRun
    Deletable <- OneRun
    Duration = 4
    MonitorPeriod = 2
    TicksPerSecond = 2
    HasStatusSubresource = TRUE
    MaxFaults = 1
INVARIANTS
    LegalHistory
    RunningOwnsPod
    SucceededIsClean
    NotCutShort
    PodIsolated
PROPERTIES
    RunsComplete
