SPECIFICATION FairSpec
CONSTANTS
    r1 = r1
    r2 = r2
    s1 = s1
    NoRun = NoRun
    Runs <- OneRun
    SubmissionOf <- SameSubmission
    WithoutSpec <- NoRuns
    Deletable <- NoRuns
    Duration = 4
    MonitorPeriod = 2
    TicksPerSecond = 2
    HasStatusSubresource = FALSE
    MaxFaults = 0
PROPERTIES
    RunsComplete
