SPECIFICATION FairPartSpec
CONSTANTS
    MaxData = 1
    MaxJobs = 2
    Owner = {o1}
    NoOwner = NoOwner
    NoData = NoData
    NoJob = NoJob
    BatchSize = 2
    KeepPerOwner = 1
    RankLimit = 2
    Ceiling = 0
    Target = 0
    MaxInFlight = 1
    MaxLate = 1
    MaxRestarts = 1
    Parts = {{"owners", "late"}, {"owners", "restarts"}}
PROPERTIES UnusedDataGoes FinishedDataGoes
CHECK_DEADLOCK FALSE
