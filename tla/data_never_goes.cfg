SPECIFICATION FairPartSpec
CONSTANTS
    MaxData = 2
    MaxJobs = 2
    Owner = {}
    NoOwner = NoOwner
    NoData = NoData
    NoJob = NoJob
    BatchSize = 1
    KeepPerOwner = 1
    RankLimit = 2
    Ceiling = 0
    Target = 0
    MaxInFlight = 1
    MaxLate = 1
    MaxRestarts = 1
    Parts = {{"datasets", "restarts"}}
PROPERTIES FinishedDataGoes
CHECK_DEADLOCK FALSE
