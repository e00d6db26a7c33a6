SPECIFICATION PartSpec
CONSTANTS
    MaxData = 1
    MaxJobs = 2
    Owner = {o1}
    NoOwner = NoOwner
    NoData = NoData
    NoJob = NoJob
    BatchSize = 2
    KeepPerOwner = 1
    RankLimit = 2
    Ceiling = 0
    Target = 0
    MaxInFlight = 1
    MaxLate = 1
    MaxRestarts = 0
    Parts = {{"owners"}}
INVARIANTS UnfinishedKeepsItsData
CHECK_DEADLOCK FALSE
