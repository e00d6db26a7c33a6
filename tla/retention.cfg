SPECIFICATION PartSpec
CONSTANTS
    MaxData = 2
    MaxJobs = 2
    Owner = {o1}
    NoOwner = NoOwner
    NoData = NoData
    NoJob = NoJob
    BatchSize = 2
    KeepPerOwner = 1
    RankLimit = 2
    Ceiling = 2
    Target = 2
    MaxInFlight = 1
    MaxLate = 1
    MaxRestarts = 1
    Parts = {{"datasets"}, {"owners", "late"}, {"owners", "restarts"}}
INVARIANTS TypeOK FirstRunKeepsItsData
PROPERTIES CeilingStopsAtTarget
CHECK_DEADLOCK FALSE
