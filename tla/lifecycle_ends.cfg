SPECIFICATION UncancelledFairSpec
CONSTANTS
    Node = {n1, n2}
    Askers = {}
    NoNode = NoNode
    NoTask = NoTask
    Presences = {"open", "gone"}
    MaxTasks = 1
    MaxAttempts = 2
    AttemptCap = 4
    MaxInFlight = 1
    StaleBatch = 2
    OrphanBatch = 2
PROPERTIES IsAJobBoard StrandedIsResolved EveryJobEnds
CHECK_DEADLOCK FALSE
