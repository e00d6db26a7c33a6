SPECIFICATION Spec
CONSTANTS
    Node = {n1}
    Askers = {}
    NoNode = NoNode
    NoTask = NoTask
    Presences = {"open", "closed"}
    MaxTasks = 2
    MaxAttempts = 2
    AttemptCap = 2
    MaxInFlight = 1
    StaleBatch = 2
    OrphanBatch = 2
INVARIANTS CancelledOnlyIfAsked
CHECK_DEADLOCK FALSE
