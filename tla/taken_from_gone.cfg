SPECIFICATION Spec
CONSTANTS
    Node = {n1}
    Askers = {}
    NoNode = NoNode
    NoTask = NoTask
    Presences = {"open", "gone"}
    MaxTasks = 1
    MaxAttempts = 2
    AttemptCap = 2
    MaxInFlight = 2
    StaleBatch = 2
    OrphanBatch = 2
PROPERTIES TakenOnlyFromTheGone
CHECK_DEADLOCK FALSE
