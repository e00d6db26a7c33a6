SPECIFICATION Spec
CONSTANTS
    Node = {n1, n2}
    Askers = {n1}
    NoNode = NoNode
    NoTask = NoTask
    Presences = {"open", "gone"}
    MaxTasks = 1
    MaxAttempts = 2
    AttemptCap = 2
    MaxInFlight = 1
    StaleBatch = 2
    OrphanBatch = 2
INVARIANTS TypeOK JobsKnown OneHolderPerAttempt StopRequestKept
PROPERTIES ChosenMachineKept
CHECK_DEADLOCK FALSE
