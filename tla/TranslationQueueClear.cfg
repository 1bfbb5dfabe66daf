CONSTANTS
    Sentences = {s1, s2}
    MaxRevision = 2
    QueueSize = 1
    Parallel = 2
    MaxClears = 1
SPECIFICATION Spec
INVARIANTS
    WaitingIsOnItsWay
CHECK_DEADLOCK FALSE
