CONSTANTS
    Sentences = {s1, s2}
    MaxRevision = 2
    QueueSize = 1
    Parallel = 2
    MaxClears = 1
SPECIFICATION FairSpec
INVARIANTS
    ReadyIsCurrent
PROPERTIES
    WaitingEnds
CHECK_DEADLOCK FALSE
