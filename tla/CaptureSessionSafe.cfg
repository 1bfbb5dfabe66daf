CONSTANTS
    QueueSize = 2
    HardCap = 3
    BatchSize = 3
    PreRollSize = 1
    Overlap = 1
    MaxArrivals = 4
    MaxEvents = 2
SPECIFICATION FairSpec
INVARIANTS
    AudioInOrder
    FinalIsComplete
PROPERTIES FinishIsAnswered
CHECK_DEADLOCK FALSE
