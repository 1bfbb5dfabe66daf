CONSTANTS
    N = 2
    MaxRevision = 2
    MaxRevisionReset = 1
    Pieces <- MCPieces
    ChunkBytes <- MCChunkBytes
    MaxPrepared = 2
    MaxBytes = 2
    CacheSize = 2
    QueueSize = 2
    EncoderSlots = 1
    MaxGen = 1
    MaxResets = 1
    MaxEpochs = 2
    MaxFaults = 1
    MaxDisturbances = 1
SPECIFICATION FairSpec
INVARIANTS
    PlayerAcceptsUnbroken
    LabelsMatchAudio
    SharedIsReleased
    HeadIsHeldInOrder
    PreparedWithinBudget
PROPERTIES
    OfferedHeadResolves
CHECK_DEADLOCK FALSE
