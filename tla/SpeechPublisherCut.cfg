CONSTANTS
    N = 2
    MaxRevision = 1
    MaxRevisionReset = 1
    Pieces <- MCPieces
    ChunkBytes <- MCChunkBytes
    MaxPrepared = 2
    MaxBytes = 2
    CacheSize = 2
    QueueSize = 2
    EncoderSlots = 1
    MaxGen = 0
    MaxResets = 0
    MaxEpochs = 1
    MaxFaults = 1
    MaxDisturbances = 1
SPECIFICATION Spec
INVARIANTS
    PlayerAccepts
CHECK_DEADLOCK FALSE
