CONSTANTS
    SpeechStart = 2
    SilenceGate = 2
    PreRoll = 2
    EndTail = 1
    Heartbeat = 3
    ChunkSize = 2
    MaxQueue = 4
    MaxBuffered = 0
    MaxFrames = 8
    MaxSessions = 2
    MaxEvents = 2
SPECIFICATION FairSpec
INVARIANTS
    SpeechArrives
    ClockFollows
PROPERTIES
    StopEnds
CHECK_DEADLOCK FALSE
