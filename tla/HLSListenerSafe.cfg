CONSTANTS
    MaxSlots = 11
    MaxCues = 2
    MaxSession = 2
    MaxTroubles = 1
    SegLen = 2
    Bootstrap = 2
    Window = 2
    Lead = 0
    Voice = 1
    Trail = 1
    MinGap = 1
    Guard = 1
    Preroll = 1
SPECIFICATION Spec
INVARIANTS CuesMatchAudio SpeechIsHeard PauseIsKept
PROPERTIES StreamEnds
CHECK_DEADLOCK FALSE
