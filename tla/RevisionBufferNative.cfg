CONSTANTS
    Sentences = {s1, s2}
    MaxRevision = 2
    MaxClock = 1
    MaxEvidenceAge = 0
    Stable = 1
    Grace = 0
    Urgent = 0
    HoldLatest = TRUE
    DeferCommit = TRUE
    RequireConfirmation = TRUE
SPECIFICATION FairSpec
INVARIANTS
    TypeOK
    GuardImpliesCommit
    OfferedHeadIsHeld
    PassedIsSettled
PROPERTIES
    ReleasedIsFinal
    NoUnconfirmedSpeech
    ImplementsSpeechStream
    SealedHeadLeaves
