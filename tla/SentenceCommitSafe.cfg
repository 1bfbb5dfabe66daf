CONSTANTS
    MaxWord = 3
    MaxSegment = 2
    MaxBirth = 2
    MaxDecode = 4
    Overlap = TRUE
    BigGrowth = 2
    StableHits = 2
    SmallHits = 2
    Lookahead = 1
    MinWords = 2
    Clauses = {2}
    Sensitive = {3}
SPECIFICATION Spec
INVARIANTS ConfirmedIsCurrent StableBoundariesOwnOnce StableBoundariesLoseNothing
PROPERTIES CommittedStays PublishedStays
CHECK_DEADLOCK FALSE
