CONSTANTS
    Listeners = {a, b}
    Clients = {c}
    Requests = {q, r}
    MaxJobs = 2
    QueueSize = 1
    MaxClientJobs = 1
    TotalJobs = 2
    MaxSwitches = 1
SYMMETRY Alike
SPECIFICATION Spec
INVARIANTS
    ClaimIsHonoured
    NoOrphan
    EveryListenerHears
    OncePerJob
PROPERTIES GoneStaysGone
CHECK_DEADLOCK FALSE
