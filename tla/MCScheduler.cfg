CONSTANTS
    Threads = {w}
    Requests = {r1, r2, r3, r4}
    Cancellable = {}
    Deadlined = {}
    ObservationProcessors = 1
    ActionProcessors = 0
    Latencies = {0}
    None = None
    Worker = w
    Closers = {c1, c2}
    QueueCapacity = 2
    OverflowPolicies = {"keep_latest", "reject_newest"}
    MaxResets = 0
SPECIFICATION Spec
SYMMETRY Symmetric
INVARIANTS
    PendingIsOwned
    NewestWins
    ShutdownIsFinal
CHECK_DEADLOCK FALSE
