CONSTANTS
    Threads = {w, t}
    Requests = {r1, r2}
    Cancellable = {r1}
    Deadlined = {}
    ObservationProcessors = 1
    ActionProcessors = 0
    Latencies = {0}
    None = None
    Worker = w
    Closers = {c}
    QueueCapacity = 1
    OverflowPolicies = {"keep_latest", "reject_newest"}
    MaxResets = 1
SPECIFICATION Spec
PROPERTY ImplementsLedger
CHECK_DEADLOCK FALSE
