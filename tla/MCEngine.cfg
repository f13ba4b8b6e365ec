CONSTANTS
    Threads = {t1, t2}
    Requests = {r1, r2}
    Cancellable = {r1}
    Deadlined = {r1}
    ObservationProcessors = 1
    ActionProcessors = 1
    Latencies = {1, 2}
    MaxResets = 1
    None = None
SPECIFICATION Spec
INVARIANTS
    LateNeverReachesBackend
    ResetLeavesNothingDirty
    EveryCallCounted
    MaximumLatencyKept
PROPERTY EveryCallReturns
CHECK_DEADLOCK FALSE
