CONSTANTS
    Requests = {r1, r2, r3}
    Deadlined = {r1, r2, r3}
    Cancelled = {r1, r2, r3}
    Closers = {c}
    MaxBatchSize = 2
    MaxQueueSize = 2
    Sentinel = Sentinel
    Odd = {r1}
    Stages = 2
    MaxInFlight = 1
    None = None
SPECIFICATION Spec
SYMMETRY Symmetric
INVARIANTS
    WaitersAreHeld
    SchedulerStatsAgree
    InFlightAgrees
 
CHECK_DEADLOCK FALSE
