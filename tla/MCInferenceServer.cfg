CONSTANTS
    Requests = {r1, r2}
    Deadlined = {r1, r2}
    Cancelled = {}
    Closers = {}
    MaxBatchSize = 2
    MaxQueueSize = 1
    Sentinel = Sentinel
    Handlers = {h1, h2}
    Schedulers = {TRUE, FALSE}
    SupportsConcurrentInfer = FALSE
    SharedBackend = TRUE
    ResultTimeoutCode = "deadline_exceeded"
    MaxResets = 1
    None = None
SPECIFICATION Spec
INVARIANTS
    LateNeverExecuted
    
    BackendExclusive
PROPERTIES
    RequestsAnswered
    SchedulerAnswers
CHECK_DEADLOCK FALSE
