CONSTANTS
    MaxBatch = 2
    Unallocated = Unallocated
    Garbage = Garbage
    Threads = {t1, t2}
    Requests <- MCRequests
    PluginSets <- MCPluginSets
    PrefixEntries = 1
    CameraEntries = 1
    RefreshSteps = 2
    FullScore = 3
    DifficultyThreshold = 2
    Key <- MCKey
    MaxCalls = 3
    MaxFailures = 1
    None = None
SPECIFICATION Spec
SYMMETRY Symmetric
INVARIANTS
    AnswersAreOwn
    LightIsNear
    ReuseIsRecent
    PrefixSingleFlight
CHECK_DEADLOCK FALSE
