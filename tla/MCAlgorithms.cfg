CONSTANTS
    None = None
    NoAction = NoAction
    NaN = NaN
    Infinity = 20
    \* the action buffer
    MaxU64 = 3
    ActionDim = 1
    MaximumBufferedSteps = 2
    Chunks <- MCChunks
    \* the operator graph
    Graphs <- MCGraphs
    \* streams of up to five tokens; ratios in percent
    MaxTokens = 5
    Ratios = {0, 10, 25, 50, 80}
    \* plans that are good for two ticks of the clock
    Instructions = {"pick", "place"}
    Interval = 2
    MaxTime = 5
    TokenLimit = 2
    NumSteps = 2
    MaxResets = 1
    MaxPlans = 3
    \* the limits of the wire format
    MAX_INSTRUCTION_BYTES = 3
    MAX_TIMEOUT_MS = 2
    MAX_IMAGES = 2
    MAX_TENSOR_RANK = 3
SPECIFICATION AlgorithmsSpec
INVARIANTS
    NewestWins
    NothingRequestedReturns
    ValidatesExactly
    PlanIsCurrent
    RoundTripIsClose
    
    CommandsAreSafe
PROPERTIES
    EvictsFurthest
    CompressReturns
CHECK_DEADLOCK FALSE
