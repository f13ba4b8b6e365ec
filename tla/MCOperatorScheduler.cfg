CONSTANTS
    Nodes <- MCNodes
    Dependencies <- MCDependencies
    Device <- MCDevice
    Priority <- MCPriority
    Lanes = {"cpu", "gpu"}
    Limits <- MCLimits
    Workers = {w1, w2, w3}
    None = None
SPECIFICATION Spec
INVARIANTS
    DependenciesFirst
    LaneLimits

    
    
CHECK_DEADLOCK FALSE
