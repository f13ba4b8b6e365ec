CONSTANTS
    MaxCalls = 6
    None = None
    NaN = NaN
    Contracts <- MCContracts
    Horizon = 3
    ExecHorizons = {1, 2, 4}
    EpisodeSteps = 3
    MaxSteps = {None, 2}
    MaxEpisodes = 3
    MaxInfers = 4
SPECIFICATION RemoteSpec
INVARIANTS
    NoStaleAction
    ActionsAreCurrent
    RobotFollowsModel
    StopsInTime
    OwnAnswer
CHECK_DEADLOCK FALSE
