CONSTANTS
    N = 3
    Deps <- MCDeps
    External = {3}
    Priorities <- MCPriorities
    Lowest = 2
    InitStatuses = {"approved", "candidate"}
    Policy = "switch"
    MaxSwitches = 1
    MaxDeaths = 2
SPECIFICATION FairSpec
INVARIANTS RoadmapTypeOK DispatchesAccounted CompletedWhole
PROPERTIES ImplementsItemLedger RunEnds
CHECK_DEADLOCK FALSE
