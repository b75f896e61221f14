\* One item under the default policy, which waits for a limit to be lifted.
CONSTANTS
    N = 1
    Deps <- MCNoDeps
    External = {}
    Priorities <- MCOne
    Lowest = 2
    InitStatuses = {"approved"}
    Policy = "wait"
    MaxSwitches = 2
    MaxDeaths = 0
SPECIFICATION Spec
INVARIANT PhasesSucceeded
CHECK_DEADLOCK FALSE
