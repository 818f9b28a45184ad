SPECIFICATION Spec
CONSTANTS
    Proc = {"worker"}
    Options <- UserOption
    MaxRetry = 3
    MaxRuns = 1
    MaxLine = 2
    MaxInbox = 3
INVARIANT
    ParametersAreSet
CHECK_DEADLOCK FALSE
