SPECIFICATION Spec
CONSTANTS
    Proc = {"worker"}
    Options <- FinalOption
    MaxRetry = 3
    MaxRuns = 1
    MaxLine = 2
    MaxInbox = 3
INVARIANT
    FinalIsStamp
CHECK_DEADLOCK FALSE
