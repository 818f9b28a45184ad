SPECIFICATION Spec
CONSTANTS
    Proc = {"worker"}
    Options <- MixedOptions
    MaxRetry = 2
    MaxRuns = 1
    MaxLine = 1
    MaxInbox = 2
PROPERTIES
    CountedRunEnds
    SilentMeterEnds
CHECK_DEADLOCK FALSE
