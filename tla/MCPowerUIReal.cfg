SPECIFICATION Spec
CONSTANTS
    Query <- TwoQueries
    MaxSamples = 3
    MaxClicks = 3
INVARIANT
    RealPowerIsOwn
CHECK_DEADLOCK FALSE
