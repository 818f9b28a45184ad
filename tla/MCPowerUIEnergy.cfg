SPECIFICATION Spec
CONSTANTS
    Query <- TwoQueries
    MaxSamples = 3
    MaxClicks = 3
INVARIANT
    EnergyIsOfQuery
CHECK_DEADLOCK FALSE
