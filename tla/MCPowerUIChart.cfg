SPECIFICATION Spec
CONSTANTS
    Query <- TwoQueries
    MaxSamples = 3
    MaxClicks = 3
INVARIANT
    ChartSurvives
CHECK_DEADLOCK FALSE
