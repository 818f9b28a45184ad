SPECIFICATION Spec
CONSTANTS
    Query <- TwoQueries
    MaxSamples = 3
    MaxClicks = 3
INVARIANTS
    TypeOK
    InsideCounted
    NothingAfter
    DivisorCovers
CHECK_DEADLOCK FALSE
