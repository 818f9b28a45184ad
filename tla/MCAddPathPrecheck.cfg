SPECIFICATION Spec
CONSTANTS
    Columns = {"a", "b"}
    Rels = {"r", "t"}
    Settings <- EnergySettings
    Shapes <- JoinShapes
    Slacks = {0, 5}
    MaxPaths = 4
INVARIANT PrecheckMatches
CHECK_DEADLOCK FALSE
