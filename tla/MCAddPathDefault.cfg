SPECIFICATION Spec
CONSTANTS
    Columns = {"a", "b"}
    Rels = {"r", "t"}
    Settings <- DefaultSettings
    Shapes <- DistinctShapes
    Slacks = {0, 5}
    MaxPaths = 4
INVARIANT DefaultPicksLeastTotal
CHECK_DEADLOCK FALSE
