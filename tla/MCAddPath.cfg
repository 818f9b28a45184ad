SPECIFICATION Spec
CONSTANTS
    Columns = {"a", "b"}
    Rels = {"r", "t"}
    Settings <- MixedSettings
    Shapes <- MixedShapes
    Slacks = {0, 5}
    MaxPaths = 4
INVARIANTS
    TypeOK
    Coverage
    PartialCoverage
    Sorted
    NoDangling
    CheapestIsBest
CHECK_DEADLOCK FALSE
