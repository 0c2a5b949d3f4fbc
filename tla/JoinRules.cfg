SPECIFICATION Spec
CONSTANTS
    Cols <- MCCols
    Families <- MCFamilies
    Databases <- MCDatabases
INVARIANTS
    PushdownKeepsRows
    OptimizeKeepsRows
    EliminateKeepsRows
CHECK_DEADLOCK FALSE
