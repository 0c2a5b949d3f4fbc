SPECIFICATION Spec
CONSTANTS
    MaxQueries = 4
    MaxItems = 4
    Base = {a, b}
SYMMETRY Symmetry
INVARIANT DagOrder
CHECK_DEADLOCK FALSE
