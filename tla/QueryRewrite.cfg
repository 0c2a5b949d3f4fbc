SPECIFICATION Spec
CONSTANTS
    MaxQueries = 5
    MaxItems = 4
    Base = {a, b}
SYMMETRY Symmetry
INVARIANTS
    LiftKeepsMeaning
    DropKeepsMeaning
    NoneUnused
CHECK_DEADLOCK FALSE
