SPECIFICATION Spec
CONSTANTS
  Columns = {1, 2, 3, 4, 5}
  Numerics = {4, 5}
  Booleans = {1, 2}
  NonNull = {2}
  Inputs <- NegatedChains
CHECK_DEADLOCK FALSE
INVARIANTS Grouped
