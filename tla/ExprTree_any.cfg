SPECIFICATION SpecBounded
CONSTANTS
  Node = {n1, n2, n3}
  Nil = Nil
  Text = {"a"}
  Fold <- MCFold
  MaxLen = 1
  Owned = FALSE
SYMMETRY NodeSymmetry
INVARIANTS TypeOK HashCoherent FillOrder HashAnswers

CHECK_DEADLOCK FALSE
