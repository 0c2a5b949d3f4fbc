SPECIFICATION CSpec
CONSTANTS
  n1 = n1
  n2 = n2
  n3 = n3
  n4 = n4
  n5 = n5
  n6 = n6
  Node <- MCNode
  Nil = Nil
  Text <- MCText
  Fold <- MCFold
  MaxLen = 2
  Owned = TRUE
  MaxJournal = 2
SYMMETRY SourceSymmetry
INVARIANTS LinksExact EqualsIsStructural RevertRestores
PROPERTIES PopTakesItself CopyFaithful
CHECK_DEADLOCK FALSE
