SPECIFICATION Spec
CONSTANTS
  Calls <- MCCalls
  Grams <- MCGrams
  Folded <- MCFolded
INVARIANTS TypeOK Accounted Stable MovesComplete MovesMinimal DeltaFaithful
PROPERTY MatchSpec
CHECK_DEADLOCK FALSE
