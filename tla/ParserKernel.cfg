SPECIFICATION Spec
CONSTANTS
    Calls <- MCCalls
    MaxTries = 2
    MaxDepth = 7
    Longest = 4
    Longer = 4
INVARIANTS
    TypeOK
    SpeculationContained
    ErrorsSurface
    LossesKnown
    OnePerStatement
PROPERTIES
    SpeculationSilent
    Terminates
CHECK_DEADLOCK FALSE
