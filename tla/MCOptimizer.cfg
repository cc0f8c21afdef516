SPECIFICATION Spec
CONSTANTS
    W32 = 4
    W64 = 8
    MaxRounds = 3
    Functions <- AllFunctions
INVARIANTS
    AliasChainsEnd
    NothingLeft
PROPERTIES
    StaysWellDefined
    EveryChangeShrinks
    Terminates
CHECK_DEADLOCK FALSE
