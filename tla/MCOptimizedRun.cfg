SPECIFICATION Spec
CONSTANTS
    W32 = 4
    W64 = 8
    MaxDepth = 3
    MaxSlots = 1
    MaxOut = 4
    MaxRounds = 3
    Modules <- AllModules
INVARIANT PreservesRuns
PROPERTY StillReturns
CHECK_DEADLOCK FALSE
