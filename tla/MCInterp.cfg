SPECIFICATION Spec
CONSTANTS
    W32 = 4
    W64 = 8
    MaxDepth = 4
    MaxSlots = 6
    MaxOut = 2
    Modules <- AllModules
INVARIANTS
    AcceptedRunsAreDefined
    SlotsOwnedOnce
    NoDanglingAccess
PROPERTIES
    AcyclicRunsEnd
CHECK_DEADLOCK FALSE
