SPECIFICATION Spec
CONSTANTS
    W32 = 8
    W64 = 16
    MaxDepth = 8
    MaxSlots = 16
    MaxOut = 6
    MemoryBytes = 48
    StepLimit = 300
    CallDepthLimit = 5
    EngineDepth = 6
    Modules <- AllModules
INVARIANT AgreesOnBools
CHECK_DEADLOCK FALSE
