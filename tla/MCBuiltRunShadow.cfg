SPECIFICATION SpecBuiltRun
CONSTANTS
    W32 = 4
    W64 = 8
    MaxNesting = 12
    MaxDepth = 4
    MaxSlots = 20
    MaxOut = 12
    Shown <- NoSources
    Programs <- ShadowPrograms
INVARIANT InitialisersReadOutward
CHECK_DEADLOCK FALSE
