SPECIFICATION SpecBuiltRun
CONSTANTS
    W32 = 4
    W64 = 8
    MaxNesting = 12
    MaxDepth = 4
    MaxSlots = 20
    MaxOut = 12
    Shown <- ShownSources
    Programs <- AllPrograms
INVARIANTS
    ReadsAsSpelled
    CodeInShape
    ControlNeverArrives
    RefusesForAReason
    BuiltPassesVerify
    ShadowsGetSlots
    RunsAsWritten
PROPERTY EveryRunEnds
CHECK_DEADLOCK FALSE
