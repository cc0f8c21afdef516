SPECIFICATION Spec
CONSTANTS
    Functions <- AllFunctions
    Sigs <- NoCallees
INVARIANTS
    TypeOK
    OrderIsReversePostorder
    AvailableOnEveryPath
    ReportsExactlyUndefinedUses
PROPERTIES
    OnlyNarrows
    Terminates
    ImplementsDefinedness
CHECK_DEADLOCK FALSE
