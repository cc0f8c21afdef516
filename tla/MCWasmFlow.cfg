SPECIFICATION SpecFlow
CONSTANT Functions <- AllFunctions
INVARIANTS
    DominatorsExact
    RefusesExactlyIrreducible
    EmittedOnce
    BranchesEnclosed
PROPERTY WalksTheGraph
CHECK_DEADLOCK FALSE
