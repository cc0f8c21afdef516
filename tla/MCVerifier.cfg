SPECIFICATION Spec
CONSTANT Functions <- AllFunctions
INVARIANTS
    AcceptedGraphIsSound
    NoFalseAlarmInPathOrder
CHECK_DEADLOCK FALSE
