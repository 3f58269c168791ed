SPECIFICATION Spec
CHECK_DEADLOCK FALSE
CONSTANTS
    Setups <- CyclesAndLosses
    MaxMsgs = 3
    MaxLosses = 2
INVARIANTS
    TypeOK
    NoLostAnswer
