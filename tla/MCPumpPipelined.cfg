SPECIFICATION Spec
CHECK_DEADLOCK FALSE
CONSTANTS
    Setups <- Pipelined
    MaxMsgs = 5
    MaxLosses = 2
INVARIANTS
    ParkedQuiet
