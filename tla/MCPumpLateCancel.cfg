SPECIFICATION Spec
CHECK_DEADLOCK FALSE
CONSTANTS
    Setups <- LateCancel
    MaxMsgs = 5
    MaxLosses = 2
INVARIANTS
    ParkedQuiet
