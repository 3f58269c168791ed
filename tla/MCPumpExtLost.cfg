SPECIFICATION Spec
CHECK_DEADLOCK FALSE
CONSTANTS
    Setups <- ExtLost
    MaxMsgs = 5
    MaxLosses = 2
INVARIANTS
    NoLostAnswer
