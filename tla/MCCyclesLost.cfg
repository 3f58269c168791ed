SPECIFICATION Spec
CHECK_DEADLOCK FALSE
CONSTANTS
    Text = {"a", "b"}
    None = None
    Setups <- Loses
    MaxMsgs = 7
    MaxRows = 2
    MaxLosses = 2
INVARIANTS
    AllErrorsAreReported
