SPECIFICATION Spec
CHECK_DEADLOCK FALSE
CONSTANTS
    Text = {"a", "b"}
    None = None
    Setups <- Undescribed
    MaxMsgs = 7
    MaxRows = 2
    MaxLosses = 2
INVARIANTS
    SchemaFits
