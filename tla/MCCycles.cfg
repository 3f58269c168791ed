SPECIFICATION FairSpec
CHECK_DEADLOCK FALSE
CONSTANTS
    Text = {"a", "b"}
    None = None
    Setups <- AllSetups
    MaxMsgs = 7
    MaxRows = 2
    MaxLosses = 2
INVARIANTS
    ReportIsTrue
    TagsCountRows
PROPERTIES
    CyclesAreReported
