SPECIFICATION Spec
CONSTANTS
    Jobs = {"sql", "row"}
    MaxSymbols = 6
    Columns = 3
    Value <- Bytes
    MaxEdits = 2
INVARIANTS ReadsAreReads RowEditsAreLocal
CHECK_DEADLOCK FALSE
