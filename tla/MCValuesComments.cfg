SPECIFICATION Spec
CONSTANTS
    Jobs = {"sql"}
    MaxSymbols = 6
    Columns = 3
    Value <- Bytes
    MaxEdits = 2
INVARIANT WrappedReadsAreReads
CHECK_DEADLOCK FALSE
