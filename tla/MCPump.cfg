SPECIFICATION FairSpec
CHECK_DEADLOCK FALSE
CONSTANTS
    Setups <- CyclesAndLosses
    MaxMsgs = 3
    MaxLosses = 2
INVARIANTS
    ParkedQuiet
    RfqNeverAhead
    StatusAgrees
PROPERTIES
    InOrder
    AsksAreAnswered
    ShutdownEnds
