SPECIFICATION FairSpec
CONSTANTS
    c1 = c1
    c2 = c2
    Client = {c1, c2}
    None = None
    MaxConn = 2
    PoolSize = 1
    Setups <- StopSetups
    MaxFaults = 1
PROPERTIES
    StopEnds
    SlotComesBack
    CancelIsSeen
CHECK_DEADLOCK FALSE
