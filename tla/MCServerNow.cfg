SPECIFICATION Spec
CONSTANTS
    c1 = c1
    c2 = c2
    Client = {c1, c2}
    None = None
    MaxConn = 2
    PoolSize = 1
    Setups <- Now
    MaxFaults = 1
INVARIANT
    ShutdownAbortsSessions
CHECK_DEADLOCK FALSE
