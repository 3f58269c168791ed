SPECIFICATION Spec
CONSTANTS
    c1 = c1
    c2 = c2
    c3 = c3
    Client = {c1, c2, c3}
    None = None
    MaxConn = 2
    PoolSize = 1
    Setups <- AllSetups
    MaxFaults = 1
INVARIANTS
    SlotsConserved
    RegistryIsExact
    RouterIsLive
    OnePoolPerKey
    SignalCutsNoQuery
    ReturnsDrained
CHECK_DEADLOCK FALSE
SYMMETRY Symmetry
