SPECIFICATION FairSpec
CONSTANTS
    t1 = t1
    t2 = t2
    t3 = t3
    c1 = c1
    c2 = c2
    c3 = c3
    c4 = c4
    NoConn = NoConn
    Opening = Opening
    Task <- MCTask
    Conn <- MCConn
    MaxSize = 2
    MaxDrops = 2
INVARIANTS
    PermitsConserved
    SizeBound
    Exclusive
    NoIdlePermit
PROPERTIES
    ImplementsPoolAbs
    QueuedIsServed
