SPECIFICATION Spec
CHECK_DEADLOCK FALSE
CONSTANTS
    a = a
    b = b
    s1 = s1
    s2 = s2
    Session = {s1}
    Shard = {a, b}
    None = None
    First = a
    Requests <- Broadcast
    Named <- Nobody
    Setups <- Elsewhere
    MaxSize = 3
    MaxEvents = 3
INVARIANTS
    LegsAlwaysReachTheirShard
