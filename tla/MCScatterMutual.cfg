SPECIFICATION FairSpec
CHECK_DEADLOCK FALSE
CONSTANTS
    a = a
    b = b
    s1 = s1
    s2 = s2
    Session = {s1, s2}
    Shard = {a, b}
    None = None
    First = a
    Requests <- EitherOrder
    Named <- Nobody
    Setups <- Mutual
    MaxSize = 3
    MaxEvents = 3
PROPERTIES
    Answered
