SPECIFICATION FairSpec
CONSTANTS
    a = a
    b = b
    s1 = s1
    s2 = s2
    Session = {s1, s2}
    Shard = {a, b}
    None = None
    First = a
    Requests <- EitherOrder
    Named <- Nobody
    Setups <- Sound
    MaxSize = 3
    MaxEvents = 3
INVARIANTS
    WholeOrNothing
    LegsReachTheirShard
    QueuesAreExact
PROPERTIES
    CleanLegsReturned
    Answered
