SPECIFICATION Spec
CONSTANTS
    Session = {"s1", "s2"}
    Conn = {"c1", "c2"}
    Name = {"n"}
    Setups <- Sound
    ForwardsClose = FALSE
    ClientTracks = TRUE
    MaxLosses = 2
INVARIANTS
    StatementsMatch
    ParamsMatch
    ParkedNeutral
    ReplaysSucceed
