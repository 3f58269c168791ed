SPECIFICATION Spec
CONSTANTS
    Session = {"s1", "s2"}
    Conn = {"c1", "c2"}
    Name = {"n"}
    Setups <- Mixed
    ForwardsClose = FALSE
    ClientTracks = TRUE
    MaxLosses = 0
INVARIANTS
    ParamsMatch
