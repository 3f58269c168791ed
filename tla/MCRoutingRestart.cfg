SPECIFICATION Spec
CONSTANTS
    Session = {"s1", "s2"}
    Order <- OneEndpoint
    FailureThreshold = 2
    Refused = {}
    Setups <- Restart
    MaxEvents = 2
INVARIANTS
    AllHaveFailed
