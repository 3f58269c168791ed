SPECIFICATION Spec
CONSTANTS
    Session = {"s1", "s2"}
    Order <- TwoEndpoints
    FailureThreshold = 2
    Refused = {}
    Setups <- Every
    MaxEvents = 2
INVARIANTS
    BlameIsDeserved
    GivesUpOnlyWhenNoneLive
