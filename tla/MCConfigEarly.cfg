SPECIFICATION Spec
CONSTANTS
    None = None
    Password = {"p", "q"}
    Ids = {"a", "b"}
    Limits = {0, 3}
    Lists <- TwoLists
    Uses = {"api"}
    MaxCalls = 5
INVARIANT LastPasswordIsUsed
CHECK_DEADLOCK FALSE
