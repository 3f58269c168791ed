SPECIFICATION Spec
CONSTANTS
    None = None
    Password = {"p", "q"}
    Ids = {"a", "b"}
    Limits = {0, 3}
    Lists <- TwoLists
    Uses = {"cli"}
    MaxCalls = 5
INVARIANT CliPasswordIsUsed
CHECK_DEADLOCK FALSE
