SPECIFICATION Spec
CONSTANTS
    None = None
    Password = {"p", "q"}
    Ids = {"a", "b"}
    Limits = {0, 3}
    Lists <- TwoLists
    Uses = {"api", "cli"}
    MaxCalls = 5
INVARIANTS BuiltAsAsked PasswordIsUsed
CHECK_DEADLOCK FALSE
