CONSTANTS
    Unbindable = {}
    Members = {1}
    AutoIncrement = {}
    Kinds = {"OR"}
    Values = {v1, v2}
    Null = Null
    CondsFrozen = FALSE
    MaxObjects = 1
    MaxConds = 2
    MaxRequests = 2
    MaxBuilders = 0
    MaxParts = 2
SPECIFICATION Spec
INVARIANTS
    RequestAsHandedIn
CHECK_DEADLOCK FALSE
