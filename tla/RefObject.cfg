CONSTANTS
    Unbindable = {}
    Members = {1}
    AutoIncrement = {}
    Kinds = {"OR"}
    Values = {v1, v2}
    Null = Null
    CondsFrozen = TRUE
    MaxObjects = 2
    MaxConds = 2
    MaxRequests = 2
    MaxBuilders = 1
    MaxParts = 2
SPECIFICATION Spec
SYMMETRY ValueSymmetry
INVARIANTS
    TypeOK
    RequestAsHandedIn
CHECK_DEADLOCK FALSE
