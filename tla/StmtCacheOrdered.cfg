CONSTANTS
    Unbindable = {3}
    Requests <- Ordered
    Values = {v1, v2}
    Handles = {h1, h2}
    Null = Null
SPECIFICATION Spec
INVARIANTS
    DocumentedConditionsBind
