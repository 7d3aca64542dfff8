CONSTANTS
    Unbindable = {3}
    Requests <- ReadThenCount
    Values = {v1, v2}
    Handles = {h1, h2}
    Null = Null
SPECIFICATION Spec
INVARIANTS
    StatementMatchesRequest
