CONSTANTS
    Unbindable = {3}
    Requests <- CommonRequests
    Values = {v1, v2}
    Handles = {h1, h2, h3}
    Null = Null
SPECIFICATION Spec
SYMMETRY HandleSymmetry
INVARIANTS
    TypeOK
    StatementMatchesRequest
    BindsOnlyOwnParams
    CacheOwnsStatements
    RequestsWithParametersSurvive
CHECK_DEADLOCK FALSE
