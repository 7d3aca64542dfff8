CONSTANTS
    Order <- MCOrder
    AutoIncrement = {"id"}
    Nullable = {"type"}
    Results <- MCResults
    Values = {v, w}
    Null = Null
    Zero = Zero
    AssignsToCopies = FALSE
    MaxObjects = 3
    MaxRows = 2
    MaxRequests = 3
SYMMETRY ValueSymmetry
SPECIFICATION Spec
INVARIANTS
    TypeOK
    RowsHoldTheirObjects
    AnswerCountsRows
PROPERTIES
    FetchIsFaithful
CHECK_DEADLOCK FALSE
