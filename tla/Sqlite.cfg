CONSTANTS
    Clients = {c1, c2}
    Kinds <- MCKinds
    Statements = 2
    MaxCalls = 2
SPECIFICATION FairSpec
INVARIANTS
    TypeOK
    ConnectionsReturned
    PoolOutlivesUse
PROPERTIES
    InsertedIsAnswered
    ImplementsStorage
CHECK_DEADLOCK FALSE
