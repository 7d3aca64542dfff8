CONSTANTS
    Threads <- MCThreads
SPECIFICATION FairSpec
INVARIANTS
    TypeOK
    LockMutualExclusion
    OneOwnerPerConnection
    NeverNullInUse
    ConnectionsBoundedByThreads
PROPERTIES
    OpensOnlyWhenAllInUse
    ImplementsService
    LockIsAlwaysReleased
    SystemWideProgress
