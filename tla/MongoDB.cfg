CONSTANTS
    v = v
    w = w
    Basics = {"name"}
    Lists = {"versions"}
    Structs = {"info"}
    StructLists = {"drivers"}
    Fields = {"lang", "y"}
    Alias <- MCAlias
    FieldAlias <- MCFieldAlias
    Values = {v, w}
    c1 = c1
    c2 = c2
    Clients = {c1, c2}
    Objects <- MCObjects
    Writes <- MCWrites
    Asks <- MCAsks
    MaxCalls <- MCMaxCalls
SPECIFICATION FairSpec
INVARIANTS
    TypeOK
    ReadsWhatWasWritten
    ContextOutlivesUse
PROPERTIES
    AnswerCountsDocuments
    ImplementsStorage
    InsertedIsAnswered
CHECK_DEADLOCK FALSE
