CONSTANTS
    v = v
    w = w
    Basics = {"name"}
    Lists = {"versions"}
    Structs = {"info"}
    StructLists = {"drivers"}
    Fields = {"lang", "y"}
    Alias <- NameAlias
    FieldAlias <- NoAlias
    Values = {v, w}
    c1 = c1
    c2 = c2
    Clients = {c1, c2}
    Objects <- MCObjects
    Writes <- MCWrites
    Asks <- NameAsks
    MaxCalls <- MCMaxCalls
SPECIFICATION Spec
INVARIANTS
    ReadsWhatWasWritten
CHECK_DEADLOCK FALSE
