CONSTANTS
    v = v
    w = w
    Basics = {"name"}
    Lists = {"versions"}
    Structs = {"info"}
    StructLists = {"drivers"}
    Fields = {"lang", "y"}
    Alias <- NoAlias
    FieldAlias <- NoAlias
    Values = {v, w}
    c1 = c1
    c2 = c2
    Clients = {c1, c2}
    Objects <- ListObjects
    Writes <- ListWrites
    Asks <- ListAsks
    MaxCalls <- MCMaxCalls
SPECIFICATION Spec
INVARIANTS
    ReadsWhatWasWritten
CHECK_DEADLOCK FALSE
