SPECIFICATION FairSpec
CONSTANTS
    o = o
    p = p
    q = q
    None = None
    Arrays = {o, p, q}
    Root = {o}
    Inner <- NestedInner
    Responses <- MCResponses
    DefaultSize = 1
    MaxItems = 2
    Permits = 2
INVARIANTS ArrayInv ItemsSound
PROPERTY ArraysEnd
CHECK_DEADLOCK FALSE
