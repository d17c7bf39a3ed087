SPECIFICATION Spec
CONSTANTS
    s1 = s1  s2 = s2  q1 = q1  q2 = q2  g1 = g1  c1 = c1  c2 = c2
    Requests = {s1, s2, q1, q2, g1}
    Kind <- MCKind
    CacheKey <- MCCacheKey
    Plugins = {"pre", "post", "cache"}
    Pollers = {c1, c2}
    Target <- MCTarget
    CacheActive = TRUE
    Expiring = TRUE
    Streams = {st}
    st = st
    FieldResults <- MCFieldResults
    ChannelCap = 2
    MaxCrashes = 2
    Scenarios = {{q1, q2}, {s1, q1}, {s2, g1}, {s1, s2}}
INVARIANTS ServingInv StreamInv
PROPERTIES StreamEnds StorageSound
CHECK_DEADLOCK FALSE
