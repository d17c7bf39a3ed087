SPECIFICATION FairSpec
CONSTANTS
    r1 = r1  a = a  b = b  c = c  d = d  o = o
    None = None
    Requests = {r1}
    Jobs = {a, b, c, d, o}
    CtxJobs = {a, b, c, d, o}
    Objects = {o}
    Structured = {o}
    Cancellable = {r1}
    ReqOf <- MCReqOf
    Priority <- MCPriority
    ParentOf <- MixedParent
    Ordered <- MixedOrdered
    Rest <- MixedRest
    Quota = 2
    MaxWorkers = 2
    ShardTarget = 2
    LowWorkerFloor = 2
    BufferSize = 1
    MayShutdown = FALSE
INVARIANT FieldInv
PROPERTIES NothingLostInTime ReturnsUnlessAbandoned
CHECK_DEADLOCK FALSE
