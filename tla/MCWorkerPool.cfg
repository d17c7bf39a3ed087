SPECIFICATION FairPoolSpec
CONSTANTS
    r1 = r1  r2 = r2
    j1 = j1  j2 = j2  j3 = j3
    None = None
    Requests = {r1, r2}
    Jobs = {j1, j2, j3}
    CtxJobs = {j1, j2}
    Cancellable = {r1}
    ReqOf <- MCReqOf
    Priority <- MCPriority
    Quota = 1
    MaxWorkers = 2
    ShardTarget = 1
    MayShutdown = TRUE
INVARIANTS PoolTypeOK SlotAccounting JobInOnePlace NoLostWakeup AbandonedOnlyIfEnded
PROPERTY PoolServes
CHECK_DEADLOCK FALSE
