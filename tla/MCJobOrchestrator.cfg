SPECIFICATION Spec
CONSTANTS
    b1 = b1  b2 = b2  b3 = b3  q1 = q1  q2 = q2
    None = None
    Jobs = {b1, b2, b3, q1}
    Memory <- MCMemory
    Priority <- MCPriority
    Poison = {b3}
    MaxRequests = 2
    MaxMemory = 2
    WebhookEnabled = FALSE
    RetryAttempts = 0
    WebhookStatuses = {0, 199, 200, 299, 300}
    MayStop = TRUE
    Batching = TRUE
    BatchPriorityThreshold = 0
    Concurrency = 2
    ChannelSize = 1
    MaxTransientRetries = 1
    OverBurst = {q1}
    Vectors = {}
INVARIANTS OrchestratorInv BatchWithinLimits
PROPERTY ImplementsJobService
CHECK_DEADLOCK FALSE
