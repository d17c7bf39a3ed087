SPECIFICATION FairSpec
CONSTANTS
    b1 = b1  b2 = b2  b3 = b3  q1 = q1  q2 = q2
    None = None
    Jobs = {b1, b2, q1}
    Memory <- MCMemory
    Priority <- MCPriority
    Poison = {b2}
    MaxRequests = 2
    MaxMemory = 2
    WebhookEnabled = TRUE
    RetryAttempts = 1
    WebhookStatuses = {0, 199, 200, 299, 300}
    MayStop = FALSE
    Batching = TRUE
    BatchPriorityThreshold = 0
    Concurrency = 1
    ChannelSize = 1
    MaxTransientRetries = 1
    OverBurst = {}
    Vectors = {}
PROPERTY ReturnsUnlessBatchFails
CHECK_DEADLOCK FALSE
