SPECIFICATION FairSpec
CONSTANTS
    c1 = c1
    c2 = c2
    m1 = m1
    m2 = m2
    Calls = {c1, c2}
    Models = {m1, m2}
    DefaultModel = dm
    DefOf <- SharedDefinition
    Strings = {c1}
    Throughput = TRUE
    NumShards = 1
    MaxConcurrent = 1
    Cooldown = 1
    MaxWait = 1
    MaxRetries = 1
    EmptyRetries = 1
INVARIANTS CallInv RetriesSound
PROPERTIES CooldownsSound CallReturns
CHECK_DEADLOCK FALSE
