SPECIFICATION GatewaySpec
CONSTANTS
    IntBits = 4
    Panic = Panic
    Hosts = {"h"}
    Situations <- MCSituations
    Usual <- MCUsual
    Varied <- MCVaried
    Replies <- MCReplies
    Definitions <- MCDefinitions
    Messages <- MCMessages
INVARIANTS ConversionsFaithful RequestsFaithful RateLimitSeen
CHECK_DEADLOCK FALSE
