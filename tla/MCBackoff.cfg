SPECIFICATION Spec
CONSTANTS
    All = All
    Workers = {w1, w2}
    Second = 1
    MaxBackoff = 4
    RetryAfters = {0, 3}
    Minute = 2
    DefaultRPM = 10
INVARIANT BackoffInv
PROPERTY PausesEnd
CHECK_DEADLOCK FALSE
