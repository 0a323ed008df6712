\* Does the bucket hold callers to limit+burst plus limit per minute (spec
\* 4.4)?  Same bounds as MCMemoryLimiter.
CONSTANTS
    Limit = 2
    Burst = 1
    Keys = {k1}
    TicksPerMinute = 4
    MaxTime = 8
    NONE = NONE
SPECIFICATION Spec
INVARIANT RateNeverExceeded
