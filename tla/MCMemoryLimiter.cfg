\* One key (keys have independent buckets under one mutex), limit 2 per
\* minute, burst 1, a clock of 4 ticks a minute running for two minutes.
CONSTANTS
    Limit = 2
    Burst = 1
    Keys = {k1}
    TicksPerMinute = 4
    MaxTime = 8
    NONE = NONE
SPECIFICATION Spec
INVARIANT TypeOK RemainingInRange
PROPERTY AllowedAfterQuietMinute
