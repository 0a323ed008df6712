\* Two concurrent requests against the counter key, DECR on a missing key
\* answering either as Redis does or with the redis.Nil the lazy-init branch
\* expects, limit 2, two windows.
CONSTANTS
    Limit = 2
    Workers = {w1, w2}
    DecrOnMissing = {"create", "nil"}
    MaxRequests = 4
    MaxWindows = 2
    MISSING = MISSING
SPECIFICATION Spec
INVARIANT TypeOK RemainingInRange
