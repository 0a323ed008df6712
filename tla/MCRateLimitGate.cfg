\* RateLimit over the two Redis limiters: two concurrent requests, DECR on a
\* missing key answered either way, store commands that may fail, two
\* windows per key.
CONSTANTS
    w1 = w1
    w2 = w2
    Workers <- MCWorkers
    Limit <- LoadedLimit
    DecrOnMissing = {"create", "nil"}
    MaxRequests = 3
    MaxWindows = 1
    MaxArrivals = 4
    MISSING = MISSING
SYMMETRY MCSymmetry
SPECIFICATION Spec
INVARIANT TypeOK ThrottleDecision RemainingInRange
