\* One request at a time: does the lazy-init fixed window hold callers to
\* limit calls per window when nothing runs concurrently, and does each window end?
CONSTANTS
    Limit = 2
    Workers = {w1}
    DecrOnMissing = {"nil"}
    MaxRequests = 6
    MaxWindows = 2
    MISSING = MISSING
SPECIFICATION FairSpec
INVARIANT WindowQuota
PROPERTY WindowEnds
