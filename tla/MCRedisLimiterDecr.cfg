\* DECR as Redis runs it on a missing key (creates it at 0, no expiry,
\* answers -1), with key expiry weakly fair.  Does the window still end?
CONSTANTS
    Limit = 2
    Workers = {w1}
    DecrOnMissing = {"create"}
    MaxRequests = 4
    MaxWindows = 2
    MISSING = MISSING
SPECIFICATION FairSpec
PROPERTY WindowEnds
