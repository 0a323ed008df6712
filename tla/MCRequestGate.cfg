\* Two concurrent requests from two addresses, a user and an admin token,
\* limit 1 and burst 0 per minute on both limiters and a log of two lines,
\* as config.Load reads them from GateEnv; one tick to the minute over two
\* minutes, three requests.
CONSTANTS
    Limit <- LoadedLimit
    Burst <- LoadedBurst
    TicksPerMinute = 1
    MaxTime = 2
    NONE = NONE
    ip1 = ip1
    ip2 = ip2
    u1 = u1
    u2 = u2
    w1 = w1
    w2 = w2
    IPs <- MCIPs
    Users <- MCUsers
    Admins = {u2}
    Workers <- MCWorkers
    MaxRequests = 3
    LogLimit <- LoadedLogLimit
SYMMETRY MCSymmetry
SPECIFICATION Spec
INVARIANT TypeOK UserThrottled LogHoldsLatest
