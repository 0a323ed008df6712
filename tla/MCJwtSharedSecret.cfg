\* Default configuration: only JWT_SECRET is set, so cfg.Auth.AccessSecret
\* and cfg.Auth.RefreshSecret are the same string (config.go:139-140).  Does
\* the auth middleware still accept only access tokens?
CONSTANTS
    Users = {u1}
    i1 = i1  i2 = i2  i3 = i3
    w1 = w1  w2 = w2
    Ids <- MCIds
    Workers <- MCWorkers
    Versions = {"v1"}
    InitVersion <- LoadedVersion
    AccessSecret <- SharedAccess
    RefreshSecret <- SharedRefresh
    Backend <- RedisDownBackend
    MaxRestarts = 0
    MISSING = MISSING
SYMMETRY MCSymmetry
SPECIFICATION Spec
INVARIANT AuthAcceptsOnlyAccessTokens
