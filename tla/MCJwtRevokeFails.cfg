\* One request at a time against Redis, whose commands may fail: RefreshTokens
\* discards the error of the DEL that retires the presented token
\* (`_ = m.revoke(ctx, claims)`).  Does a refresh token stay single-use?
CONSTANTS
    Users = {u1}
    i1 = i1  i2 = i2  i3 = i3
    w1 = w1  w2 = w2
    Ids <- MCIds
    Workers = {w1}
    Versions = {"v1"}
    InitVersion <- LoadedVersion
    AccessSecret <- SplitAccess
    RefreshSecret <- SplitRefresh
    Backend <- RedisUpBackend
    MaxRestarts = 0
    MISSING = MISSING
SYMMETRY MCSymmetry
SPECIFICATION Spec
INVARIANT RotationSingleUse
