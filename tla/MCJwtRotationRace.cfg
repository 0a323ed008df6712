\* Two concurrent POST /auth/refresh requests presenting the same refresh
\* token, store commands that never fail, no restart: does RefreshTokens
\* succeed at most once per token (spec 8)?
CONSTANTS
    Users = {u1}
    i1 = i1  i2 = i2  i3 = i3
    w1 = w1  w2 = w2
    Ids <- MCIds
    Workers <- MCWorkers
    Versions = {"v1"}
    InitVersion <- LoadedVersion
    AccessSecret <- SplitAccess
    RefreshSecret <- SplitRefresh
    Backend <- RedisDownBackend
    MaxRestarts = 0
    MISSING = MISSING
SYMMETRY MCSymmetry
SPECIFICATION Spec
INVARIANT RotationSingleUse
