\* In-memory refresh store (sync.Map), two concurrent requests, a restart
\* that loses the map and may bump the secret version.
CONSTANTS
    Users = {u1}
    i1 = i1  i2 = i2  i3 = i3
    w1 = w1  w2 = w2
    Ids <- MCIds
    Workers <- MCWorkers
    Versions = {"v1", "v2"}
    InitVersion <- LoadedVersion
    AccessSecret <- SplitAccess
    RefreshSecret <- SplitRefresh
    Backend <- RedisDownBackend
    MaxRestarts = 1
    MISSING = MISSING
SYMMETRY MCSymmetry
SPECIFICATION Spec
INVARIANT TypeOK SessionSurvivesFailedRotation AuthAcceptsOnlyAccessTokens
