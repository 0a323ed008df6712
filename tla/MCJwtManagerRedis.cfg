\* Redis refresh store, two concurrent requests, a restart that may bump the
\* secret version, store commands that fail or whose reply is lost, token
\* and key expiry.
CONSTANTS
    Users = {u1}
    i1 = i1  i2 = i2  i3 = i3
    w1 = w1  w2 = w2
    Ids <- MCIds
    Workers <- MCWorkers
    Versions = {"v1"}
    InitVersion <- LoadedVersion
    AccessSecret <- SplitAccess
    RefreshSecret <- SplitRefresh
    Backend <- RedisUpBackend
    MaxRestarts = 1
    MISSING = MISSING
SPECIFICATION Spec
INVARIANT TypeOK SessionSurvivesFailedRotation AuthAcceptsOnlyAccessTokens
