---------------------------- MODULE MCJwtManager ----------------------------
(* Model-checking instance of JwtManager: the constants are model values   *)
(* given in the .cfg files; jti values and workers are symmetric.          *)
EXTENDS JwtManager, TLC

CONSTANTS i1, i2, i3, w1, w2

MCIds == {i1, i2, i3}

MCWorkers == {w1, w2}

MCSymmetry == Permutations(MCIds) \cup Permutations(MCWorkers)

Conf == INSTANCE Config

(* The environments the server is started with: SplitEnv sets both JWT     *)
(* secrets; SharedEnv sets only JWT_SECRET, which both fall back to.       *)
SplitEnv  == [JWT_ACCESS_SECRET |-> "kA", JWT_REFRESH_SECRET |-> "kR"]
SharedEnv == [JWT_SECRET |-> "k"]

(* config.Load accepts both: main starts serving.                          *)
ASSUME Conf!Validate(Conf!Load(SplitEnv)) /\ Conf!Validate(Conf!Load(SharedEnv))

SplitAccess   == Conf!Load(SplitEnv).accessSecret
SplitRefresh  == Conf!Load(SplitEnv).refreshSecret
SharedAccess  == Conf!Load(SharedEnv).accessSecret
SharedRefresh == Conf!Load(SharedEnv).refreshSecret
LoadedVersion == Conf!Load(SplitEnv).secretVersion

(* main with REDIS_ADDR at its default: Redis when the connect succeeds,   *)
(* the in-memory map when it fails.                                        *)
RedisUpBackend   == Conf!StoreBackend(Conf!Load(SplitEnv), TRUE)
RedisDownBackend == Conf!StoreBackend(Conf!Load(SplitEnv), FALSE)
=============================================================================
