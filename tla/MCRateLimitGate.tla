---------------------------- MODULE MCRateLimitGate ----------------------------
(* Model values for RateLimitGate: two requests in flight at once, the     *)
(* limit taken from an environment that config.Load reads.                 *)
EXTENDS RateLimitGate, TLC

CONSTANTS w1, w2

MCWorkers == {w1, w2}

Conf == INSTANCE Config

GateEnv == [RATE_LIMIT_PER_MIN |-> "2", REDIS_ADDR |-> "redis:6379"]

ASSUME Conf!Validate(Conf!Load(GateEnv))
ASSUME Conf!LimiterBackend(Conf!Load(GateEnv), TRUE) = "redis"

LoadedLimit == Conf!Load(GateEnv).requestsPerMinute

MCSymmetry == Permutations(MCWorkers)
=============================================================================
