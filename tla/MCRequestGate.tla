---------------------------- MODULE MCRequestGate ----------------------------
EXTENDS RequestGate, TLC

CONSTANTS ip1, ip2, u1, u2, w1, w2

MCIPs == {ip1, ip2}
MCUsers == {u1, u2}
MCWorkers == {w1, w2}

\* u1 holds a user token, u2 an admin one: only the addresses and the
\* workers are interchangeable.
MCSymmetry == Permutations(MCIPs) \cup Permutations(MCWorkers)

Conf == INSTANCE Config

(* The environment of the run; Redis is unreachable at start, so main      *)
(* builds the in-memory limiters RequestGate models.                       *)
GateEnv == [RATE_LIMIT_ENABLED |-> "true", RATE_LIMIT_PER_MIN |-> "1",
            RATE_LIMIT_BURST |-> "0", DEBUG_LOG_LIMIT |-> "2"]

GateConfig == Conf!Load(GateEnv)

ASSUME Conf!Validate(GateConfig) /\ Conf!LimiterBackend(GateConfig, FALSE) = "memory"

LoadedLimit    == GateConfig.requestsPerMinute
LoadedBurst    == GateConfig.burst
LoadedLogLimit == GateConfig.maxLogLines
=============================================================================
