------------------------------- MODULE Config -------------------------------
(***************************************************************************)
(* config.Load (internal/config/config.go) and the backend choice of       *)
(* cmd/api/main.go: the settings the session and throttling core reads,    *)
(* computed from the process environment.  An environment is a function   *)
(* from variable names to the strings os.Getenv returns; a name outside    *)
(* its domain is unset, which os.Getenv reports as "".                     *)
(*                                                                         *)
(* Settings nothing modelled reads (app name, CORS, TLS, DSNs, pool sizes, *)
(* Sentry, Prometheus, token TTLs, issuer) are left out of the record;     *)
(* their getenv calls cannot fail, so leaving them out loses no error path.*)
(***************************************************************************)
EXTENDS Integers, TLC

(* The integers a numeral in the environments enumerated may denote.       *)
NumeralRange == -100..300

Lookup(env, key) == IF key \in DOMAIN env THEN env[key] ELSE ""

(* strings.TrimSpace.  A value is a word or a run of blanks; padding       *)
(* around a word is not among the values enumerated.                       *)
TrimSpace(v) == IF v \in {" ", "  ", "\t"} THEN "" ELSE v

(* strconv.Atoi: a decimal numeral of NumeralRange, or an error.           *)
AtoiOK(s) == \E n \in NumeralRange : ToString(n) = s

Atoi(s) == CHOOSE n \in NumeralRange : ToString(n) = s

(* strconv.ParseBool: the spellings it accepts, anything else an error.    *)
TrueWords  == {"1", "t", "T", "TRUE", "true", "True"}
FalseWords == {"0", "f", "F", "FALSE", "false", "False"}

(* strings.ToLower on the spellings of the driver names enumerated.        *)
ToLower(s) ==
    CASE s \in {"Postgres", "POSTGRES"} -> "postgres"
      [] s \in {"MySQL", "MYSQL"}       -> "mysql"
      [] OTHER                          -> s

(* getenv: the trimmed value, or def when it is blank.                     *)
Getenv(env, key, def) ==
    LET v == TrimSpace(Lookup(env, key)) IN IF v = "" THEN def ELSE v

(* getInt: def when blank or when Atoi fails.                              *)
GetInt(env, key, def) ==
    LET v == TrimSpace(Lookup(env, key))
    IN  IF v = "" \/ ~AtoiOK(v) THEN def ELSE Atoi(v)

(* getBool: def when blank or when ParseBool fails.                        *)
GetBool(env, key, def) ==
    LET v == TrimSpace(Lookup(env, key))
    IN  CASE v \in TrueWords  -> TRUE
          [] v \in FalseWords -> FALSE
          [] OTHER            -> def

(* Load: the Config fields the core consumes.  Each JWT secret falls back  *)
(* to JWT_SECRET, and that to the literal "change-me".                     *)
Load(env) ==
    [driver            |-> ToLower(Getenv(env, "DB_DRIVER", "postgres")),
     redisAddr         |-> Getenv(env, "REDIS_ADDR", "redis:6379"),
     accessSecret      |-> Getenv(env, "JWT_ACCESS_SECRET",
                                   Getenv(env, "JWT_SECRET", "change-me")),
     refreshSecret     |-> Getenv(env, "JWT_REFRESH_SECRET",
                                   Getenv(env, "JWT_SECRET", "change-me")),
     secretVersion     |-> Getenv(env, "JWT_SECRET_VERSION", "v1"),
     rateLimitEnabled  |-> GetBool(env, "RATE_LIMIT_ENABLED", TRUE),
     requestsPerMinute |-> GetInt(env, "RATE_LIMIT_PER_MIN", 60),
     burst             |-> GetInt(env, "RATE_LIMIT_BURST", 5),
     allowRegistration |-> GetBool(env, "ALLOW_REGISTRATION", TRUE),
     maxLogLines       |-> GetInt(env, "DEBUG_LOG_LIMIT", 200)]

(* Config.validate: both secrets non-empty and a supported driver.  Load   *)
(* fails, and main exits, when it is false.                                *)
Validate(c) ==
    /\ c.accessSecret # "" /\ c.refreshSecret # ""
    /\ c.driver \in {"postgres", "mysql"}

(* main: the refresh store is Redis when REDIS_ADDR is set and             *)
(* redisinfra.Connect succeeded; a failed connect only logs a warning and  *)
(* the process runs on the in-memory map.                                  *)
StoreBackend(c, redisUp) ==
    IF c.redisAddr # "" /\ redisUp THEN "redis" ELSE "memory"

(* main: no limiters when RATE_LIMIT_ENABLED is false (RateLimit skips a   *)
(* nil limiter), else the Redis or the in-memory limiter like the store.   *)
LimiterBackend(c, redisUp) ==
    IF c.rateLimitEnabled THEN StoreBackend(c, redisUp) ELSE "none"

=============================================================================
