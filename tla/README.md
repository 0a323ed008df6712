# TLA+ models of api_free_demo

TLA+ specifications of the stateful parts of the Go service under `src/`,
with TLC configurations that check them. The service is a Gin HTTP API with
users, JWT sessions with rotating refresh tokens, per-IP and per-user rate
limiting, and CRUD over user profiles with optimistic versioning. Its state
lives in three places: Postgres (users, profiles), Redis when it is reachable
(refresh tokens, rate-limit counters), and process memory otherwise
(`sync.Map` of refresh tokens, token buckets).

Every module is written from the Go code. `spec.md` describes the auth and
rate-limit core; where the code and the spec disagree, the module follows the
code and a run shows the disagreement (see *Findings*). `PROJECT.json` maps
every definition that models code to the lines it models.

## The system and how its parts interact

| Part | Source | State it owns | Interacts with |
|---|---|---|---|
| Token codec | `internal/infrastructure/auth/jwt_manager.go` (`issueAccess`, `issueRefresh`, `parse`) | none: HS256 over the claims, secret version check | config secrets and `SecretVersion` |
| Refresh store | same file (`persistRefresh`, `ensureRefreshValid`, `revoke`) | `refresh:<jti>` keys in Redis (TTL) or `Manager.memoryTokens` | Redis, or nothing (lost on restart) |
| Token lifecycle | same file (`IssueTokens`, `RefreshTokens`, `ExtractUserID`, `ParseAccessToken`); `domain/user/service.go` `Refresh` | none beyond the store | codec, store; called by Register, Login, Refresh and the auth middleware |
| Auth middleware | `internal/app/middleware/auth.go` (`OptionalAuth`, `AuthMiddleware`, `AdminOnly`) | request context (`user_id`, `user_role`) | `ParseAccessToken`; read by `RateLimit` through `response.UserIDFromContext` |
| Memory limiter | `internal/infrastructure/ratelimit/limiter.go` `MemoryLimiter` | bucket per key under one mutex | clock |
| Redis limiter | same file, `RedisLimiter` | one counter key per caller key, shared by all instances | Redis (`DECR`, `SET ... EX`) |
| Rate-limit middleware | `internal/app/middleware/ratelimit.go` | none | IP limiter then user limiter; fails open on a limiter error |
| Router and request log | `internal/app/router.go`, `middleware/logging.go`, `diagnostics/logbuffer.go` | `LogBuffer.data` (last `MAX_LOG_LINES` lines) under one mutex | the chain `OptionalAuth` → `RateLimit` → `RequestLogger`, then per group `authMW`, `adminMW`; `/debug/logs` reads the buffer |
| Profile service and repository | `domain/profile/service.go`, `infrastructure/db/profile_repository.go` | `profiles` rows with `version`, `deleted_at` | Postgres |
| User service and repository | `domain/user/service.go`, `infrastructure/db/user_repository.go` | `users` rows | Postgres, token lifecycle |
| Configuration | `internal/config/config.go` `Load`, `validate`; backend choice in `cmd/api/main.go` | none: read once at start | every component above takes its secrets, version, limits and backend from it |
| Handlers, connections, logging, metrics | the rest of `src/` | none that a property depends on | — |

`cmd/api/main.go` chooses the backends: when Redis answers at start-up the
refresh store and both limiters use Redis, otherwise the in-memory ones. Every
HTTP request runs on its own goroutine, and several instances may share one
Redis and one Postgres. So any two requests can interleave wherever a request
issues more than one store command.

## Modules

One module per component. It has an MC module that gives its model values,
and one `.cfg` per question.

### `JwtManager.tla`: token lifecycle, refresh store, auth middleware

* **State.**
  * `store`: `refresh:<jti>` ↦ token.
  * `secretVersion`: the process's `cfg.Auth.SecretVersion`.
  * `pc`: each request's progress through `RefreshTokens`.
  * History variables: `minted`, `issued` (what callers hold and may replay), `expired`, `wiped`, `authed` (the types of the bearers the middleware accepted), and `rotations` (per jti, the successful rotations that presented it).
* **Tokens.** A token is a record `[id, user, type, secret, sv]`. HS256 makes a string valid under exactly the key that signed it, so `Parses(t, secret)` compares keys, checks expiry and checks the version, as `parse` does.
* **Actions.**
  * `IssueTokens`.
  * `RefreshCheck`, `RefreshPersist`, `RefreshRevoke`: the three store commands of `RefreshTokens`, as separate steps.
  * `ValidateAccess`: the auth middleware.
  * `JwtExpire`.
  * `KeyExpire`: the Redis TTL.
  * `Restart`: may change `JWT_SECRET_VERSION`, and wipes the memory store.
* **Redis outcomes.** Redis commands end `ok`, `err`, or `lost` (applied, but the client saw an error).
* **Constants.** `Backend` selects Redis or memory. `AccessSecret` and `RefreshSecret` may be equal, which is the default when only `JWT_SECRET` is set.
* **MC module.** `MCJwtManager.tla` gives three jti values and two workers, with symmetry over both for the safety runs. It takes the secrets, the secret version and the backend from `Config`: `SplitEnv` sets both JWT secrets, `SharedEnv` only `JWT_SECRET`. Redis is up or down at start.

### `MemoryLimiter.tla`: `MemoryLimiter.Allow`

* **State.** Buckets `[tokens, last]` per key, and the clock `now` in ticks.
* **Time scaling.** Tokens are counted in 1/`TicksPerMinute` units, so the float refill `delta.Minutes() * limit` is exact integer arithmetic.
* **Actions.** Each call is one atomic action, because `Allow` holds `m.mu` throughout: `AllowNew`, `AllowRefilled`, `Deny`. `Tick` advances the clock.
* **History variables.** `allowed` and `first` record, per key, the calls allowed and the time of the first call.

### `RedisLimiter.tla`: `RedisLimiter.Allow`

* **Keys.** One counter key; keys do not interact.
* **Actions.**
  * DECR on an existing key: `DecrExisting`.
  * DECR on a missing key: `DecrCreate` (Redis creates the key at -1) or `DecrNil` (the code's assumption, which goes on to the SET).
  * `DecrError`.
  * The pipelined SET: `SetWindow` and `SetWindowError`.
  * `Expire`: the TTL runs out.
* **Constants.** `DecrOnMissing` is the set of answers DECR may give on a missing key: `{"create"}` is real Redis, `{"nil"}` the code's assumption, both together an over-approximation checked by the pass run.

### `RateLimitGate.tla`: `RateLimit` over the Redis backend, by composition

* **Composition.** Two instances of `RedisLimiter`, `Ip` and `Usr`, each with its own variables: the keys of the `:ip` and `:user` prefixes never meet. One client address and one user are modelled.
* **Actions.**
  * `Arrive`: a request, with or without a user id in its context.
  * `IpCall` and `UsrCall`: one Redis command of the limiter's `Allow` (`IpCommand`, `UsrCommand`). When the call is over, `RateLimit`'s decision is taken from its `RateLimitInfo` and error (`Verdict`, `GoesOn`).
  * `IpExpire` and `UsrExpire`: a counter key's TTL runs out.
* **State.** Each worker keeps the verdicts of its last request and whether it `passed` or was `rejected` (429).

### `Config.tla`: `config.Load` and the backend choice

* **Operators, no state.**
  * An environment is a function from variable names to strings.
  * `Getenv`, `GetInt` and `GetBool` are `getenv`, `getInt` and `getBool`: trim the value; fall back to the default when it is blank or fails `strconv.Atoi` / `strconv.ParseBool`. `Atoi` is defined by `ToString` over a bounded range, and `ParseBool` by the spellings Go accepts.
  * `Load` builds the fields the core reads, including both JWT secrets with their `JWT_SECRET` → `"change-me"` fallback.
  * `Validate` is `Config.validate`.
  * `StoreBackend` and `LimiterBackend` are the choices `main` makes.
* **Use.** `MCJwtManager` and `MCRequestGate` compute their constants with these operators, and `ASSUME` that `Validate` accepts the environment (TLC checks ASSUMEs).
* **Observations.**
  * `getenv` returns the default for a blank value. So `REDIS_ADDR=""` yields `redis:6379`, and `main`'s `cfg.Redis.Addr != ""` test is always true. The in-memory backends come only from a failed connect.
  * Likewise `Validate`'s empty-secret test can never fail: both secrets fall back to a non-empty literal.

### `RequestGate.tla`: the middleware chain, by composition

* **Composition.** Two `INSTANCE`s of `MemoryLimiter` (`Ip`, `Usr`), with their variables renamed and one shared clock `now`. These are the in-memory limiters `main.go` builds when Redis is not reachable.
* **State.** The two limiters, `req` (each request's stage and its bearer, address, route and context user), and `logData` (the `LogBuffer`).
* **Actions.** A request takes four steps, and other requests interleave between them:
  * `Arrive`: `OptionalAuth` sets the context user.
  * `IpCheck`: `RateLimit`'s IP-limiter call.
  * `UserCheck`: `RateLimit`'s user-limiter call, made when `UserIDFromContext` finds a user.
  * `Handle`: `RequestLogger`. It runs the route group's `AuthMiddleware` / `AdminOnly`, which give `RouteStatus`, and appends the line with `LogAppend`.
  * `Tick` advances the clock.
* **Abstraction.** A bearer is either `none` (no header, a malformed header, or a token that does not parse) or one user's access token. Which tokens parse is checked in `JwtManager`.
* **History variables.**
  * `logged`: every line appended.
  * `passed`: per user, the requests past `RateLimit`.

### `ProfileStore.tla`: profile service and repository

* **State.** Each row is `absent`, `live`, `deleted` (soft) or `erased` (hard), with its `version`.
* **Actions.**
  * `Create`.
  * `BulkCreate`, over the transaction `BulkInsert`.
  * `UpdateRead` then `UpdateWrite`.
  * `PatchWrite` then `PatchFetch`. `PatchWrite` is the UPDATE, with `PatchHits` as its WHERE clause; a miss is answered 409. `PatchFetch` is `fetchByID`, a separate SELECT without the `deleted_at` and `user_id` filters (`Fetched`). It answers 200, or 500 when the SELECT fails: the row was erased, or the query itself failed (`readOk` FALSE), after the UPDATE committed. An error of the UPDATE itself is left out, like the other SQL errors that change nothing.
  * `DeleteRead` then `DeleteWrite`, hard or soft.
  * `BulkDelete`, hard or soft, as the row function `BulkDeleted`.
* **Guards.** They are the SQL WHERE clauses: `InTable` is what an UPDATE/DELETE by id can hit, and `Visible` is what `GetByID` returns.
* **History variables.**
  * `commits`: per row, the committed version-bumping writes.
  * `reported`: the ids a create call answered with.
  * `answer`: per worker, the status (`HandleError` of the repository's error) and id of its last PATCH or DELETE.
* **Refinement.** `ProfileLifecycle.tla` is the abstract specification: one variable, each profile's state. Its only moves are `absent -> live -> deleted -> erased` and `live -> erased`, and a bulk call may move several profiles at once. Field edits are stutters. `ProfileStore` instantiates it with the mapping `state <- [p \in Profiles |-> row[p].state]`. `LifecycleSpec` (the abstract `Spec`) is checked as a PROPERTY.

### `ProfilePages.tla`: listing profiles page by page

* **State.** `rows` (the user's live profiles with their `created_at` tick), `now`, and `walk`, a client that follows `next_cursor`.
* **Actions.**
  * `Create`: a profile stamped with `time.Now()` (`Service.Create`, and each profile of `Service.BulkCreate`).
  * `Tick`.
  * `ListFirst(q)` and `ListNext`: `Handler.list` with `?limit=q` (through `response.GetLimit`), then with the cursor.
* **Pages.** `Pages` is the SELECT of `ProfileRepository.List`: the rows before the cursor, `ORDER BY created_at DESC LIMIT`. Rows with equal `created_at` may come in any order.
* **The cursor.** `NextCursor` formats the last row's time as RFC3339, which keeps whole seconds. The next request parses it back to the start of that second.
* **Bounds.** Exact ties are ruled out: each profile gets its own tick. So the skip found does not depend on ties.

### `UserAccount.tla`: user service and repository

* **State.** The rows with one e-mail address.
* **Actions.**
  * `RegisterCheck` (GetByEmail; a failed query also goes on) then `RegisterCreate` (`Insert`), which also draws the outcome of `IssueTokens` from `IssueOutcomes` (`err` stands for a Redis refresh-store failure).
  * `LoginRead` then `LoginWrite`: a full-row UPDATE with `last_login_at`.
  * `UpdateMeRead` then `UpdateMeWrite`: a full-row UPDATE with the new name.
* **The schema.** `isDuplicate` turns a unique-violation error into `ErrDuplicateEmail`, which presumes a unique index on `email`. No schema in the repository defines one, so `emailIndex` is chosen in `Init`. With the index, a second INSERT of the e-mail fails (`Committed`); without it, every INSERT commits.
* **History variables.** `acked` is the name the last UpdateMe answered with; `answered` holds the ids a Register answered with tokens.

## Runs

The runs listed in `PROJECT.json`:

| Run | cfg | Expect | What it shows |
|---|---|---|---|
| jwt_redis | MCJwtManagerRedis | pass | With Redis failing or losing replies, TTL expiry and a restart: a failed rotation never costs the caller its session (`SessionSurvivesFailedRotation`); the middleware accepts only access tokens when the secrets are distinct (`AuthAcceptsOnlyAccessTokens`). 64,294 states. |
| jwt_rotation_race | MCJwtRotationRace | violation | Two concurrent refreshes of one token both succeed (in-memory store; the Redis commands interleave the same way). |
| jwt_shared_secret | MCJwtSharedSecret | violation | With one `JWT_SECRET`, a refresh token is accepted as a bearer. |
| memory_limiter | MCMemoryLimiter | pass | `remaining` in range; a key quiet for a minute is allowed. |
| memory_limiter_rate | MCMemoryLimiterRate | violation | Denied calls re-credit elapsed time; more calls pass than the rate allows. |
| rate_limit_redis | MCRateLimitGate | pass | `RateLimit` over the two Redis limiters, with two concurrent requests, DECR on a missing key answered either way, failing commands and expiry. A request is rejected exactly when a limiter it asked denied without error, and every storage error fails open (`ThrottleDecision`). Both limiters report `remaining` in range. |
| redis_limiter_decr | MCRedisLimiterDecr | violation | Under weakly fair key expiry, real DECR creates the key without a TTL. The window never ends (`WindowEnds`), so the key is denied forever. |
| profile_store_concurrent | MCProfileStoreConcurrent | pass | The table implements the abstract lifecycle of `ProfileLifecycle` (`LifecycleSpec`). An Update or Delete racing a delete never brings the row back. About 570,000 states. |
| profile_update_race | MCProfileUpdateRace | violation | An Update that read a version writes over a PATCH committed since (no version in the UPDATE); two Updates of one version both succeed the same way. |
| user_account_concurrent | MCUserAccountConcurrent | pass | Concurrent Registers, Logins and UpdateMe calls, with or without a unique e-mail index and with IssueTokens that may fail: the table keeps one row per id (`TypeOK`), so no full-row write inserts a row. |
| user_login_race | MCUserLoginRace | violation | A Login's stale full-row write undoes a concurrent UpdateMe. |
| request_gate | MCRequestGate | pass | Two concurrent requests from two addresses, with a user token and an admin token. No user gets past `RateLimit` more often than their limiter allowed (`UserThrottled`); the log buffer holds the latest lines (`LogHoldsLatest`). |

Every property of every passing run has a mutant in `PROJECT.json`. A mutant
is a plausible bug in the modelled code, under which TLC finds that property
violated. Examples: revoking before persisting, parsing access tokens with the
refresh key, a missing refill cap, an upsert instead of an UPDATE, a login
row INSERTed instead of updated, `UserIDFromContext` missing the id, and
`>` for `>=` in `LogBuffer.Append`.

### Further configurations

These configurations check the same modules for the questions below. Each
result is what TLC reports for it.

| cfg (module) | Result | What it shows |
|---|---|---|
| MCJwtManagerMemory (MCJwtManager) | pass | The jwt_redis safety properties with the in-memory store, whose entries a restart loses, and a restart that may change the secret version. |
| MCJwtRevokeFails (MCJwtManager) | `RotationSingleUse` violated | A failed DEL, whose error `RefreshTokens` discards, lets the old token rotate a second time, even with one worker. |
| MCRedisLimiter (RedisLimiter) | pass | One limiter alone, with two concurrent requests, errors and expiry: `remaining` stays in range. |
| MCRedisLimiterSerial (RedisLimiter) | pass | One request at a time, DECR answering redis.Nil: a window admits at most `limit` calls (`WindowQuota`), and under fair expiry every window ends (`WindowEnds`). Real Redis never answers redis.Nil to DECR (finding 4), so the lazy-init SET and its races are not reachable with the code as it stands; this configuration shows only what the code intends. |
| MCProfileStore (MCProfileStore) | pass | One request at a time, the version counts the successful writes (`NoLostUpdate`). |
| MCProfileDeletedWrite (MCProfileStore) | `DeletedStaysDeleted` violated | Patch writes a soft-deleted row (no `deleted_at` filter). |
| MCProfileBulkCreate (MCProfileStore) | `ReportedCreatedExists` violated | BulkCreate reports rolled-back profiles as created. |
| MCProfileDeleteAnswer (MCProfileStore) | `NotFoundMeansGone` violated | A hard DELETE whose version check passed races a Patch. The DELETE matches no row, and the client is answered 404 for a live profile. |
| MCUserRegisterFails (MCUserAccount) | `AccountOnlyIfAnswered` violated | IssueTokens fails after Register's INSERT: the account exists, the client was answered an error, and a retry gets `ErrDuplicateEmail`. |
| MCProfilePages (ProfilePages) | `CursorWalkComplete` violated | Two profiles created in one second, `?limit=1`: the second page asks for `created_at <` the start of that second and misses the older profile. |
| MCUserAccount (MCUserAccount) | pass | One request at a time, the name UpdateMe answered with stays stored across Logins (`UpdatedNameKept`). |

### Findings

From the runs:

1. **Refresh rotation is not single-use under concurrency** (`jwt_manager.go:64`). The check, the store of the new entry and the delete of the old one are separate steps: Load, Store and Delete on the in-memory store the run uses, GET, SET and DEL on Redis. Spec §8 and §5 say rotation succeeds once and a racing caller sees `TokenRevoked`.
2. **Refresh tokens pass as bearer tokens when the secrets are shared** (`jwt_manager.go:84`, `config.go:139`). `ParseAccessToken` never checks `TokenType`.
3. **The memory limiter double-credits refill on deny** (`limiter.go:58`, `:64`).
4. **The Redis limiter relies on DECR returning redis.Nil** (`limiter.go:83`). Real Redis creates the key without a TTL. Even with Redis expiring keys, the window never ends and every later call is denied.
5. **Profile Update loses concurrent updates** (`profile_repository.go:59`). There is no version in its WHERE clause. TLC's trace is an Update's read, a PATCH that commits, then the Update's write over it.
6. **Login's full-row write undoes a concurrent UpdateMe** (`user/service.go:127`).

From the further configurations:

7. **A failed revoke is ignored** (`jwt_manager.go:78`). Spec §9's "best-effort" retire contradicts §8's single use.
8. **Profile writes reach soft-deleted rows** (`profile_repository.go:81`).
9. **BulkCreate reports failed inserts as created** (`profile/service.go:88`).
10. **Following `next_cursor` skips profiles** (`profile/handler.go:117`). The cursor drops the fraction of the second, and the next page filters on `created_at <` it. Profiles created earlier in the same second as a page's last row are never listed; a BulkCreate makes that common.
11. **A failed Register leaves the account behind** (`user/service.go:99`). `repo.Create` commits the row before `IssueTokens`. When issuing fails (the Redis refresh store errors), the error is the answer but the row stays. The client's retry is answered `ErrDuplicateEmail`; only a Login recovers.
12. **A hard delete that loses a race answers 404** (`profile_repository.go:104`). `Service.Delete` checks the version after `GetByID`. A concurrent Patch then bumps it, so the `DELETE ... AND version = ?` matches no row. The repository reports zero rows as `ErrNotFound` whether the row is gone or only changed, and the client is told "profile not found" about a live profile. A soft delete in the same race gets the right 409.

## Bounds and why they are enough

* **JwtManager.**
  * 3 jti values: one issue plus two rotations, or two concurrent rotations of one token.
  * 2 workers: the smallest number that races.
  * 1 user: users never share tokens.
  * 1 restart, so a memory wipe and a rotation cut short happen. MCJwtManagerMemory gives the restart 2 secret versions to choose from.
  * jwt_redis has one secret version. No property of that run reads the version: a change only stops tokens from parsing. The liveness check has no symmetry, and with two versions it grows to 126,601 states and about 1.5 minutes.
  * With 4 jti values the Redis run grows several times larger, out of reach of the liveness check.
* **MemoryLimiter.**
  * Limit 2, burst 1, 4 ticks per minute, 8 ticks: two full minutes.
  * This reaches the cap, a long pause and repeated denies.
* **RedisLimiter.**
  * Limit 2, two windows, 4 to 8 requests per window: enough to exhaust a window and race its creation.
* **RateLimitGate.**
  * Limit 2 (read through `config.Load` from `RATE_LIMIT_PER_MIN=2`), 3 commands per key, one expiry per key, 4 requests, 2 in flight.
  * This is enough for the IP limiter to deny. A failed IP call lets a third request reach the user limiter, which can then deny as well. Both lazy-init paths and both error paths happen on each key.
  * With 5 requests the run grows to 342,494 states and 82 s.
* **ProfileStore.**
  * 2 profiles, so the bulk calls act on sets.
  * Versions up to 3 or 4: a row can go through create, two writes and a delete.
  * 1 worker for sequential correctness, 2 for the races.
* **RequestGate.**
  * 2 addresses and 2 users, one of them an admin, so a user can come from two addresses and both role checks happen.
  * Limit 1, burst 0, one tick per minute, 2 ticks: both limiters deny, and refill.
  * 3 requests, 2 in flight, and a log capacity of 2, so the buffer wraps. This takes 36 s; with 4 requests the run takes 3 minutes.
* **UserAccount.**
  * 2 ids, so a duplicate account is possible.
  * 2 names, so a reverted name is visible.
  * Up to 14 writes for one worker and 4 for two.

Each bounded module has a `Done` step that stutters once the bound is used
up. Deadlock is therefore checked everywhere, and it means a state where
nothing but the bound stops progress.

## Fairness and liveness

Requests are driven by clients, so no request action is fair: a client may
stop at any point. Restarts are not fair either. What does happen without
any request is the passing of time:

* **JwtManager.** No fairness. Every refresh entry Redis stores has a TTL, so under fair expiry it leaves the store whatever the requests do; that says only that SET is given a TTL, and is not checked.
* **RedisLimiter.** `FairSpec` adds `WF_vars(Expire)`, the key's TTL. `WindowEnds` holds when DECR answers redis.Nil and fails with real DECR semantics (redis_limiter_decr).
* **MemoryLimiter.** The bucket's refill is a function of the clock. Its guarantee is an action property (`AllowedAfterQuietMinute`), so no fairness is needed.

## Not modelled

The handlers' request binding and status codes, the configuration settings
no model reads (CORS, TLS, DSNs, pools, TTLs, Sentry, Prometheus;
`splitAndTrim`, `getFloat`), connection setup, zap logging, metrics, Sentry, CORS, the OAuth stub, the JSON
envelopes and the demo seed script are left out. They hold no state that the
properties depend on, or they are pure I/O; `PROJECT.json` lists each one with
its reason. The Redis backend of `RateLimit` is composed separately
(`RateLimitGate`), without the auth and logging steps of `RequestGate`. Those
steps do not depend on the backend.
A `RATE_LIMIT_PER_MIN` of 0 or less passes `Config.validate` but is outside
the limiters' `ASSUME` (a hazard in `PROJECT.json`). Reads
(`Get`, `GetMe`, the user `List`) change nothing and appear only as the read halves of
the read-then-write calls; the profile `List` is `ProfilePages`.

## Plan for the next steps

1. **Headers on fail-open.** Spec §7 says a storage error is fail-open "with zero remaining reported". `RateLimit` sets no rate-limit header at all on an error. A header model would show the difference, but header formatting is left out so far.
2. **A session refinement for `JwtManager`.** A refinement is now checked for the profile table (`ProfileLifecycle`). For the refresh store, an abstract store whose entries are only written once and then deleted lets every concrete step through, so it would check nothing. A useful abstract spec has to state rotation as one atomic replace. `JwtManager` then fails to refine it in exactly the races `jwt_rotation_race` already shows, so it waits for a configuration where the two can be told apart.
3. **Secret-version rollover.** A property that tokens of an older `SecretVersion` never parse after a bump, as spec §8 requires.
4. **User refresh.** `Service.Refresh` followed by `GetByID`, and user deletion, if a later version of the code adds it.
