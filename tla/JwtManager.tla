----------------------------- MODULE JwtManager -----------------------------
(***************************************************************************)
(* The token lifecycle manager of internal/infrastructure/auth/            *)
(* jwt_manager.go together with the refresh store it writes (Redis when    *)
(* Manager.redis is set, the process-local Manager.memoryTokens otherwise) *)
(* and its two callers that decide what a token is good for:               *)
(* user.Service.Refresh (POST /auth/refresh) and middleware.AuthMiddleware.*)
(*                                                                         *)
(* A token string is abstracted to the claims it carries and the key it    *)
(* was signed with: HS256 over the claims makes two strings equal exactly  *)
(* when these are.  The access token of a pair carries the jti of its      *)
(* refresh token (the code draws a second uuid; nothing tells them apart). *)
(* Every request runs on its own goroutine; a worker is one such request,  *)
(* and a request that touches the store more than once is split into one  *)
(* action per store command, since other requests interleave between them. *)
(***************************************************************************)
EXTENDS Naturals, FiniteSets

CONSTANTS
    Users,          \* user ids that log in
    Ids,            \* jti values uuid.NewString returns in one behaviour
    Workers,        \* request goroutines that may be in flight at once
    Versions,       \* values cfg.Auth.SecretVersion takes across restarts
    InitVersion,    \* cfg.Auth.SecretVersion at start
    AccessSecret,   \* cfg.Auth.AccessSecret
    RefreshSecret,  \* cfg.Auth.RefreshSecret (the same as AccessSecret when
                    \* only JWT_SECRET is set, config.go:139-140)
    Backend,        \* "redis" when Manager.redis # nil, else "memory"
    MaxRestarts,    \* bound on process restarts
    MISSING         \* an absent store key / no token

ASSUME Backend \in {"redis", "memory"}
ASSUME InitVersion \in Versions
ASSUME MaxRestarts \in Nat

VARIABLES
    store,          \* "refresh:"+jti -> token string (Redis key or sync.Map)
    secretVersion,  \* cfg.Auth.SecretVersion of the running process
    minted,         \* every token signed so far
    issued,         \* every token returned to a caller; callers may replay any
    expired,        \* tokens whose ExpiresAt has passed
    wiped,          \* tokens whose store entry a restart of the process lost
    pc,             \* per worker: progress of its request
    authed,         \* types of the bearer tokens the auth middleware accepted
    rotations,      \* [jti -> successful RefreshTokens that presented it]
    restarts

vars == <<store, secretVersion, minted, issued, expired, wiped, pc, authed,
          rotations, restarts>>

Secrets == {AccessSecret, RefreshSecret}

Token == [id: Ids, user: Users, type: {"access", "refresh"},
          secret: Secrets, sv: Versions]

Idle == [st |-> "idle", old |-> MISSING, new |-> MISSING]

(* Outcome of one store command.  The in-memory map never fails.  A Redis  *)
(* command may fail before it reaches the server ("err") or be applied by  *)
(* the server while the client sees an error, a timeout or a cancelled     *)
(* context ("lost").                                                       *)
WriteOutcomes == IF Backend = "redis" THEN {"ok", "err", "lost"} ELSE {"ok"}

Applied(o) == o \in {"ok", "lost"}

FreshIds == Ids \ {t.id : t \in minted}

(* issueAccess / issueRefresh: claims signed with the configured secret.   *)
AccessFor(u, id) ==
    [id |-> id, user |-> u, type |-> "access", secret |-> AccessSecret,
     sv |-> secretVersion]

RefreshFor(u, id) ==
    [id |-> id, user |-> u, type |-> "refresh", secret |-> RefreshSecret,
     sv |-> secretVersion]

(* Mutant: the key function hands back no key check (signature unverified).*)
ParsesUnverified(t, secret) ==
    /\ t \notin expired
    /\ t.sv = secretVersion

(* Manager.parse: jwt.ParseWithClaims checks the HMAC under secret and the *)
(* expiry, then the version tag must equal cfg.SecretVersion.  The token   *)
(* type is not checked here.                                               *)
Parses(t, secret) ==
    /\ t.secret = secret
    /\ t \notin expired
    /\ t.sv = secretVersion

(* Mutant: persistRefresh is handed the access token string.              *)
PersistAccess(r, o) ==
    IF Applied(o)
      THEN [store EXCEPT ![r.id] = [r EXCEPT !.type = "access",
                                             !.secret = AccessSecret]]
      ELSE store

(* persistRefresh: SET / Store of "refresh:"+jti.                          *)
Persist(r, o) == IF Applied(o) THEN [store EXCEPT ![r.id] = r] ELSE store

(* revoke: DEL / Delete of "refresh:"+jti.                                 *)
Revoke(t, o) == IF Applied(o) THEN [store EXCEPT ![t.id] = MISSING] ELSE store

(* ExtractUserID: parse under the refresh secret, no store lookup.         *)
ExtractUserID(t) == Parses(t, RefreshSecret)

(* RefreshTokens: parse under the refresh secret, then the subject and    *)
(* type check.                                                             *)
RefreshClaimsOK(t) ==
    /\ Parses(t, RefreshSecret)
    /\ t.type = "refresh"

(* ensureRefreshValid: the stored value equals the presented token.        *)
RefreshAccepted(t) ==
    /\ RefreshClaimsOK(t)
    /\ store[t.id] = t

-----------------------------------------------------------------------------

Init ==
    /\ store = [i \in Ids |-> MISSING]
    /\ secretVersion = InitVersion
    /\ minted = {}
    /\ issued = {}
    /\ expired = {}
    /\ wiped = {}
    /\ pc = [w \in Workers |-> Idle]
    /\ authed = {}
    /\ rotations = [i \in Ids |-> 0]
    /\ restarts = 0

(* IssueTokens (Register, Login): sign both tokens, persist the refresh    *)
(* entry, return the pair only if persisting reported success.             *)
IssueTokens(w, u) ==
    /\ pc[w].st = "idle"
    /\ \E id \in FreshIds, o \in WriteOutcomes :
         LET a == AccessFor(u, id)
             r == RefreshFor(u, id)
         IN  /\ minted' = minted \cup {a, r}
             /\ store' = Persist(r, o)
             /\ issued' = IF o = "ok" THEN issued \cup {a, r} ELSE issued
    /\ UNCHANGED <<secretVersion, expired, wiped, pc, authed, rotations,
                   restarts>>

(* Service.Refresh up to and including ensureRefreshValid.  ExtractUserID  *)
(* and RefreshTokens parse the same string under the same secret, and the  *)
(* user is loaded by the subject it carries, so the subject check cannot   *)
(* fail.  A failure (ErrInvalidToken, also on a GetByID or GET I/O error)  *)
(* ends the request without a state change: a stuttering step.            *)
RefreshCheck(w, t) ==
    /\ pc[w].st = "idle"
    /\ ExtractUserID(t)
    /\ RefreshAccepted(t)
    /\ pc' = [pc EXCEPT ![w] = [st |-> "checked", old |-> t, new |-> MISSING]]
    /\ UNCHANGED <<store, secretVersion, minted, issued, expired, wiped,
                   authed, rotations, restarts>>

(* Mutant: the old entry is deleted before the new one is persisted.       *)
RefreshPersistRevokeFirst(w) ==
    /\ pc[w].st = "checked"
    /\ \E id \in FreshIds, o \in WriteOutcomes :
         LET u == pc[w].old.user
             r == RefreshFor(u, id)
             s0 == [store EXCEPT ![pc[w].old.id] = MISSING]
         IN  /\ minted' = minted \cup {AccessFor(u, id), r}
             /\ store' = IF Applied(o) THEN [s0 EXCEPT ![r.id] = r] ELSE s0
             /\ IF o = "ok"
                  THEN pc' = [pc EXCEPT ![w] = [@ EXCEPT !.st = "persisted",
                                                         !.new = r]]
                  ELSE pc' = [pc EXCEPT ![w] = Idle]
    /\ UNCHANGED <<secretVersion, issued, expired, wiped, authed, rotations,
                   restarts>>

(* RefreshTokens after the check: issueAccess, issueRefresh and            *)
(* persistRefresh of the new entry; an error ends the request.             *)
RefreshPersist(w) ==
    /\ pc[w].st = "checked"
    /\ \E id \in FreshIds, o \in WriteOutcomes :
         LET u == pc[w].old.user
             r == RefreshFor(u, id)
         IN  /\ minted' = minted \cup {AccessFor(u, id), r}
             /\ store' = Persist(r, o)
             /\ IF o = "ok"
                  THEN pc' = [pc EXCEPT ![w] = [@ EXCEPT !.st = "persisted",
                                                         !.new = r]]
                  ELSE pc' = [pc EXCEPT ![w] = Idle]
    /\ UNCHANGED <<secretVersion, issued, expired, wiped, authed, rotations,
                   restarts>>

(* Mutant: revoke is called with the new claims instead of the old ones.   *)
RefreshRevokeNew(w) ==
    /\ pc[w].st = "persisted"
    /\ \E o \in WriteOutcomes : store' = Revoke(pc[w].new, o)
    /\ issued' = issued \cup {pc[w].new, AccessFor(pc[w].new.user, pc[w].new.id)}
    /\ rotations' = [rotations EXCEPT ![pc[w].old.id] = @ + 1]
    /\ pc' = [pc EXCEPT ![w] = Idle]
    /\ UNCHANGED <<secretVersion, minted, expired, wiped, authed, restarts>>

(* RefreshTokens, last step: `_ = m.revoke(ctx, claims)` deletes the old   *)
(* entry, its error is discarded, and the new pair is returned.            *)
RefreshRevoke(w) ==
    /\ pc[w].st = "persisted"
    /\ \E o \in WriteOutcomes : store' = Revoke(pc[w].old, o)
    /\ issued' = issued \cup {pc[w].new, AccessFor(pc[w].new.user, pc[w].new.id)}
    /\ rotations' = [rotations EXCEPT ![pc[w].old.id] = @ + 1]
    /\ pc' = [pc EXCEPT ![w] = Idle]
    /\ UNCHANGED <<secretVersion, minted, expired, wiped, authed, restarts>>

(* Mutant: ParseAccessToken parses under the refresh secret.               *)
ValidateAccessRefreshKey(w, t) ==
    /\ pc[w].st = "idle"
    /\ Parses(t, RefreshSecret)
    /\ authed' = authed \cup {t.type}
    /\ UNCHANGED <<store, secretVersion, minted, issued, expired, wiped, pc,
                   rotations, restarts>>

(* AuthMiddleware / OptionalAuth: ParseAccessToken is parse under the      *)
(* access secret; a bearer that parses sets user_id and user_role.  A     *)
(* rejected bearer changes nothing.                                        *)
ValidateAccess(w, t) ==
    /\ pc[w].st = "idle"
    /\ Parses(t, AccessSecret)
    /\ authed' = authed \cup {t.type}
    /\ UNCHANGED <<store, secretVersion, minted, issued, expired, wiped, pc,
                   rotations, restarts>>

(* The ExpiresAt of a refresh token passes.  Access-token expiry is left   *)
(* out: no property depends on it.                                         *)
JwtExpire(t) ==
    /\ t \in minted \ expired
    /\ t.type = "refresh"
    /\ expired' = expired \cup {t}
    /\ UNCHANGED <<store, secretVersion, minted, issued, wiped, pc, authed,
                   rotations, restarts>>

(* Redis drops a key when the RefreshTokenTTL given to SET runs out; the   *)
(* TTL starts at SET, after the token's ExpiresAt was fixed, so the key    *)
(* outlives the token.  The in-memory map never drops an entry.            *)
KeyExpire(i) ==
    /\ Backend = "redis"
    /\ store[i] \in expired
    /\ store' = [store EXCEPT ![i] = MISSING]
    /\ UNCHANGED <<secretVersion, minted, issued, expired, wiped, pc, authed,
                   rotations, restarts>>

(* The process stops and starts again, possibly with another               *)
(* JWT_SECRET_VERSION: in-flight requests die, the in-memory map is lost,  *)
(* Redis keeps its keys.                                                   *)
Restart ==
    /\ restarts < MaxRestarts
    /\ restarts' = restarts + 1
    /\ \E v \in Versions : secretVersion' = v
    /\ pc' = [w \in Workers |-> Idle]
    /\ IF Backend = "memory"
         THEN /\ store' = [i \in Ids |-> MISSING]
              /\ wiped' = wiped \cup minted
         ELSE UNCHANGED <<store, wiped>>
    /\ UNCHANGED <<minted, issued, expired, authed, rotations>>

(* Every jti of the bound Ids is used: the behaviour may stop here.        *)
Done ==
    /\ FreshIds = {}
    /\ UNCHANGED vars

Next ==
    \/ \E w \in Workers :
         \/ \E u \in Users : IssueTokens(w, u)
         \/ \E t \in issued : RefreshCheck(w, t)
         \/ \E t \in issued : ValidateAccess(w, t)
         \/ RefreshPersist(w)
         \/ RefreshRevoke(w)
    \/ \E t \in minted : JwtExpire(t)
    \/ \E i \in Ids : KeyExpire(i)
    \/ Restart
    \/ Done

Spec == Init /\ [][Next]_vars

-----------------------------------------------------------------------------

TypeOK ==
    /\ store \in [Ids -> {t \in Token : t.type = "refresh"} \cup {MISSING}]
    /\ \A i \in Ids : store[i] # MISSING => store[i].id = i
    /\ secretVersion \in Versions
    /\ minted \subseteq Token
    /\ issued \subseteq minted
    /\ expired \subseteq minted
    /\ wiped \subseteq minted
    /\ pc \in [Workers -> [st: {"idle", "checked", "persisted"},
                           old: Token \cup {MISSING},
                           new: Token \cup {MISSING}]]
    /\ authed \subseteq {"access", "refresh"}
    /\ rotations \in [Ids -> Nat]
    /\ restarts \in 0..MaxRestarts

(* Spec 4.3 step 4: a refresh token a caller holds stays redeemable in the *)
(* store until a rotation that presented it has succeeded, it has expired, *)
(* or an in-memory store lost it on restart.  A rotation that fails, or a  *)
(* process that stops between persistRefresh and revoke, never leaves the  *)
(* caller without a session.                                               *)
SessionSurvivesFailedRotation ==
    \A t \in issued :
        (/\ t.type = "refresh"
         /\ t \notin expired \cup wiped
         /\ rotations[t.id] = 0)
        => store[t.id] = t

(* Spec 3 / 4.3: access tokens are the short-lived credential; a bearer    *)
(* the auth middleware accepts is an access token, never a refresh token.  *)
AuthAcceptsOnlyAccessTokens ==
    authed \subseteq {"access"}

(* Spec 8: a refresh token is single-use: RefreshTokens succeeds at most   *)
(* once for a given presented token.                                       *)
RotationSingleUse ==
    \A i \in Ids : rotations[i] <= 1

=============================================================================
