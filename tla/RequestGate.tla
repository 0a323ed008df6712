----------------------------- MODULE RequestGate -----------------------------
(***************************************************************************)
(* The middleware chain every request runs through (app.NewRouter,         *)
(* internal/app/router.go): OptionalAuth attaches the claims of a bearer   *)
(* token that parses; RateLimit asks the per-IP limiter, then, when the    *)
(* context holds a user id, the per-user limiter, and answers 429 on a     *)
(* deny; RequestLogger runs the route and appends a line to the LogBuffer  *)
(* read by /debug/logs.  Routes of the authMW groups (/users/me,           *)
(* /profiles) need an access token; those of the authMW+adminMW groups     *)
(* (/admin/users, /debug/logs) also need the admin role.                   *)
(*                                                                         *)
(* Both limiters are the in-memory backend main.go builds when Redis is    *)
(* not configured: two instances of MemoryLimiter over one clock.  A       *)
(* request is four steps: OptionalAuth, the IP limiter call, the user      *)
(* limiter call (each Allow runs under its own mutex), and the route with  *)
(* its log append; other requests run between them.  A token is "none"    *)
(* (no header, not "Bearer x", or a token ParseAccessToken rejects) or the *)
(* access token of a user; which tokens parse is JwtManager's concern.     *)
(* The route's own work is the domain modules'; here a route reached is    *)
(* status 200.                                                             *)
(***************************************************************************)
EXTENDS Naturals, Sequences, SequencesExt

CONSTANTS
    Limit, Burst, TicksPerMinute, MaxTime, NONE,  \* as in MemoryLimiter
    IPs,          \* client addresses (c.ClientIP())
    Users,        \* user ids with an access token
    Admins,       \* users whose token carries role "admin"
    Workers,      \* requests in flight at once
    MaxRequests,  \* bound on requests
    LogLimit      \* cfg.Diagnostics.MaxLogLines

ASSUME Admins \subseteq Users /\ MaxRequests \in Nat /\ LogLimit \in Int

VARIABLES
    ipStore, ipResp, ipAllowed, ipFirst,      \* the IP limiter
    usrStore, usrResp, usrAllowed, usrFirst,  \* the user limiter
    now,
    req,        \* per worker: the request in flight and its stage
    logData,    \* LogBuffer.data
    arrivals,   \* requests so far
    logged,     \* every line appended, in order (history)
    passed      \* per user: requests with the user's token past RateLimit

ipVars  == <<ipStore, ipResp, ipAllowed, ipFirst>>
usrVars == <<usrStore, usrResp, usrAllowed, usrFirst>>
vars == <<ipVars, usrVars, now, req, logData, arrivals, logged, passed>>

Ip  == INSTANCE MemoryLimiter WITH Keys <- IPs, store <- ipStore,
         last_resp <- ipResp, allowed <- ipAllowed, first <- ipFirst
Usr == INSTANCE MemoryLimiter WITH Keys <- Users, store <- usrStore,
         last_resp <- usrResp, allowed <- usrAllowed, first <- usrFirst

Routes == {"public", "user", "admin"}

(* extractBearer then ParseAccessToken: what a request can present.        *)
Bearers == {"none"} \cup Users

Status == {200, 401, 403}

IdleReq == [st |-> "idle", ip |-> CHOOSE a \in IPs : TRUE, bearer |-> "none",
            route |-> "public", ctx |-> NONE]

(* NewLogBuffer: a limit <= 0 becomes 100.                                 *)
LogCap == IF LogLimit <= 0 THEN 100 ELSE LogLimit

(* Mutant: the oldest line is dropped only once the buffer is over cap.    *)
LogAppendOverfull(d, e) == Append(IF Len(d) > LogCap THEN Tail(d) ELSE d, e)

(* LogBuffer.Append: at cap, drop data[0]; then append.                    *)
LogAppend(d, e) == Append(IF Len(d) >= LogCap THEN Tail(d) ELSE d, e)

(* Mutant: user_id is set whether or not ParseAccessToken succeeded.      *)
OptionalAuthUnchecked(b) == b

(* OptionalAuth: the user_id the context gets from the bearer, if any.     *)
OptionalAuth(b) == IF b \in Users THEN b ELSE NONE

(* Mutant: user_id is set as a string; the uuid.UUID assertion fails.      *)
UserIDFromContextString(ctx) == NONE

(* response.UserIDFromContext: the id as a string, "" when unset.          *)
UserIDFromContext(ctx) == ctx

(* AuthMiddleware: a bearer that parses as an access token, or 401.        *)
AuthMiddleware(b) == b \in Users

(* AdminOnly: user_role set and equal to "admin", or 403.                  *)
AdminOnly(b) == b \in Users /\ b \in Admins

(* The status the route group's middlewares leave: public routes have     *)
(* none, authMW groups AuthMiddleware, admin groups AuthMiddleware then    *)
(* AdminOnly.                                                              *)
RouteStatus(b, r) ==
    CASE r = "public"                       -> 200
      [] ~AuthMiddleware(b)                 -> 401
      [] r = "admin" /\ ~AdminOnly(b)       -> 403
      [] OTHER                              -> 200

Init ==
    /\ Ip!Init /\ Usr!Init
    /\ req = [w \in Workers |-> IdleReq]
    /\ logData = <<>>
    /\ arrivals = 0
    /\ logged = <<>>
    /\ passed = [u \in Users |-> 0]

(* A request arrives; OptionalAuth sets the context from its bearer.       *)
Arrive(w, a, b, r) ==
    /\ req[w].st = "idle"
    /\ arrivals < MaxRequests
    /\ req' = [req EXCEPT ![w] = [st |-> "ip", ip |-> a, bearer |-> b,
                                  route |-> r, ctx |-> OptionalAuth(b)]]
    /\ arrivals' = arrivals + 1
    /\ UNCHANGED <<ipVars, usrVars, now, logData, logged, passed>>

(* RateLimit, IP half: ipLimiter.Allow("ip:"+clientIP); a deny is a 429    *)
(* and ends the request before RequestLogger.                              *)
IpCheck(w) ==
    /\ req[w].st = "ip"
    /\ Ip!Allow(req[w].ip)
    /\ req' = [req EXCEPT ![w] = IF ipResp'[req[w].ip].allowed
                                   THEN [@ EXCEPT !.st = "user"]
                                   ELSE IdleReq]
    /\ UNCHANGED <<usrVars, logData, arrivals, logged, passed>>

(* RateLimit, user half: with a user id in the context,                   *)
(* userLimiter.Allow("user:"+id); a deny is a 429.                         *)
UserCheck(w) ==
    /\ req[w].st = "user"
    /\ LET u == UserIDFromContext(req[w].ctx) IN
         \/ /\ u = NONE
            /\ req' = [req EXCEPT ![w].st = "route"]
            /\ UNCHANGED usrVars
         \/ /\ u # NONE
            /\ Usr!Allow(u)
            /\ req' = [req EXCEPT ![w] = IF usrResp'[u].allowed
                                           THEN [@ EXCEPT !.st = "route"]
                                           ELSE IdleReq]
    /\ UNCHANGED <<ipVars, now, logData, arrivals, logged, passed>>

(* RequestLogger: c.Next() runs the route's middlewares and handler, then  *)
(* the "METHOD path -> status" line is appended to the LogBuffer.          *)
Handle(w) ==
    /\ req[w].st = "route"
    /\ LET b == req[w].bearer
           r == req[w].route
           line == [route |-> r, status |-> RouteStatus(b, r)]
       IN  /\ logData' = LogAppend(logData, line)
           /\ logged' = Append(logged, line)
           /\ passed' = IF b \in Users THEN [passed EXCEPT ![b] = @ + 1]
                                       ELSE passed
    /\ req' = [req EXCEPT ![w] = IdleReq]
    /\ UNCHANGED <<ipVars, usrVars, now, arrivals>>

(* The clock both limiters read advances one tick.                        *)
Tick ==
    /\ now < MaxTime
    /\ now' = now + 1
    /\ UNCHANGED <<ipVars, usrVars, req, logData, arrivals, logged, passed>>

(* All requests are answered and the clock bound is reached.              *)
Done ==
    /\ \A w \in Workers : req[w].st = "idle"
    /\ arrivals = MaxRequests
    /\ now = MaxTime
    /\ UNCHANGED vars

Next ==
    \/ \E w \in Workers :
         \/ \E a \in IPs, b \in Bearers, r \in Routes : Arrive(w, a, b, r)
         \/ IpCheck(w)
         \/ UserCheck(w)
         \/ Handle(w)
    \/ Tick
    \/ Done

Spec == Init /\ [][Next]_vars

-----------------------------------------------------------------------------

TypeOK ==
    /\ Ip!TypeOK /\ Usr!TypeOK
    /\ req \in [Workers -> [st: {"idle", "ip", "user", "route"}, ip: IPs,
                            bearer: Bearers, route: Routes,
                            ctx: Users \cup {NONE}]]
    /\ logData \in Seq([route: Routes, status: Status])
    /\ arrivals \in 0..MaxRequests
    /\ passed \in [Users -> 0..MaxRequests]

(* Spec 2 control flow: a request with a user's token gets past RateLimit  *)
(* only when that user's limiter allowed it, so, whatever IPs a user's     *)
(* requests come from, they never outnumber the user limiter's allows.     *)
(* Hinges on OptionalAuth and UserIDFromContext agreeing on the user_id.   *)
UserThrottled ==
    \A u \in Users : passed[u] <= usrAllowed[u]

(* /debug/logs shows exactly the most recent min(cap, n) lines appended,   *)
(* oldest first, however many requests have been logged.                   *)
LogHoldsLatest ==
    /\ IsSuffix(logData, logged)
    /\ Len(logData) = Min({LogCap, Len(logged)})

=============================================================================
