---------------------------- MODULE RateLimitGate ----------------------------
(***************************************************************************)
(* middleware.RateLimit (internal/app/middleware/ratelimit.go) over the    *)
(* Redis backend main.go builds when Redis answered at start-up: two       *)
(* RedisLimiter instances with the same RequestsPerMinute and the prefixes *)
(* ":ip" and ":user", so their keys never meet.  One client address and    *)
(* one user are modelled, each one counter key; requests of other keys     *)
(* touch other counters and add nothing.                                   *)
(*                                                                         *)
(* A request is a worker: RateLimit calls ipLimiter.Allow, and when the    *)
(* context holds a user id, userLimiter.Allow.  Each Allow is the DECR and *)
(* possibly the SET of RedisLimiter, other requests running between them.  *)
(* An Allow that returns an error is skipped: the request goes on (fail-   *)
(* open).  A deny without error is a 429 and ends the request.  The        *)
(* request's verdicts are kept until the worker takes the next request.    *)
(***************************************************************************)
EXTENDS Naturals

CONSTANTS
    Limit, Workers, DecrOnMissing, MaxRequests, MaxWindows, MISSING,
                     \* as in RedisLimiter, for both limiters
    MaxArrivals      \* bound on requests

ASSUME MaxArrivals \in Nat

VARIABLES
    ipCounter, ipTtl, ipPc, ipInfo, ipRequests, ipAllowed, ipWindows,
    usrCounter, usrTtl, usrPc, usrInfo, usrRequests, usrAllowed, usrWindows,
    req,       \* per worker: stage, whether it has a user, the verdicts
    arrivals   \* requests so far

ipVars  == <<ipCounter, ipTtl, ipPc, ipInfo, ipRequests, ipAllowed, ipWindows>>
usrVars == <<usrCounter, usrTtl, usrPc, usrInfo, usrRequests, usrAllowed,
             usrWindows>>
vars == <<ipVars, usrVars, req, arrivals>>

Ip  == INSTANCE RedisLimiter WITH counter <- ipCounter, ttl <- ipTtl,
         pc <- ipPc, info <- ipInfo, requests <- ipRequests,
         allowed <- ipAllowed, windows <- ipWindows
Usr == INSTANCE RedisLimiter WITH counter <- usrCounter, ttl <- usrTtl,
         pc <- usrPc, info <- usrInfo, requests <- usrRequests,
         allowed <- usrAllowed, windows <- usrWindows

(* What a finished Allow told RateLimit; "none" when it was not called.    *)
Verdicts == {"allow", "deny", "error", "none"}

Verdict(i) == IF i.err THEN "error" ELSE IF i.allowed THEN "allow" ELSE "deny"

Idle == [st |-> "idle", user |-> FALSE, ip |-> "none", usr |-> "none"]

(* One command of a limiter's Allow for worker w.                          *)
IpCommand(w) ==
    \/ Ip!DecrExisting(w) \/ Ip!DecrCreate(w) \/ Ip!DecrNil(w)
    \/ Ip!DecrError(w) \/ Ip!SetWindow(w) \/ Ip!SetWindowError(w)

UsrCommand(w) ==
    \/ Usr!DecrExisting(w) \/ Usr!DecrCreate(w) \/ Usr!DecrNil(w)
    \/ Usr!DecrError(w) \/ Usr!SetWindow(w) \/ Usr!SetWindowError(w)

(* Mutant: info.Allowed is tested before err, so a failed call is a 429.   *)
GoesOnChecksAllowed(v) == v = "allow"

(* RateLimit after an Allow: `if err == nil { ... if !info.Allowed 429 }`: *)
(* the request goes on unless the call answered a deny without error.      *)
GoesOn(v) == v # "deny"

Init ==
    /\ Ip!Init /\ Usr!Init
    /\ req = [w \in Workers |-> Idle]
    /\ arrivals = 0

(* A request arrives, with or without a user id in its context (set by     *)
(* OptionalAuth).  The worker's previous request is forgotten.             *)
Arrive(w, hasUser) ==
    /\ req[w].st \in {"idle", "passed", "rejected"}
    /\ arrivals < MaxArrivals
    /\ req' = [req EXCEPT ![w] = [Idle EXCEPT !.st = "ip", !.user = hasUser]]
    /\ arrivals' = arrivals + 1
    /\ UNCHANGED <<ipVars, usrVars>>

(* ipLimiter.Allow(ctx, "ip:"+clientIP), one Redis command at a time.      *)
IpCall(w) ==
    /\ req[w].st = "ip"
    /\ IpCommand(w)
    /\ req' = IF ipPc'[w] = "set" THEN req
              ELSE LET v == Verdict(ipInfo'[w])
                   IN  [req EXCEPT ![w] =
                          [@ EXCEPT !.ip = v,
                                    !.st = IF ~GoesOn(v) THEN "rejected"
                                           ELSE IF req[w].user THEN "user"
                                           ELSE "passed"]]
    /\ UNCHANGED <<usrVars, arrivals>>

(* userLimiter.Allow(ctx, "user:"+userID), one Redis command at a time.    *)
UsrCall(w) ==
    /\ req[w].st = "user"
    /\ UsrCommand(w)
    /\ req' = IF usrPc'[w] = "set" THEN req
              ELSE LET v == Verdict(usrInfo'[w])
                   IN  [req EXCEPT ![w] =
                          [@ EXCEPT !.usr = v,
                                    !.st = IF GoesOn(v) THEN "passed"
                                                        ELSE "rejected"]]
    /\ UNCHANGED <<ipVars, arrivals>>

IpExpire  == Ip!Expire  /\ UNCHANGED <<usrVars, req, arrivals>>
UsrExpire == Usr!Expire /\ UNCHANGED <<ipVars, req, arrivals>>

(* No request can move and no key can expire within the bounds.            *)
Done ==
    /\ ~ENABLED (\E w \in Workers, u \in BOOLEAN :
                   Arrive(w, u) \/ IpCall(w) \/ UsrCall(w))
    /\ ~ENABLED IpExpire /\ ~ENABLED UsrExpire
    /\ UNCHANGED vars

Next ==
    \/ \E w \in Workers :
         \/ \E u \in BOOLEAN : Arrive(w, u)
         \/ IpCall(w)
         \/ UsrCall(w)
    \/ IpExpire
    \/ UsrExpire
    \/ Done

Spec == Init /\ [][Next]_vars

-----------------------------------------------------------------------------

TypeOK ==
    /\ Ip!TypeOK /\ Usr!TypeOK
    /\ req \in [Workers -> [st: {"idle", "ip", "user", "passed", "rejected"},
                            user: BOOLEAN, ip: Verdicts, usr: Verdicts]]
    /\ arrivals \in 0..MaxArrivals

(* Spec 4.4 and 7: a request is rejected with 429 exactly when a limiter    *)
(* that was asked answered a deny, and a storage error on either limiter   *)
(* lets it through (fail-open), also when the failure is the lazy-init SET *)
(* whose RateLimitInfo says Allowed false.  The user limiter is asked      *)
(* exactly when the request has a user and the IP limiter did not deny.    *)
ThrottleDecision ==
    \A w \in Workers : req[w].st \in {"passed", "rejected"} =>
        LET r == req[w] IN
        /\ r.st = "passed" <=> (r.ip # "deny" /\ r.usr # "deny")
        /\ r.usr # "none" <=> (r.user /\ r.ip # "deny")
        /\ r.ip # "none"

(* Spec 4.4: the remaining count either limiter reports lies in            *)
(* 0..limit-1, whatever the interleaving of the two limiters' commands.    *)
RemainingInRange ==
    Ip!RemainingInRange /\ Usr!RemainingInRange

=============================================================================
