----------------------------- MODULE RedisLimiter -----------------------------
(***************************************************************************)
(* RedisLimiter.Allow of internal/infrastructure/ratelimit/limiter.go: a   *)
(* fixed-window counter in a shared Redis key, decremented by every        *)
(* request of every server instance.  Allow issues DECR and, when DECR     *)
(* answers redis.Nil, a second command (a MULTI/EXEC holding one SET with  *)
(* a one-minute expiry); other requests run between the two, so each is   *)
(* its own action.  One key is modelled: keys do not interact.             *)
(*                                                                         *)
(* DecrOnMissing is the set of answers DECR may give for a missing key:    *)
(* "create" is what Redis does (the key is created at 0, without expiry,   *)
(* and -1 returned); "nil" is the redis.Nil reply that the code's          *)
(* lazy-init branch expects.                                               *)
(***************************************************************************)
EXTENDS Integers

CONSTANTS
    Limit,          \* r.limit (RATE_LIMIT_PER_MIN)
    Workers,        \* requests in flight at once, over all instances
    DecrOnMissing,  \* a non-empty subset of {"create", "nil"}
    MaxRequests,    \* bound on requests within one window
    MaxWindows,     \* bound on window expiries
    MISSING         \* the key does not exist

ASSUME Limit \in Nat \ {0}
ASSUME DecrOnMissing \in SUBSET {"create", "nil"} \ {{}}
ASSUME MaxRequests \in Nat /\ MaxWindows \in Nat

VARIABLES
    counter,    \* value of the key r.prefix+":"+key
    ttl,        \* the key carries an expiry
    pc,         \* per worker: "idle" or "set" (DECR answered redis.Nil)
    info,       \* per worker: the RateLimitInfo of its last call
    requests,   \* DECRs issued in the current window
    allowed,    \* calls answered Allowed with a nil error, this window
    windows     \* expiries of the key so far

vars == <<counter, ttl, pc, info, requests, allowed, windows>>

(* RateLimitInfo (Limit and Reset left out) and whether err # nil.         *)
InfoOf(ok, rem, err) == [allowed |-> ok, remaining |-> rem, err |-> err]

NoInfo == InfoOf(FALSE, 0, FALSE)

Init ==
    /\ counter = MISSING
    /\ ttl = FALSE
    /\ pc = [w \in Workers |-> "idle"]
    /\ info = [w \in Workers |-> NoInfo]
    /\ requests = 0
    /\ allowed = 0
    /\ windows = 0

(* Mutant: the DECR result is reported as remaining even when negative.    *)
DecrExistingRaw(w) ==
    /\ pc[w] = "idle"
    /\ counter # MISSING
    /\ requests < MaxRequests
    /\ counter' = counter - 1
    /\ info' = [info EXCEPT ![w] = InfoOf(counter - 1 >= 0, counter - 1, FALSE)]
    /\ allowed' = IF counter - 1 >= 0 THEN allowed + 1 ELSE allowed
    /\ requests' = requests + 1
    /\ UNCHANGED <<ttl, pc, windows>>

(* DECR on an existing key: a result >= 0 is allowed with that remaining,  *)
(* a negative one is denied with remaining 0.  DECR keeps any expiry.      *)
DecrExisting(w) ==
    /\ pc[w] = "idle"
    /\ counter # MISSING
    /\ requests < MaxRequests
    /\ counter' = counter - 1
    /\ info' = [info EXCEPT ![w] =
                  IF counter - 1 >= 0 THEN InfoOf(TRUE, counter - 1, FALSE)
                                      ELSE InfoOf(FALSE, 0, FALSE)]
    /\ allowed' = IF counter - 1 >= 0 THEN allowed + 1 ELSE allowed
    /\ requests' = requests + 1
    /\ UNCHANGED <<ttl, pc, windows>>

(* DECR on a missing key as Redis runs it: the key is created at 0 and     *)
(* decremented, without expiry; -1 is a deny.                              *)
DecrCreate(w) ==
    /\ pc[w] = "idle"
    /\ counter = MISSING
    /\ "create" \in DecrOnMissing
    /\ requests < MaxRequests
    /\ counter' = -1
    /\ ttl' = FALSE
    /\ info' = [info EXCEPT ![w] = InfoOf(FALSE, 0, FALSE)]
    /\ requests' = requests + 1
    /\ UNCHANGED <<pc, allowed, windows>>

(* DECR on a missing key answering redis.Nil: go on to the SET.            *)
DecrNil(w) ==
    /\ pc[w] = "idle"
    /\ counter = MISSING
    /\ "nil" \in DecrOnMissing
    /\ requests < MaxRequests
    /\ pc' = [pc EXCEPT ![w] = "set"]
    /\ requests' = requests + 1
    /\ UNCHANGED <<counter, ttl, info, allowed, windows>>

(* DECR fails (connection, timeout): RateLimitInfo{} and the error.        *)
DecrError(w) ==
    /\ pc[w] = "idle"
    /\ requests < MaxRequests
    /\ info' = [info EXCEPT ![w] = InfoOf(FALSE, 0, TRUE)]
    /\ requests' = requests + 1
    /\ UNCHANGED <<counter, ttl, pc, allowed, windows>>

(* Mutant: the key is initialised at limit rather than limit-1.            *)
SetWindowAtLimit(w) ==
    /\ pc[w] = "set"
    /\ counter' = Limit
    /\ ttl' = TRUE
    /\ info' = [info EXCEPT ![w] = InfoOf(TRUE, Limit, FALSE)]
    /\ allowed' = allowed + 1
    /\ pc' = [pc EXCEPT ![w] = "idle"]
    /\ UNCHANGED <<requests, windows>>

(* The pipelined SET key limit-1 EX 60 succeeds: allowed, limit-1 left.    *)
(* SET overwrites whatever value and expiry the key has by then.           *)
SetWindow(w) ==
    /\ pc[w] = "set"
    /\ counter' = Limit - 1
    /\ ttl' = TRUE
    /\ info' = [info EXCEPT ![w] = InfoOf(TRUE, Limit - 1, FALSE)]
    /\ allowed' = allowed + 1
    /\ pc' = [pc EXCEPT ![w] = "idle"]
    /\ UNCHANGED <<requests, windows>>

(* The pipeline fails: denied, remaining 0, with the error.                *)
SetWindowError(w) ==
    /\ pc[w] = "set"
    /\ info' = [info EXCEPT ![w] = InfoOf(FALSE, 0, TRUE)]
    /\ pc' = [pc EXCEPT ![w] = "idle"]
    /\ UNCHANGED <<counter, ttl, requests, allowed, windows>>

(* The expiry runs out: the key is gone and a new window starts.           *)
Expire ==
    /\ counter # MISSING
    /\ ttl
    /\ windows < MaxWindows
    /\ counter' = MISSING
    /\ ttl' = FALSE
    /\ requests' = 0
    /\ allowed' = 0
    /\ windows' = windows + 1
    /\ UNCHANGED <<pc, info>>

(* Every worker is idle and no request or expiry is left in the bounds.    *)
Done ==
    /\ \A w \in Workers : pc[w] = "idle"
    /\ requests = MaxRequests
    /\ ~ENABLED Expire
    /\ UNCHANGED vars

Next ==
    \/ \E w \in Workers :
         \/ DecrExisting(w)
         \/ DecrCreate(w)
         \/ DecrNil(w)
         \/ DecrError(w)
         \/ SetWindow(w)
         \/ SetWindowError(w)
    \/ Expire
    \/ Done

Spec == Init /\ [][Next]_vars

(* Redis deletes a key whose expiry has run out without being asked, so    *)
(* Expire is weakly fair; callers are not (they may stop sending).         *)
FairSpec == Spec /\ WF_vars(Expire)

-----------------------------------------------------------------------------

TypeOK ==
    /\ counter \in Int \cup {MISSING}
    /\ ttl \in BOOLEAN
    /\ pc \in [Workers -> {"idle", "set"}]
    /\ info \in [Workers -> [allowed: BOOLEAN, remaining: Nat, err: BOOLEAN]]
    /\ requests \in 0..MaxRequests
    /\ allowed \in Nat
    /\ windows \in 0..MaxWindows

(* Spec 4.4: the counter is a fixed one-minute window created lazily on    *)
(* first use: once the key exists, it is eventually gone and a new window  *)
(* starts, so a throttled caller is let in again.  Whether it holds turns  *)
(* on what DECR does to a missing key and on the expiry the SET gives.     *)
WindowEnds ==
    (counter # MISSING /\ windows < MaxWindows) ~> (counter = MISSING)

(* Spec 4.4: the remaining count a caller is told lies in 0..limit-1.      *)
RemainingInRange ==
    \A w \in Workers : info[w].remaining \in 0..(Limit - 1)

(* Spec 4.4 / 8: within one window at most limit calls are allowed.       *)
WindowQuota ==
    allowed <= Limit

=============================================================================
