---------------------------- MODULE MemoryLimiter ----------------------------
(***************************************************************************)
(* MemoryLimiter.Allow of internal/infrastructure/ratelimit/limiter.go:    *)
(* one token bucket per key, refilled at limit tokens per minute up to     *)
(* limit+burst.  Allow runs under m.mu from start to end, so each call is  *)
(* one atomic step whatever the number of concurrent requests.             *)
(*                                                                         *)
(* Time is counted in ticks, TicksPerMinute to the minute.  The float64    *)
(* token count is kept in units of 1/TicksPerMinute token, so the refill   *)
(* delta.Minutes() * limit is the exact integer elapsed * Limit; the       *)
(* float rounding of the code is left out.                                 *)
(***************************************************************************)
EXTENDS Naturals

CONSTANTS
    Limit,          \* m.limit (RATE_LIMIT_PER_MIN)
    Burst,          \* m.burst (RATE_LIMIT_BURST)
    Keys,           \* caller keys: "ip:"+address, "user:"+id
    TicksPerMinute, \* clock resolution
    MaxTime,        \* bound on the clock, in ticks
    NONE            \* no bucket for the key / no call answered yet

ASSUME Limit \in Nat \ {0} /\ Burst \in Nat
ASSUME TicksPerMinute \in Nat \ {0} /\ MaxTime \in Nat

VARIABLES
    store,      \* m.store: key -> bucket [tokens, last]
    now,        \* time.Now(), in ticks
    last_resp,  \* per key: the RateLimitInfo of the last call
    allowed,    \* per key: calls answered Allowed (history)
    first       \* per key: time of the first call (history)

vars == <<store, now, last_resp, allowed, first>>

Unit == TicksPerMinute          \* one token, in bucket units

Cap == (Limit + Burst) * Unit   \* float64(m.limit + m.burst)

Bucket == [tokens: 0..Cap, last: 0..MaxTime]

Info == [allowed: BOOLEAN, remaining: Nat, reset: Nat]

(* RateLimitInfo as returned; Reset is now.Add(time.Minute).               *)
InfoOf(ok, rem) == [allowed |-> ok, remaining |-> rem, reset |-> now + Unit]

MinOf(a, b) == IF a < b THEN a ELSE b

(* Mutant: the min() cap on the refill is missing.                         *)
RefillUncapped(b) == b.tokens + (now - b.last) * Limit

(* Mutant: the elapsed time is taken in hours (delta.Hours()).            *)
RefillHours(b) ==
    MinOf(Cap, b.tokens + ((now - b.last) \div 60) * Limit)

(* b.tokens + delta * float64(m.limit), capped at limit+burst.            *)
Refill(b) == MinOf(Cap, b.tokens + (now - b.last) * Limit)

Init ==
    /\ store = [k \in Keys |-> NONE]
    /\ now = 0
    /\ last_resp = [k \in Keys |-> NONE]
    /\ allowed = [k \in Keys |-> 0]
    /\ first = [k \in Keys |-> NONE]

(* First sight of key: a bucket with limit+burst-1 tokens, allowed.        *)
AllowNew(k) ==
    /\ store[k] = NONE
    /\ store' = [store EXCEPT ![k] = [tokens |-> (Limit + Burst - 1) * Unit,
                                      last |-> now]]
    /\ last_resp' = [last_resp EXCEPT ![k] = InfoOf(TRUE, Limit - 1)]
    /\ allowed' = [allowed EXCEPT ![k] = @ + 1]
    /\ first' = [first EXCEPT ![k] = now]
    /\ UNCHANGED now

(* Known key: refill; with a whole token, consume it, stamp last, allow.   *)
AllowRefilled(k) ==
    /\ store[k] # NONE
    /\ Refill(store[k]) >= Unit
    /\ store' = [store EXCEPT ![k] = [tokens |-> Refill(store[k]) - Unit,
                                      last |-> now]]
    /\ last_resp' = [last_resp EXCEPT ![k] =
                       InfoOf(TRUE, (Refill(store[k]) - Unit) \div Unit)]
    /\ allowed' = [allowed EXCEPT ![k] = @ + 1]
    /\ UNCHANGED <<now, first>>

(* Mutant: a token is taken before the check and kept taken on deny.      *)
DenyConsumes(k) ==
    /\ store[k] # NONE
    /\ Refill(store[k]) < Unit
    /\ store' = [store EXCEPT ![k].tokens = Refill(store[k]) - Unit]
    /\ last_resp' = [last_resp EXCEPT ![k] = InfoOf(FALSE, 0)]
    /\ UNCHANGED <<now, allowed, first>>

(* Known key without a whole token: deny.  b.tokens keeps the refill but   *)
(* b.last is not moved to now.                                             *)
Deny(k) ==
    /\ store[k] # NONE
    /\ Refill(store[k]) < Unit
    /\ store' = [store EXCEPT ![k].tokens = Refill(store[k])]
    /\ last_resp' = [last_resp EXCEPT ![k] = InfoOf(FALSE, 0)]
    /\ UNCHANGED <<now, allowed, first>>

(* The clock advances one tick.                                           *)
Tick ==
    /\ now < MaxTime
    /\ now' = now + 1
    /\ UNCHANGED <<store, last_resp, allowed, first>>

(* The clock bound is reached: the behaviour may stop.                    *)
Done ==
    /\ now = MaxTime
    /\ UNCHANGED vars

Allow(k) == AllowNew(k) \/ AllowRefilled(k) \/ Deny(k)

Next ==
    \/ \E k \in Keys : AllowNew(k)
    \/ \E k \in Keys : AllowRefilled(k)
    \/ \E k \in Keys : Deny(k)
    \/ Tick
    \/ Done

Spec == Init /\ [][Next]_vars

-----------------------------------------------------------------------------

TypeOK ==
    /\ store \in [Keys -> Bucket \cup {NONE}]
    /\ now \in 0..MaxTime
    /\ last_resp \in [Keys -> Info \cup {NONE}]
    /\ allowed \in [Keys -> Nat]
    /\ first \in [Keys -> 0..MaxTime \cup {NONE}]

(* Spec 4.4: the remaining count a caller is told lies in                  *)
(* 0..limit+burst-1, however calls and refills have interleaved.           *)
RemainingInRange ==
    \A k \in Keys :
        last_resp[k] # NONE => last_resp[k].remaining \in 0..(Limit + Burst - 1)

(* Spec 8: a key left alone for a full minute since it was last allowed    *)
(* is allowed on its next call.                                            *)
AllowedAfterQuietMinute ==
    [][\A k \in Keys :
         (store[k] # NONE /\ now - store[k].last >= Unit /\ Allow(k))
            => last_resp'[k].allowed]_vars

(* Spec 4.4: the bucket refills at limit tokens per minute, so from a      *)
(* key's first call the calls allowed never exceed limit+burst plus limit  *)
(* per elapsed minute.                                                     *)
RateNeverExceeded ==
    \A k \in Keys :
        first[k] # NONE =>
            allowed[k] * Unit <= (Limit + Burst) * Unit + (now - first[k]) * Limit

=============================================================================
