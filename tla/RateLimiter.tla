----------------------------- MODULE RateLimiter -----------------------------
(***************************************************************************)
(* The rate limiter in front of every route (pkg/limiter/rate_limiter.go):  *)
(* the token bucket of one key, in memory or in Redis, and the requests     *)
(* that ask it for a token.  Other keys have buckets of their own.          *)
(*                                                                          *)
(* Tokens are counted in parts of a token, Second to one, so that a tick    *)
(* refills RefillRate parts.  The expiry of the Redis key after an hour is  *)
(* left out: the bucket of a quiet key is full long before.                 *)
(***************************************************************************)
EXTENDS Integers, Sequences, FiniteSets

CONSTANTS
    Calls,         \* concurrent requests of the key
    Capacity,      \* TokenBucketConfig.Capacity, InitialRate too
    RefillRate,    \* TokenBucketConfig.RefillRate, tokens a second
    Second,        \* ticks in a second
    MaxTime,       \* bound: ticks
    MaxDecisions   \* bound: decisions of the bucket

ASSUME LimiterAssumption ==
    /\ Capacity \in Nat \ {0} /\ RefillRate \in Nat \ {0} /\ Second \in Nat \ {0}
    /\ MaxTime \in Nat /\ MaxDecisions \in Nat

VARIABLES
    shared,   \* the bucket is in Redis
    now,      \* the clock
    bucket,   \* its tokens, and when they were last refilled
    calls,    \* where a request is, and the time it read before it asked Redis
    log       \* history: the decisions, with the admissions before and since

limiterVars == <<shared, now, bucket, calls, log>>

Full == Capacity * Second

LimiterInit ==
    /\ shared \in BOOLEAN
    /\ now = 0
    /\ bucket = [tokens |-> Full, last |-> 0]
    /\ calls = [c \in Calls |-> [at |-> "out", stamp |-> 0]]
    /\ log = <<>>

Total == IF log = <<>> THEN 0 ELSE log[Len(log)].total

-----------------------------------------------------------------------------

Waiting == {c \in Calls : calls[c].at = "asked"}

(* A request comes in, the first one or the next of its client.             *)
Ask(c) ==
    /\ calls[c].at # "asked"
    /\ Len(log) + Cardinality(Waiting) < MaxDecisions
    /\ calls' = [calls EXCEPT ![c] = [at |-> "asked", stamp |-> now]]
    /\ UNCHANGED <<shared, now, bucket, log>>

(* Redis counts fractions, and takes the time the request has read, which    *)
(* may be before the time of a request it served already; memory adds whole *)
(* tokens and forgets the rest of the time.                                 *)
Refill(elapsed) ==
    IF shared THEN elapsed * RefillRate ELSE Second * ((elapsed * RefillRate) \div Second)

Refilled(stamp) ==
    LET tokens == bucket.tokens + Refill(stamp - bucket.last)
    IN  IF tokens > Full THEN Full ELSE tokens

MutAfter(tokens, stamp) ==   \* Mutant: the time of the refill is not kept.
    [tokens |-> tokens, last |-> bucket.last]
After(tokens, stamp) == [tokens |-> tokens, last |-> stamp]

(* AllowWithLimit, under the bucket's mutex or in the script.               *)
Decide(stamp, allowed) ==
    LET have == Refilled(stamp)
    IN  /\ allowed = (have >= Second)
        /\ bucket' = After(IF allowed THEN have - Second ELSE have, stamp)
        /\ log' = Append(log, [stamp |-> stamp, told |-> now, allowed |-> allowed,
                               before |-> Total, total |-> Total + (IF allowed THEN 1 ELSE 0)])

Stamp(c) == IF shared THEN calls[c].stamp ELSE now

Answer(c, place) == calls' = [calls EXCEPT ![c].at = place]

(* The middleware lets the request through, or answers 429.                 *)
Allow(c) ==
    /\ calls[c].at = "asked"
    /\ \E allowed \in BOOLEAN :
           /\ Decide(Stamp(c), allowed)
           /\ Answer(c, IF allowed THEN "admitted" ELSE "refused")
    /\ UNCHANGED <<shared, now>>

(* Redis does not answer, whether the script has run or not: 503.           *)
AllowFails(c) ==
    /\ calls[c].at = "asked" /\ shared
    /\ \/ \E allowed \in BOOLEAN : Decide(Stamp(c), allowed)
       \/ UNCHANGED <<bucket, log>>
    /\ Answer(c, "unavailable")
    /\ UNCHANGED <<shared, now>>

Tick ==
    /\ now < MaxTime /\ now' = now + 1
    /\ UNCHANGED <<shared, bucket, calls, log>>

Limit(c) == Allow(c) \/ AllowFails(c)
LimiterNext == Tick \/ \E c \in Calls : Ask(c) \/ Limit(c)
LimiterSpec == LimiterInit /\ [][LimiterNext]_limiterVars

-----------------------------------------------------------------------------
(* Properties                                                              *)

(* Between any decision and a later admission no more requests are admitted  *)
(* than a full bucket and the time between the two allow, also when Redis    *)
(* serves requests in another order than they read the clock               *)
(* (AllowWithLimit).                                                       *)
WithinRate ==
    \A i, j \in DOMAIN log :
        i <= j /\ log[j].allowed =>
            (log[j].total - log[i].before) * Second
                <= Full + RefillRate * (log[j].stamp - log[i].stamp)

(* A client that waits the second X-RateLimit-Retry-After names, and whom    *)
(* nobody of its key comes before, is admitted (RateLimitMiddleware).       *)
RetryHonoured ==
    \A i, j \in DOMAIN log :
        j = i + 1 /\ log[j].stamp >= log[i].told + Second => log[j].allowed

LimitKept == WithinRate /\ RetryHonoured
=============================================================================
