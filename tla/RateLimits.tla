----------------------------- MODULE RateLimits -----------------------------
(***************************************************************************)
(* The rate limiters of the API for one key: the sliding window in Redis    *)
(* with its fallback in memory, which the server mounts                     *)
(* (src/src/api/middleware/rate-limiter-redis.ts), and the token bucket     *)
(* that src/src/api/index.ts exports (rate-limiter.ts).  Time is counted in *)
(* ticks.  Redis' EXPIRE is left out: a set that expires holds only         *)
(* timestamps the window no longer reaches.                                 *)
(***************************************************************************)
EXTENDS Integers, FiniteSetsExt

CONSTANTS
    Hit,            \* requests
    Limiters,       \* kind: "redis", "memory" or "bucket"; max; window, in ticks
    PerSecond,      \* ticks in a second
    LastTick        \* bound on the time looked at

ASSUME RateAssumption ==
    /\ \A l \in Limiters : l.kind \in {"redis", "memory", "bucket"} /\ {l.max, l.window} \subseteq Nat \ {0}
    /\ IsFiniteSet(Hit) /\ PerSecond \in Nat \ {0} /\ LastTick \in Nat

VARIABLES
    limiter,        \* the limiter in use
    rateTime,       \* Date.now()
    rateStep,       \* rateStep[h]: "start", "trim", "count", "add", "reject", "allowed", "rejected"
    rateNow,        \* rateNow[h]: now, as request h read it
    rateBy,         \* rateBy[h]: which limiter answered request h
    rateRetry,      \* rateRetry[h]: its Retry-After, in seconds
    rateTold,       \* rateTold[h]: when it was told so
    rateSet,        \* the members of the Redis set: [by |-> request, score |-> time]
    rateMemory,     \* inMemoryStore: [by |-> request, score |-> timestamp, place |-> its order]
    rateBucket,     \* tokens and lastRefill of the bucket; 0 tokens at -1 when there is none
    rateCrowd       \* the most requests on their way in Redis at once

rateVars == <<limiter, rateTime, rateStep, rateNow, rateBy, rateRetry, rateTold, rateSet, rateMemory,
              rateBucket, rateCrowd>>

MaxRequests == limiter.max
Window == limiter.window
NoBucket == [tokens |-> 0, lastRefill |-> -1]
RateInit ==
    /\ limiter \in Limiters /\ rateTime = 0
    /\ rateStep = [h \in Hit |-> "start"] /\ rateNow = [h \in Hit |-> 0]
    /\ rateBy = [h \in Hit |-> "none"] /\ rateRetry = [h \in Hit |-> 0] /\ rateTold = [h \in Hit |-> 0]
    /\ rateSet = {} /\ rateMemory = {} /\ rateBucket = NoBucket /\ rateCrowd = 0

Seconds(ticks) == (ticks + PerSecond - 1) \div PerSecond
Answer(h, by, allowed, retry) ==
    /\ rateStep' = [rateStep EXCEPT ![h] = IF allowed THEN "allowed" ELSE "rejected"]
    /\ rateBy' = [rateBy EXCEPT ![h] = by]
    /\ rateRetry' = [rateRetry EXCEPT ![h] = IF allowed THEN 0 ELSE Max({retry, 1})]
    /\ rateTold' = [rateTold EXCEPT ![h] = rateTime]
RateTo(h, where) ==
    rateStep' = [rateStep EXCEPT ![h] = where] /\ UNCHANGED <<rateBy, rateRetry, rateTold>>

-----------------------------------------------------------------------------
(* The timestamps lie in the order in which their requests were answered.   *)
Recent(now) == {m \in rateMemory : m.score > now - Window}
First(kept) == CHOOSE m \in kept : \A n \in kept : m.place <= n.place
Answered == {g \in Hit : rateStep[g] \in {"allowed", "rejected"}}
Pushed(kept, h, now) == kept \cup {[by |-> h, score |-> now, place |-> Cardinality(Answered)]}
checkInMemoryRateLimit(h, now) ==
    LET kept == Recent(now) IN
    IF Cardinality(kept) >= MaxRequests
    THEN /\ Answer(h, "memory", FALSE, Seconds(First(kept).score + Window - now)) /\ rateMemory' = kept
    ELSE /\ Answer(h, "memory", TRUE, 0) /\ rateMemory' = Pushed(kept, h, now)

InFlight == {g \in Hit : rateStep[g] \in {"trim", "count", "add", "reject"}}
ArriveMemory(h) ==
    /\ rateStep[h] = "start" /\ limiter.kind = "memory"
    /\ rateNow' = [rateNow EXCEPT ![h] = rateTime] /\ checkInMemoryRateLimit(h, rateTime)
    /\ UNCHANGED <<limiter, rateTime, rateSet, rateBucket, rateCrowd>>
ArriveRedis(h) ==
    /\ rateStep[h] = "start" /\ limiter.kind = "redis"
    /\ rateNow' = [rateNow EXCEPT ![h] = rateTime] /\ RateTo(h, "trim")
    /\ rateCrowd' = Max({rateCrowd, Cardinality(InFlight) + 1})
    /\ UNCHANGED <<limiter, rateTime, rateSet, rateMemory, rateBucket>>

(* ZREMRANGEBYSCORE, ZCARD, ZRANGE and ZADD are four calls.                 *)
Trimmed(now) == {m \in rateSet : m.score > now - Window}
Trim(h) ==
    /\ rateStep[h] = "trim" /\ rateSet' = Trimmed(rateNow[h]) /\ RateTo(h, "count")
    /\ UNCHANGED <<limiter, rateTime, rateNow, rateMemory, rateBucket, rateCrowd>>

(* Mutant: the request that is being checked is not counted.                *)
LetsOneMore == Cardinality(rateSet) > MaxRequests

Full == Cardinality(rateSet) >= MaxRequests
Count(h) ==
    /\ rateStep[h] = "count" /\ RateTo(h, IF Full THEN "reject" ELSE "add")
    /\ UNCHANGED <<limiter, rateTime, rateNow, rateSet, rateMemory, rateBucket, rateCrowd>>
Oldest(h) == IF rateSet = {} THEN rateNow[h] - Window ELSE Min({m.score : m \in rateSet})
Reject(h) ==
    /\ rateStep[h] = "reject"
    /\ Answer(h, "redis", FALSE, Seconds(Oldest(h) + Window - rateNow[h]))
    /\ UNCHANGED <<limiter, rateTime, rateNow, rateSet, rateMemory, rateBucket, rateCrowd>>
WithRequest(h) == rateSet \cup {[by |-> h, score |-> rateNow[h]]}
Add(h) ==
    /\ rateStep[h] = "add" /\ rateSet' = WithRequest(h) /\ Answer(h, "redis", TRUE, 0)
    /\ UNCHANGED <<limiter, rateTime, rateNow, rateMemory, rateBucket, rateCrowd>>

(* A call that fails may have been carried out, ZADD before an EXPIRE that  *)
(* fails surely was; the memory then decides, with the time read before.    *)
RedisFails(h) ==
    /\ rateStep[h] \in {"trim", "count", "reject", "add"}
    /\ \/ UNCHANGED rateSet
       \/ rateStep[h] = "trim" /\ rateSet' = Trimmed(rateNow[h])
       \/ rateStep[h] = "add" /\ rateSet' = WithRequest(h)
    /\ checkInMemoryRateLimit(h, rateNow[h])
    /\ UNCHANGED <<limiter, rateTime, rateNow, rateBucket, rateCrowd>>

-----------------------------------------------------------------------------

Refilled(bucket, amount) == Min({MaxRequests, bucket.tokens + amount})
ArriveBucket(h) ==
    /\ rateStep[h] = "start" /\ limiter.kind = "bucket"
    /\ LET entry == IF rateBucket = NoBucket THEN [tokens |-> MaxRequests, lastRefill |-> rateTime]
                    ELSE rateBucket
           elapsed == rateTime - entry.lastRefill
           amount == (elapsed * MaxRequests) \div Window
           now == IF amount > 0 THEN [tokens |-> Refilled(entry, amount), lastRefill |-> rateTime]
                  ELSE entry
       IN  IF now.tokens > 0
           THEN Answer(h, "bucket", TRUE, 0) /\ rateBucket' = [now EXCEPT !.tokens = @ - 1]
           ELSE Answer(h, "bucket", FALSE, Seconds(Window - elapsed)) /\ rateBucket' = now
    /\ rateNow' = [rateNow EXCEPT ![h] = rateTime]
    /\ UNCHANGED <<limiter, rateTime, rateSet, rateMemory, rateCrowd>>

(* The timer that drops buckets not refilled for two windows.               *)
DropBucket ==
    /\ rateBucket # NoBucket /\ rateTime - rateBucket.lastRefill > 2 * Window
    /\ rateBucket' = NoBucket
    /\ UNCHANGED <<limiter, rateTime, rateStep, rateNow, rateBy, rateRetry, rateTold, rateSet,
                   rateMemory, rateCrowd>>
RateTick ==
    /\ rateTime < LastTick /\ rateTime' = rateTime + 1
    /\ UNCHANGED <<limiter, rateStep, rateNow, rateBy, rateRetry, rateTold, rateSet, rateMemory,
                   rateBucket, rateCrowd>>

RateNext ==
    \/ \E h \in Hit : \/ ArriveMemory(h) \/ ArriveRedis(h) \/ ArriveBucket(h) \/ Trim(h) \/ Count(h)
                      \/ Reject(h) \/ Add(h) \/ RedisFails(h)
    \/ DropBucket \/ RateTick
RateSpec == RateInit /\ [][RateNext]_rateVars

-----------------------------------------------------------------------------
(* Requests one limiter has let in, of the window that ends at a time.      *)
LetIn(by, until) == {h \in Hit :
    rateStep[h] = "allowed" /\ rateBy[h] = by /\ until - Window < rateNow[h] /\ rateNow[h] <= until}

(* Redis remembers more than max requests only by as many as were on their  *)
(* way beside another; when none ever was, Redis lets in at most max of any *)
(* window, and so does the memory that stands in for it or is used alone.   *)
ExcessIsConcurrent ==
    /\ Cardinality(rateSet) <= MaxRequests + Max({rateCrowd - 1, 0})
    /\ rateCrowd <= 1 => \A t \in 0 .. rateTime : \A by \in {"redis", "memory"} :
          Cardinality(LetIn(by, t)) <= MaxRequests

(* The bucket lets in its burst and what it refills in a window: less than  *)
(* twice max ("Global: 100 requests per 15 minutes" allows 199).            *)
BucketIsBounded == \A t \in 0 .. rateTime : Cardinality(LetIn("bucket", t)) <= 2 * MaxRequests - 1

Open ==
    CASE limiter.kind = "memory" -> Cardinality(Recent(rateTime)) < MaxRequests
      [] limiter.kind = "redis" -> Cardinality(Trimmed(rateTime)) < MaxRequests
      [] limiter.kind = "bucket" ->
             \/ rateBucket = NoBucket \/ rateBucket.tokens > 0
             \/ (rateTime - rateBucket.lastRefill) * MaxRequests >= Window

(* Who waits as long as Retry-After says finds the limiter open again, if   *)
(* nobody was let in since, nor remembered by Redis though the memory       *)
(* refused him, and no excess stands before him.                            *)
RetryAfterIsHonest == \A h \in Hit :
    /\ rateStep[h] = "rejected" /\ rateBy[h] = limiter.kind /\ rateTime >= rateTold[h] + rateRetry[h] * PerSecond
    /\ \A g \in Hit :
          rateStep[g] = "allowed" \/ (\E m \in rateSet : m.by = g) => rateTold[g] < rateTold[h]
    /\ limiter.kind = "redis" => rateCrowd <= 1
    => Open

(* Each limiter lets in what it allows and what ran beside it, and says     *)
(* truly when it has room again.                                            *)
LimitsHold ==
    /\ ExcessIsConcurrent
    /\ BucketIsBounded
    /\ RetryAfterIsHonest
=============================================================================
