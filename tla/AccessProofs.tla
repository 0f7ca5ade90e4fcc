---------------------------- MODULE AccessProofs ----------------------------
(***************************************************************************)
(* Who is let in.  Sessions, for every set of calls and e-mails and either  *)
(* driver: a refresh token is exchanged at most once, and only while live;  *)
(* a family has one live token; and a registration is whole or absent.      *)
(* RateLimits, for every number of requests and every limit and window:     *)
(* LimitsHold.                                                              *)
(*                                                                         *)
(* Limits: who was let in is remembered until no window can reach him any   *)
(* more, so a window never holds more of them than the memory or the set.   *)
(* Of Redis that is true only when requests come one at a time; when they   *)
(* do not, those counted in and not yet added take the room of the others.  *)
(* A bucket has let in, from any time on, what it was refilled with since   *)
(* and what it held then.                                                   *)
(***************************************************************************)
EXTENDS Sessions, RateLimits, SumTheorems

-----------------------------------------------------------------------------
(* The rate limiters                                                        *)
RatePlaces == {"start", "trim", "count", "add", "reject", "allowed", "rejected"}
Pending == {"trim", "count", "add", "reject"}
Told == {"allowed", "rejected"}
RateTypes ==
    /\ limiter \in Limiters /\ rateTime \in Nat /\ rateCrowd \in Nat
    /\ rateStep \in [Hit -> RatePlaces] /\ rateNow \in [Hit -> Nat]
    /\ rateBy \in [Hit -> {"none", "redis", "memory", "bucket"}]
    /\ rateRetry \in [Hit -> Nat] /\ rateTold \in [Hit -> Nat]
    /\ IsFiniteSet(rateSet) /\ rateSet \subseteq [by : Hit, score : Nat]
    /\ IsFiniteSet(rateMemory) /\ rateMemory \subseteq [by : Hit, score : Nat, place : Nat]
    /\ rateBucket \in [tokens : Nat, lastRefill : Int]

(* Times lie in the past, and what is remembered is of those who were told. *)
Past == \A h \in Hit : rateNow[h] <= rateTime /\ rateTold[h] <= rateTime
Remembered ==
    /\ \A m \in rateSet : rateStep[m.by] \in Told /\ m.score = rateNow[m.by]
    /\ \A m \in rateMemory : rateStep[m.by] \in Told /\ m.score = rateNow[m.by]
ThroughRedis == \A h \in Hit : rateStep[h] \in Pending => limiter.kind = "redis"
RateBase == RateTypes /\ Past /\ Remembered /\ ThroughRedis

(* The room of Redis is taken by who is in the set and who was counted in.  *)
Adders == {h \in Hit : rateStep[h] = "add"}
Excess(crowd) == IF crowd > 1 THEN crowd - 1 ELSE 0
Crowded ==
    /\ Cardinality(InFlight) <= rateCrowd
    /\ Cardinality(rateSet) + Cardinality(Adders) <= MaxRequests + Excess(rateCrowd)
    /\ Cardinality(rateMemory) <= MaxRequests

(* Who was let in is remembered until no window can reach him.              *)
Beyond(g) ==
    rateNow[g] <= rateTime - Window /\ \A h \in InFlight : rateNow[g] <= rateNow[h] - Window
Granted(by) == {g \in Hit : rateStep[g] = "allowed" /\ rateBy[g] = by}
Recalled ==
    /\ \A g \in Granted("redis") : Beyond(g) \/ \E m \in rateSet : m.by = g
    /\ \A g \in Granted("memory") : Beyond(g) \/ \E m \in rateMemory : m.by = g
Windows == \A t \in Nat : \A by \in {"redis", "memory"} : Cardinality(LetIn(by, t)) <= MaxRequests
Refusals == \A h \in Hit : rateStep[h] = "reject" => Cardinality(rateSet) >= MaxRequests
Due(h) == rateTold[h] + rateRetry[h] * PerSecond
Before(h) == {m \in rateSet : rateTold[m.by] < rateTold[h] /\ m.score > Due(h) - Window}
RedisIsTrue == \A h \in Hit :
    rateStep[h] = "rejected" /\ rateBy[h] = "redis" => Cardinality(Before(h)) < MaxRequests
Alone == rateCrowd <= 1 => Recalled /\ Windows /\ Refusals /\ RedisIsTrue

Since(h) == \E g \in Hit : rateStep[g] = "allowed" /\ rateTold[g] >= rateTold[h]
Left(h) == {m \in rateMemory : m.score > Due(h) - Window}
MemoryIsTrue == \A h \in Hit :
    rateStep[h] = "rejected" /\ rateBy[h] = "memory" => Since(h) \/ Cardinality(Left(h)) < MaxRequests

(* The bucket: what it let in from a time on, and still can, is at most     *)
(* what it held and what it was refilled with since.                        *)
From(s) == {g \in Granted("bucket") : rateNow[g] >= s}
Dropped == \A s \in Int :
    s <= rateTime => Window * Cardinality(From(s)) <= MaxRequests * (rateTime - s)
Filled ==
    /\ rateBucket.tokens <= MaxRequests /\ 0 <= rateBucket.lastRefill /\ rateBucket.lastRefill <= rateTime
    /\ \A g \in Granted("bucket") : (rateNow[g] - rateBucket.lastRefill) * MaxRequests < Window
    /\ \A s \in Int : s <= rateBucket.lastRefill =>
          Window * (Cardinality(From(s)) + rateBucket.tokens)
             <= Window * MaxRequests + MaxRequests * (rateBucket.lastRefill - s)
    /\ \A s \in Int : s > rateBucket.lastRefill => Cardinality(From(s)) + rateBucket.tokens < MaxRequests
Bursts == \A t \in Nat : Cardinality(LetIn("bucket", t)) <= 2 * MaxRequests - 1
BucketIsTrue == \A h \in Hit :
    rateStep[h] = "rejected" /\ rateBy[h] = "bucket" =>
       Since(h) \/ rateBucket = NoBucket \/ rateBucket.lastRefill + Window <= Due(h)
Bucket ==
    /\ rateBucket = NoBucket => Dropped
    /\ rateBucket # NoBucket => Filled
    /\ Bursts /\ BucketIsTrue

RateInv == RateBase /\ Crowded /\ Alone /\ MemoryIsTrue /\ Bucket
-----------------------------------------------------------------------------
LEMMA LeastIsThere ==
    ASSUME NEW S \in SUBSET Nat, S # {}
    PROVE  Min(S) \in S /\ \A y \in S : Min(S) <= y
  BY SomeIsLeast DEF Min

LEMMA MaxOfTwo ==
    ASSUME NEW a \in Int, NEW b \in Int
    PROVE  Max({a, b}) = IF a >= b THEN a ELSE b
<1>1. \E x \in {a, b} : \A y \in {a, b} : x >= y
  OBVIOUS
<1>2. Max({a, b}) \in {a, b} /\ \A y \in {a, b} : Max({a, b}) >= y
  BY <1>1 DEF Max
<1> QED
  BY <1>2

LEMMA MinOfTwo ==
    ASSUME NEW a \in Int, NEW b \in Int
    PROVE  Min({a, b}) = IF a <= b THEN a ELSE b
<1>1. \E x \in {a, b} : \A y \in {a, b} : x <= y
  OBVIOUS
<1>2. Min({a, b}) \in {a, b} /\ \A y \in {a, b} : Min({a, b}) <= y
  BY <1>1 DEF Min
<1> QED
  BY <1>2

LEMMA SecondsCover ==
    ASSUME NEW t \in Int
    PROVE  Seconds(t) \in Int /\ Seconds(t) * PerSecond >= t
<1>1. PICK p \in Nat \ {0} : p = PerSecond
  BY RateAssumption
<1>2. PICK q \in Int : q = (t + p - 1) \div p /\ t + p - 1 < p * (q + 1)
  BY <1>1
<1>3. p * (q + 1) = q * p + p
  BY <1>1, <1>2
<1> QED
  BY <1>1, <1>2, <1>3 DEF Seconds

LEMMA FirstIsKept ==
    ASSUME NEW K, K \subseteq [by : Hit, score : Nat, place : Nat], K # {}
    PROVE  First(K) \in K
<1>1. PICK S : S = {m.place : m \in K}
  OBVIOUS
<1>2. S \in SUBSET Nat /\ S # {}
  BY <1>1
<1>3. Min(S) \in S /\ \A y \in S : Min(S) <= y
  BY <1>2, LeastIsThere
<1>4. PICK m \in K : m.place = Min(S)
  BY <1>1, <1>3
<1>5. \A n \in K : m.place <= n.place
  BY <1>1, <1>3, <1>4
<1> QED
  BY <1>5 DEF First

(* The settings of the limiter.                                             *)
LEMMA Settings ==
    ASSUME RateTypes
    PROVE  MaxRequests \in Nat \ {0} /\ Window \in Nat \ {0} /\ PerSecond \in Nat \ {0}
           /\ limiter.kind \in {"redis", "memory", "bucket"} /\ IsFiniteSet(Hit)
  BY RateAssumption DEF RateTypes, MaxRequests, Window

(* A step gives one request, which was not told before, its answer or moves *)
(* it on; the others keep what they have.                                   *)
SameOf(g) ==
    /\ rateStep'[g] = rateStep[g] /\ rateNow'[g] = rateNow[g] /\ rateBy'[g] = rateBy[g]
    /\ rateRetry'[g] = rateRetry[g] /\ rateTold'[g] = rateTold[g]
OneMoves(h) ==
    /\ limiter' = limiter /\ rateTime' = rateTime /\ rateStep[h] \notin Told
    /\ \A g \in Hit \ {h} : SameOf(g)
GoesOn(h, where) ==
    /\ OneMoves(h) /\ rateStep'[h] = where /\ rateBy'[h] = rateBy[h]
    /\ rateRetry'[h] = rateRetry[h] /\ rateTold'[h] = rateTold[h]
IsTold(h, by, where) ==
    /\ OneMoves(h) /\ rateStep'[h] = where /\ rateBy'[h] = by /\ rateTold'[h] = rateTime
Waits(h, ticks) == rateRetry'[h] \in Nat /\ rateRetry'[h] * PerSecond >= ticks
Fits ==
    /\ rateStep' \in [Hit -> RatePlaces] /\ rateNow' \in [Hit -> Nat]
    /\ rateBy' \in [Hit -> {"none", "redis", "memory", "bucket"}]
    /\ rateRetry' \in [Hit -> Nat] /\ rateTold' \in [Hit -> Nat]

LEMMA LettingIn ==
    ASSUME RateTypes, NEW h \in Hit, rateStep[h] \notin Told, limiter' = limiter, rateTime' = rateTime,
           NEW now \in Nat, rateNow' = [rateNow EXCEPT ![h] = now],
           NEW by \in {"redis", "memory", "bucket"}, Answer(h, by, TRUE, 0)
    PROVE  Fits /\ rateNow'[h] = now /\ IsTold(h, by, "allowed")
<1>1. rateRetry' = [rateRetry EXCEPT ![h] = 0]
  BY DEF Answer
<1>2. Fits /\ rateNow'[h] = now
  BY <1>1 DEF Fits, Answer, RateTypes, RatePlaces
<1>3. OneMoves(h)
  BY <1>1 DEF OneMoves, Answer, RateTypes, SameOf
<1> QED
  BY <1>2, <1>3 DEF IsTold, Answer, RateTypes

LEMMA TurningAway ==
    ASSUME RateTypes, NEW h \in Hit, rateStep[h] \notin Told, limiter' = limiter, rateTime' = rateTime,
           NEW now \in Nat, rateNow' = [rateNow EXCEPT ![h] = now],
           NEW by \in {"redis", "memory", "bucket"}, NEW ticks \in Int, Answer(h, by, FALSE, Seconds(ticks))
    PROVE  Fits /\ rateNow'[h] = now /\ IsTold(h, by, "rejected") /\ Waits(h, ticks)
<1>1. PICK s \in Int : s = Seconds(ticks) /\ s * PerSecond >= ticks
  BY SecondsCover
<1>2. PICK most \in Nat : most = Max({s, 1}) /\ most >= s
  BY MaxOfTwo
<1>3. PICK p \in Nat \ {0} : p = PerSecond
  BY RateAssumption
<1>4. most * p >= s * p
  BY <1>1, <1>2, <1>3
<1>5. rateRetry' = [rateRetry EXCEPT ![h] = most]
  BY <1>1, <1>2 DEF Answer
<1>6. Fits /\ rateNow'[h] = now
  BY <1>5 DEF Fits, Answer, RateTypes, RatePlaces
<1>7. OneMoves(h)
  BY <1>5 DEF OneMoves, Answer, RateTypes, SameOf
<1>8. rateTold'[h] = rateTime /\ rateBy'[h] = by /\ rateStep'[h] = "rejected" /\ rateRetry'[h] = most
  BY <1>5 DEF Answer, RateTypes
<1>9. most * p >= ticks
  BY <1>1, <1>2, <1>3, <1>4
<1> QED
  BY <1>2, <1>3, <1>6, <1>7, <1>8, <1>9 DEF IsTold, Waits

LEMMA Going ==
    ASSUME RateTypes, NEW h \in Hit, rateStep[h] \notin Told, limiter' = limiter, rateTime' = rateTime,
           NEW now \in Nat, rateNow' = [rateNow EXCEPT ![h] = now], NEW where \in RatePlaces, RateTo(h, where)
    PROVE  Fits /\ GoesOn(h, where) /\ rateNow'[h] = now
<1>1. Fits /\ rateNow'[h] = now
  BY DEF Fits, RateTo, RateTypes
<1>2. OneMoves(h) /\ rateStep'[h] = where
  BY DEF OneMoves, RateTo, RateTypes, SameOf
<1> QED
  BY <1>1, <1>2 DEF GoesOn, RateTo

Moves(h) ==
    /\ OneMoves(h) /\ Fits /\ rateNow'[h] <= rateTime /\ rateTold'[h] <= rateTime
    /\ \/ rateNow'[h] = rateTime /\ h \notin InFlight
       \/ rateNow'[h] = rateNow[h] /\ h \in InFlight
MemoryTells(h) ==
    LET n == rateNow'[h] IN
    \/ /\ IsTold(h, "memory", "rejected") /\ Waits(h, First(Recent(n)).score + Window - n)
       /\ Cardinality(Recent(n)) >= MaxRequests /\ rateMemory' = Recent(n)
    \/ /\ IsTold(h, "memory", "allowed")
       /\ Cardinality(Recent(n)) < MaxRequests /\ rateMemory' = Pushed(Recent(n), h, n)

LEMMA RecentIs ==
    ASSUME RateTypes, NEW n \in Int
    PROVE  /\ Recent(n) \subseteq rateMemory /\ IsFiniteSet(Recent(n))
           /\ Cardinality(Recent(n)) \in Nat /\ Cardinality(Recent(n)) <= Cardinality(rateMemory)
           /\ Recent(n) # {} => First(Recent(n)) \in Recent(n) /\ First(Recent(n)).score \in Nat
<1>1. Recent(n) \subseteq rateMemory
  BY DEF Recent
<1>2. IsFiniteSet(Recent(n)) /\ Cardinality(Recent(n)) <= Cardinality(rateMemory)
  BY <1>1, FS_Subset DEF RateTypes
<1>3. Recent(n) \subseteq [by : Hit, score : Nat, place : Nat]
  BY <1>1 DEF RateTypes
<1> QED
  BY <1>1, <1>2, <1>3, FirstIsKept, FS_CardinalityType

LEMMA MemoryShape ==
    ASSUME RateBase, NEW h \in Hit, rateStep[h] \notin Told, limiter' = limiter, rateTime' = rateTime,
           NEW now \in Nat, now <= rateTime, rateNow' = [rateNow EXCEPT ![h] = now],
           (now = rateTime /\ h \notin InFlight) \/ (now = rateNow[h] /\ h \in InFlight),
           checkInMemoryRateLimit(h, now)
    PROVE  Moves(h) /\ MemoryTells(h)
<1> USE DEF RateBase
<1>1. PICK kept : kept = Recent(now)
  OBVIOUS
<1>2. Cardinality(kept) \in Nat /\ MaxRequests \in Nat \ {0} /\ Window \in Nat
  BY <1>1, RecentIs, Settings
<1>3. CASE Cardinality(kept) >= MaxRequests
  <2>1. kept # {}
    BY <1>2, <1>3, FS_EmptySet
  <2>2. First(kept).score + Window - now \in Int
    BY <1>1, <1>2, <2>1, RecentIs
  <2>3. Answer(h, "memory", FALSE, Seconds(First(kept).score + Window - now)) /\ rateMemory' = kept
    BY <1>1, <1>3 DEF checkInMemoryRateLimit
  <2>4. /\ Fits /\ rateNow'[h] = now /\ IsTold(h, "memory", "rejected")
        /\ Waits(h, First(kept).score + Window - now)
    BY <2>2, <2>3, TurningAway
  <2> QED
    BY <1>1, <1>3, <2>3, <2>4 DEF Moves, MemoryTells, IsTold, Past, RateTypes
<1>4. CASE ~(Cardinality(kept) >= MaxRequests)
  <2>1. Answer(h, "memory", TRUE, 0) /\ rateMemory' = Pushed(kept, h, now)
    BY <1>1, <1>4 DEF checkInMemoryRateLimit
  <2>4. Fits /\ rateNow'[h] = now /\ IsTold(h, "memory", "allowed")
    BY <2>1, LettingIn
  <2> QED
    BY <1>1, <1>2, <1>4, <2>1, <2>4 DEF Moves, MemoryTells, IsTold, Past, RateTypes
<1> QED
  BY <1>3, <1>4

LEMMA RedisShapes ==
    ASSUME RateBase, NEW h \in Hit
    PROVE  /\ ArriveRedis(h) => Moves(h) /\ GoesOn(h, "trim") /\ rateNow'[h] = rateTime
           /\ Trim(h) => Moves(h) /\ GoesOn(h, "count")
           /\ Count(h) => Moves(h) /\ GoesOn(h, IF Full THEN "reject" ELSE "add")
           /\ Add(h) => Moves(h) /\ IsTold(h, "redis", "allowed")
<1> USE DEF RateBase
<1>0. rateNow = [rateNow EXCEPT ![h] = rateNow[h]] /\ rateNow[h] \in Nat /\ rateTime \in Nat
  BY DEF RateTypes
<1>1. ASSUME ArriveRedis(h) PROVE Moves(h) /\ GoesOn(h, "trim") /\ rateNow'[h] = rateTime
  <2>1. Fits /\ GoesOn(h, "trim") /\ rateNow'[h] = rateTime
    BY <1>0, <1>1, Going DEF ArriveRedis, RatePlaces, Told
  <2> QED
    BY <1>0, <1>1, <2>1 DEF Moves, GoesOn, Past, ArriveRedis, InFlight
<1>2. ASSUME Trim(h) PROVE Moves(h) /\ GoesOn(h, "count")
  <2>1. Fits /\ GoesOn(h, "count") /\ rateNow'[h] = rateNow[h]
    BY <1>0, <1>2, Going DEF Trim, RatePlaces, Told
  <2> QED
    BY <1>0, <1>2, <2>1 DEF Moves, GoesOn, Past, Trim, InFlight
<1>3. ASSUME Count(h) PROVE Moves(h) /\ GoesOn(h, IF Full THEN "reject" ELSE "add")
  <2>1. Fits /\ GoesOn(h, IF Full THEN "reject" ELSE "add") /\ rateNow'[h] = rateNow[h]
    BY <1>0, <1>3, Going DEF Count, RatePlaces, Told
  <2> QED
    BY <1>0, <1>3, <2>1 DEF Moves, GoesOn, Past, Count, InFlight
<1>4. ASSUME Add(h) PROVE Moves(h) /\ IsTold(h, "redis", "allowed")
  <2>2. Fits /\ IsTold(h, "redis", "allowed") /\ rateNow'[h] = rateNow[h]
    BY <1>0, <1>4, LettingIn DEF Add, Told
  <2> QED
    BY <1>0, <1>4, <2>2 DEF Moves, IsTold, Past, Add, InFlight
<1> QED
  BY <1>1, <1>2, <1>3, <1>4

LEMMA OldestIs ==
    ASSUME RateBase, NEW h \in Hit
    PROVE  /\ Oldest(h) \in Int
           /\ rateSet # {} => \E m \in rateSet : m.score = Oldest(h)
<1> USE DEF RateBase
<1>1. PICK S : S = {m.score : m \in rateSet}
  OBVIOUS
<1>2. S \in SUBSET Nat
  BY <1>1 DEF RateTypes
<1>3. S # {} => Min(S) \in S
  BY <1>2, LeastIsThere, Zenon
<1>4. Window \in Nat /\ rateNow[h] \in Nat
  BY Settings DEF RateTypes
<1>5. CASE rateSet = {}
  BY <1>4, <1>5 DEF Oldest
<1>6. CASE rateSet # {}
  <2>1. S # {} /\ Oldest(h) = Min(S)
    BY <1>1, <1>6 DEF Oldest
  <2>2. PICK low \in S : low = Oldest(h)
    BY <1>3, <2>1
  <2>3. PICK m \in rateSet : m.score = low
    BY <1>1
  <2> QED
    BY <1>2, <2>2, <2>3
<1> QED
  BY <1>5, <1>6

LEMMA RejectShape ==
    ASSUME RateBase, NEW h \in Hit, Reject(h)
    PROVE  Moves(h) /\ IsTold(h, "redis", "rejected") /\ Waits(h, Oldest(h) + Window - rateNow[h])
<1> USE DEF RateBase
<1>0. rateNow = [rateNow EXCEPT ![h] = rateNow[h]] /\ rateNow[h] \in Nat /\ Oldest(h) + Window - rateNow[h] \in Int
  BY OldestIs, Settings DEF RateTypes
<1>1. /\ Fits /\ IsTold(h, "redis", "rejected") /\ rateNow'[h] = rateNow[h]
      /\ Waits(h, Oldest(h) + Window - rateNow[h])
  BY <1>0, TurningAway DEF Reject, Told
<1> QED
  BY <1>0, <1>1 DEF Moves, IsTold, Past, Reject, InFlight, RateTypes

LEMMA FallbackShapes ==
    ASSUME RateBase, NEW h \in Hit, ArriveMemory(h) \/ RedisFails(h)
    PROVE  Moves(h) /\ MemoryTells(h)
<1>0. rateNow = [rateNow EXCEPT ![h] = rateNow[h]] /\ rateNow[h] \in Nat /\ rateTime \in Nat /\ rateNow[h] <= rateTime
  BY DEF RateBase, RateTypes, Past
<1>1. CASE ArriveMemory(h)
  <2>1. PICK now \in Nat : now = rateTime
    BY <1>0
  <2>2. h \notin InFlight /\ rateStep[h] \notin Told /\ limiter' = limiter /\ rateTime' = rateTime
    BY <1>1 DEF ArriveMemory, InFlight, Told
  <2>3. rateNow' = [rateNow EXCEPT ![h] = now] /\ checkInMemoryRateLimit(h, now)
    BY <1>1, <2>1 DEF ArriveMemory
  <2>4. now <= rateTime /\ ((now = rateTime /\ h \notin InFlight) \/ (now = rateNow[h] /\ h \in InFlight))
    BY <2>1, <2>2
  <2> QED
    BY <2>2, <2>3, <2>4, MemoryShape
<1>2. CASE RedisFails(h)
  BY <1>0, <1>2, MemoryShape DEF RedisFails, InFlight, Told
<1> QED
  BY <1>1, <1>2

-----------------------------------------------------------------------------
(* Types, times and memories.                                               *)
LEMMA BaseAfter ==
    ASSUME RateBase, NEW h \in Hit, Moves(h),
           rateCrowd' \in Nat, rateBucket' \in [tokens : Nat, lastRefill : Int],
           IsFiniteSet(rateSet'), rateSet' \subseteq [by : Hit, score : Nat],
           IsFiniteSet(rateMemory'), rateMemory' \subseteq [by : Hit, score : Nat, place : Nat],
           \A m \in rateSet' \cup rateMemory' :
              m \in rateSet \cup rateMemory \/ (m.by = h /\ rateStep'[h] \in Told /\ m.score = rateNow'[h]),
           rateStep'[h] \in Pending => limiter.kind = "redis"
    PROVE  RateBase'
<1>1. RateTypes'
  BY DEF RateBase, RateTypes, Moves, Fits, OneMoves
<1>2. Past'
  BY DEF RateBase, Past, Moves, OneMoves, SameOf
<1>3. \A m \in rateSet' \cup rateMemory' : rateStep'[m.by] \in Told /\ m.score = rateNow'[m.by]
  <2> SUFFICES ASSUME NEW m \in rateSet' \cup rateMemory', m \in rateSet \cup rateMemory
               PROVE  rateStep'[m.by] \in Told /\ m.score = rateNow'[m.by]
    OBVIOUS
  <2>1. m.by \in Hit /\ rateStep[m.by] \in Told /\ m.score = rateNow[m.by]
    BY DEF RateBase, RateTypes, Remembered
  <2>2. m.by # h
    BY <2>1 DEF Moves, OneMoves
  <2> QED
    BY <2>1, <2>2 DEF Moves, OneMoves, SameOf
<1>4. Remembered'
  BY <1>3 DEF Remembered
<1>5. ThroughRedis'
  BY DEF RateBase, ThroughRedis, Moves, OneMoves, SameOf
<1> QED
  BY <1>1, <1>2, <1>4, <1>5 DEF RateBase

LEMMA OnePlus ==
    ASSUME NEW S, IsFiniteSet(S), NEW x
    PROVE  /\ IsFiniteSet(S \cup {x}) /\ Cardinality(S) \in Nat /\ Cardinality(S \cup {x}) \in Nat
           /\ Cardinality(S \cup {x}) <= Cardinality(S) + 1
           /\ x \notin S => Cardinality(S \cup {x}) = Cardinality(S) + 1
<1>1. IsFiniteSet(S \cup {x})
  BY FS_AddElement
<1>2. Cardinality(S) \in Nat /\ Cardinality(S \cup {x}) \in Nat
  BY <1>1, FS_CardinalityType
<1>3. Cardinality(S \cup {x}) = IF x \in S THEN Cardinality(S) ELSE Cardinality(S) + 1
  BY FS_AddElement
<1> QED
  BY <1>1, <1>2, <1>3

LEMMA SetGrows ==
    ASSUME RateBase, NEW h \in Hit
    PROVE  /\ IsFiniteSet(WithRequest(h)) /\ WithRequest(h) \subseteq [by : Hit, score : Nat]
           /\ Cardinality(WithRequest(h)) <= Cardinality(rateSet) + 1 /\ Cardinality(rateSet) \in Nat
           /\ Cardinality(WithRequest(h)) \in Nat
<1>1. IsFiniteSet(rateSet) /\ rateSet \subseteq [by : Hit, score : Nat] /\ rateNow[h] \in Nat
  BY DEF RateBase, RateTypes
<1> QED
  <2>1. PICK m : m = [by |-> h, score |-> rateNow[h]]
    OBVIOUS
  <2>2. m \in [by : Hit, score : Nat] /\ WithRequest(h) = rateSet \cup {m}
    BY <1>1, <2>1 DEF WithRequest
  <2>3. /\ IsFiniteSet(rateSet \cup {m}) /\ Cardinality(rateSet) \in Nat /\ Cardinality(rateSet \cup {m}) \in Nat
        /\ Cardinality(rateSet \cup {m}) <= Cardinality(rateSet) + 1
    BY <1>1, OnePlus
  <2> QED
    BY <1>1, <2>2, <2>3

LEMMA SetShrinks ==
    ASSUME RateBase, NEW n \in Int
    PROVE  /\ IsFiniteSet(Trimmed(n)) /\ Trimmed(n) \subseteq rateSet
           /\ Cardinality(Trimmed(n)) <= Cardinality(rateSet) /\ Cardinality(Trimmed(n)) \in Nat
<1>1. IsFiniteSet(rateSet) /\ Trimmed(n) \subseteq rateSet
  BY DEF RateBase, RateTypes, Trimmed
<1> QED
  BY <1>1, FS_Subset, FS_CardinalityType

LEMMA MemoryKept ==
    ASSUME RateBase, NEW h \in Hit, Moves(h), MemoryTells(h)
    PROVE  /\ IsFiniteSet(rateMemory') /\ rateMemory' \subseteq [by : Hit, score : Nat, place : Nat]
           /\ \A m \in rateMemory' : m \in rateMemory \/ (m.by = h /\ m.score = rateNow'[h])
           /\ rateStep'[h] \in Told
           /\ Cardinality(rateMemory) <= MaxRequests => Cardinality(rateMemory') <= MaxRequests
<1>1. PICK n \in Nat : n = rateNow'[h]
  BY DEF Moves, Fits
<1>2. PICK K : K = Recent(n)
  OBVIOUS
<1>3. /\ IsFiniteSet(K) /\ K \subseteq rateMemory /\ K \subseteq [by : Hit, score : Nat, place : Nat]
      /\ Cardinality(K) \in Nat /\ Cardinality(K) <= Cardinality(rateMemory)
  BY <1>2, RecentIs DEF RateBase, RateTypes
<1>4. CASE rateMemory' = K /\ rateStep'[h] \in Told
  <2>1. Cardinality(rateMemory) \in Nat /\ MaxRequests \in Nat
    BY FS_CardinalityType, Settings DEF RateBase, RateTypes
  <2> QED
    BY <1>3, <1>4, <2>1
<1>5. CASE rateMemory' = Pushed(K, h, n) /\ Cardinality(K) < MaxRequests /\ rateStep'[h] \in Told
  <2>1. PICK p : p = Cardinality(Answered)
    OBVIOUS
  <2>2. IsFiniteSet(Answered) /\ p \in Nat
    BY <2>1, FS_Subset, FS_CardinalityType, RateAssumption DEF Answered
  <2>3. rateMemory' = K \cup {[by |-> h, score |-> n, place |-> p]}
    BY <1>5, <2>1 DEF Pushed
  <2>4. IsFiniteSet(rateMemory') /\ Cardinality(rateMemory') <= Cardinality(K) + 1 /\ Cardinality(rateMemory') \in Nat
    BY <1>3, <2>3, OnePlus
  <2>5. MaxRequests \in Nat
    BY Settings DEF RateBase
  <2>6. rateMemory' \subseteq [by : Hit, score : Nat, place : Nat]
    BY <1>3, <2>2, <2>3
  <2>7. \A m \in rateMemory' : m \in rateMemory \/ (m.by = h /\ m.score = rateNow'[h])
    BY <1>1, <1>3, <2>3
  <2> QED
    BY <1>3, <1>5, <2>4, <2>5, <2>6, <2>7
<1> QED
  BY <1>1, <1>2, <1>4, <1>5 DEF MemoryTells, IsTold, Told

BucketStep(e, amount, T, L) ==
    \/ amount = 0 /\ T = e.tokens - 1 /\ L = e.lastRefill
    \/ amount > 0 /\ T = Refilled(e, amount) - 1 /\ L = rateTime
BucketTells(h) == \E e \in [tokens : Nat, lastRefill : Nat], amount \in Nat :
    /\ \/ rateBucket = NoBucket /\ e = [tokens |-> MaxRequests, lastRefill |-> rateTime]
       \/ rateBucket # NoBucket /\ e = rateBucket
    /\ amount * Window <= (rateTime - e.lastRefill) * MaxRequests
    /\ (rateTime - e.lastRefill) * MaxRequests < amount * Window + Window
    /\ \/ /\ IsTold(h, "bucket", "rejected") /\ Waits(h, Window - (rateTime - e.lastRefill))
          /\ amount = 0 /\ e.tokens = 0 /\ rateBucket' = e
       \/ /\ IsTold(h, "bucket", "allowed") /\ rateBucket'.tokens \in Nat
          /\ rateBucket' \in [tokens : Nat, lastRefill : Nat]
          /\ BucketStep(e, amount, rateBucket'.tokens, rateBucket'.lastRefill)

LEMMA Floors ==
    ASSUME NEW a \in Nat, NEW w \in Nat \ {0}
    PROVE  a \div w \in Nat /\ (a \div w) * w <= a /\ a < (a \div w) * w + w
<1>1. PICK q \in Int : q = a \div w
  OBVIOUS
<1>2. q >= 0 /\ w * q <= a /\ a < w * (q + 1)
  BY <1>1
<1>3. w * (q + 1) = q * w + w /\ w * q = q * w
  OBVIOUS
<1> QED
  BY <1>1, <1>2, <1>3

LEMMA BucketShape ==
    ASSUME RateBase, Bucket, NEW h \in Hit, ArriveBucket(h)
    PROVE  Moves(h) /\ BucketTells(h) /\ rateNow'[h] = rateTime
<1>1. /\ MaxRequests \in Nat \ {0} /\ Window \in Nat \ {0} /\ rateTime \in Nat
      /\ rateBucket \in [tokens : Nat, lastRefill : Int]
      /\ rateBucket # NoBucket => rateBucket.lastRefill \in 0 .. rateTime
  BY Settings DEF RateBase, RateTypes, Bucket, Filled
<1>2. PICK e : e = IF rateBucket = NoBucket THEN [tokens |-> MaxRequests, lastRefill |-> rateTime] ELSE rateBucket
  OBVIOUS
<1>3. e \in [tokens : Nat, lastRefill : Nat] /\ e.lastRefill <= rateTime
  BY <1>1, <1>2
<1>4. PICK elapsed \in Nat : elapsed = rateTime - e.lastRefill
  BY <1>1, <1>3
<1>5. PICK amount \in Nat :
         /\ amount = (elapsed * MaxRequests) \div Window /\ amount * Window <= elapsed * MaxRequests
         /\ elapsed * MaxRequests < amount * Window + Window
  <2>1. PICK a \in Nat : a = elapsed * MaxRequests
    BY <1>1, <1>4
  <2> QED
    BY <1>1, <2>1, Floors
<1>6. PICK now : now = IF amount > 0 THEN [tokens |-> Refilled(e, amount), lastRefill |-> rateTime] ELSE e
  OBVIOUS
<1>7. Refilled(e, amount) \in Nat /\ (amount > 0 => Refilled(e, amount) > 0)
  <2>1. PICK k \in Nat : k = e.tokens + amount
    BY <1>3
  <2> QED
    BY <1>1, <1>3, <2>1, MinOfTwo DEF Refilled
<1>8. now \in [tokens : Nat, lastRefill : Nat]
  BY <1>1, <1>3, <1>6, <1>7
<1>9. PICK clock \in Nat : clock = rateTime
  BY <1>1
<1>10. /\ rateStep[h] = "start" /\ rateNow' = [rateNow EXCEPT ![h] = clock]
       /\ limiter' = limiter /\ rateTime' = rateTime /\ h \notin InFlight /\ rateStep[h] \notin Told
  BY <1>9 DEF ArriveBucket, InFlight, Told
<1>11. IF now.tokens > 0
       THEN Answer(h, "bucket", TRUE, 0) /\ rateBucket' = [now EXCEPT !.tokens = @ - 1]
       ELSE Answer(h, "bucket", FALSE, Seconds(Window - elapsed)) /\ rateBucket' = now
  BY <1>2, <1>4, <1>5, <1>6 DEF ArriveBucket
<1>12. CASE now.tokens > 0
  <2>1. Fits /\ rateNow'[h] = clock /\ IsTold(h, "bucket", "allowed")
    BY <1>10, <1>11, <1>12, LettingIn DEF RateBase
  <2>2. Moves(h)
    BY <1>1, <1>9, <1>10, <2>1 DEF Moves, IsTold
  <2>3. rateBucket' = [tokens |-> now.tokens - 1, lastRefill |-> now.lastRefill]
    BY <1>8, <1>11, <1>12
  <2>4. rateBucket' \in [tokens : Nat, lastRefill : Nat] /\ rateBucket'.tokens = now.tokens - 1
        /\ rateBucket'.lastRefill = now.lastRefill
    BY <1>8, <1>12, <2>3
  <2>5. BucketStep(e, amount, rateBucket'.tokens, rateBucket'.lastRefill)
    BY <1>5, <1>6, <2>4 DEF BucketStep
  <2> QED
    BY <1>2, <1>3, <1>4, <1>5, <1>9, <2>1, <2>2, <2>4, <2>5 DEF BucketTells
<1>13. CASE ~(now.tokens > 0)
  <2>1. amount = 0 /\ e.tokens = 0 /\ rateBucket' = e
    <3>1. now.tokens = 0
      BY <1>8, <1>13
    <3>2. amount = 0
      BY <1>6, <1>7, <3>1
    <3> QED
      BY <1>6, <1>11, <1>13, <3>1, <3>2
  <2>2. Window - elapsed \in Int
    BY <1>1, <1>4
  <2>3. /\ Fits /\ rateNow'[h] = clock /\ IsTold(h, "bucket", "rejected") /\ Waits(h, Window - elapsed)
    BY <1>10, <1>11, <1>13, <2>2, TurningAway DEF RateBase
  <2>4. Moves(h)
    BY <1>1, <1>9, <1>10, <2>3 DEF Moves, IsTold
  <2> QED
    BY <1>2, <1>3, <1>4, <1>5, <1>9, <2>1, <2>3, <2>4 DEF BucketTells
<1> QED
  BY <1>12, <1>13

(* Nobody moves: the clock goes on, a bucket is dropped, or nothing happens. *)
Stands ==
    /\ rateTime' \in {rateTime, rateTime + 1} /\ rateBucket' \in {rateBucket, NoBucket}
    /\ limiter' = limiter /\ rateStep' = rateStep /\ rateNow' = rateNow /\ rateBy' = rateBy
    /\ rateRetry' = rateRetry /\ rateTold' = rateTold /\ rateSet' = rateSet
    /\ rateMemory' = rateMemory /\ rateCrowd' = rateCrowd

LEMMA Standing == ASSUME UNCHANGED rateVars \/ DropBucket \/ RateTick PROVE Stands
  BY Zenon DEF rateVars, DropBucket, RateTick, Stands

LEMMA BaseStands == ASSUME RateBase, Stands PROVE RateBase'
<1>1. rateTime \in Nat /\ rateTime' \in Nat /\ rateTime' >= rateTime
  BY DEF RateBase, RateTypes, Stands
<1>2. rateBucket' \in [tokens : Nat, lastRefill : Int]
  BY DEF RateBase, RateTypes, Stands, NoBucket
<1>3. RateTypes'
  BY <1>1, <1>2 DEF RateBase, RateTypes, Stands
<1>4. Past'
  BY <1>1 DEF RateBase, RateTypes, Past, Stands
<1>5. Remembered' /\ ThroughRedis'
  BY DEF RateBase, Remembered, ThroughRedis, Stands
<1> QED
  BY <1>3, <1>4, <1>5 DEF RateBase

LEMMA BaseMoves ==
    ASSUME RateBase, Bucket, NEW h \in Hit,
           \/ ArriveMemory(h) \/ ArriveRedis(h) \/ ArriveBucket(h) \/ Trim(h) \/ Count(h)
           \/ Reject(h) \/ Add(h) \/ RedisFails(h)
    PROVE  RateBase'
<1>0. /\ rateCrowd \in Nat /\ rateBucket \in [tokens : Nat, lastRefill : Int] /\ rateNow[h] \in Nat
      /\ IsFiniteSet(rateSet) /\ rateSet \subseteq [by : Hit, score : Nat]
      /\ IsFiniteSet(rateMemory) /\ rateMemory \subseteq [by : Hit, score : Nat, place : Nat]
  BY DEF RateBase, RateTypes
<1>1. CASE ArriveMemory(h)
  <2>1. Moves(h) /\ MemoryTells(h)
    BY <1>1, FallbackShapes
  <2>2. rateCrowd' = rateCrowd /\ rateBucket' = rateBucket /\ rateSet' = rateSet
    BY <1>1 DEF ArriveMemory
  <2> QED
    BY <1>0, <2>1, <2>2, MemoryKept, BaseAfter DEF Told, Pending
<1>2. CASE ArriveRedis(h)
  <2>1. Moves(h)
    BY <1>2, RedisShapes
  <2>2. rateBucket' = rateBucket /\ rateSet' = rateSet /\ rateMemory' = rateMemory /\ limiter.kind = "redis"
    BY <1>2 DEF ArriveRedis
  <2>3. Cardinality(InFlight) \in Nat
    BY FS_Subset, FS_CardinalityType, RateAssumption DEF InFlight
  <2>4. PICK k \in Nat : k = Cardinality(InFlight) + 1
    BY <2>3
  <2>5. PICK crowd \in Nat : crowd = rateCrowd
    BY <1>0
  <2>6. Max({crowd, k}) \in Nat
    BY MaxOfTwo
  <2>7. rateCrowd' \in Nat
    BY <1>2, <2>4, <2>5, <2>6 DEF ArriveRedis
  <2> QED
    BY <1>0, <2>1, <2>2, <2>7, BaseAfter
<1>3. CASE ArriveBucket(h)
  <2>1. Moves(h) /\ BucketTells(h)
    BY <1>3, BucketShape
  <2>2. rateCrowd' = rateCrowd /\ rateSet' = rateSet /\ rateMemory' = rateMemory
    BY <1>3 DEF ArriveBucket
  <2>3. rateBucket' \in [tokens : Nat, lastRefill : Int] /\ rateStep'[h] \in Told
    BY <2>1 DEF BucketTells, IsTold, Told
  <2> QED
    BY <1>0, <2>1, <2>2, <2>3, BaseAfter DEF Told, Pending
<1>4. CASE Trim(h)
  <2>1. Moves(h)
    BY <1>4, RedisShapes
  <2>2. rateBucket' = rateBucket /\ rateMemory' = rateMemory /\ rateCrowd' = rateCrowd
        /\ rateSet' = Trimmed(rateNow[h]) /\ limiter.kind = "redis"
    BY <1>4 DEF Trim, RateBase, ThroughRedis, Pending
  <2>3. IsFiniteSet(rateSet') /\ rateSet' \subseteq rateSet
    BY <1>0, <2>2, SetShrinks
  <2> QED
    BY <1>0, <2>1, <2>2, <2>3, BaseAfter
<1>5. CASE Count(h) \/ Reject(h)
  <2>1. Moves(h)
    BY <1>5, RedisShapes, RejectShape
  <2>2. rateBucket' = rateBucket /\ rateMemory' = rateMemory /\ rateCrowd' = rateCrowd
        /\ rateSet' = rateSet /\ limiter.kind = "redis"
    BY <1>5 DEF Count, Reject, RateBase, ThroughRedis, Pending
  <2> QED
    BY <1>0, <2>1, <2>2, BaseAfter
<1>6. CASE Add(h)
  <2>1. Moves(h) /\ IsTold(h, "redis", "allowed") /\ rateNow'[h] = rateNow[h]
    BY <1>6, RedisShapes DEF Add
  <2>2. rateBucket' = rateBucket /\ rateMemory' = rateMemory /\ rateCrowd' = rateCrowd
        /\ rateSet' = WithRequest(h) /\ rateStep'[h] \in Told
    BY <1>6, <2>1 DEF Add, IsTold, Told
  <2>3. IsFiniteSet(rateSet') /\ rateSet' \subseteq [by : Hit, score : Nat]
        /\ \A m \in rateSet' : m \in rateSet \/ (m.by = h /\ m.score = rateNow'[h])
    BY <2>1, <2>2, SetGrows DEF WithRequest
  <2> QED
    BY <1>0, <2>1, <2>2, <2>3, BaseAfter DEF Told, Pending
<1>7. CASE RedisFails(h)
  <2>1. Moves(h) /\ MemoryTells(h) /\ rateNow'[h] = rateNow[h]
    BY <1>7, FallbackShapes DEF RedisFails
  <2>2. rateBucket' = rateBucket /\ rateCrowd' = rateCrowd
        /\ (rateSet' = rateSet \/ rateSet' = Trimmed(rateNow[h]) \/ rateSet' = WithRequest(h))
    BY <1>7 DEF RedisFails
  <2>3. IsFiniteSet(rateSet') /\ rateSet' \subseteq [by : Hit, score : Nat]
        /\ \A m \in rateSet' : m \in rateSet \/ (m.by = h /\ m.score = rateNow'[h])
    <3>1. CASE rateSet' = WithRequest(h)
      BY <2>1, <3>1, SetGrows DEF WithRequest
    <3>2. CASE rateSet' = Trimmed(rateNow[h])
      BY <1>0, <3>2, SetShrinks
    <3> QED
      BY <1>0, <2>2, <3>1, <3>2
  <2> QED
    BY <1>0, <2>1, <2>2, <2>3, MemoryKept, BaseAfter DEF Told, Pending
<1> QED
  BY <1>1, <1>2, <1>3, <1>4, <1>5, <1>6, <1>7

-----------------------------------------------------------------------------
(* The room in Redis.                                                       *)
LEMMA OnTheWay ==
    ASSUME RateBase, NEW h \in Hit, Moves(h)
    PROVE  /\ IsFiniteSet(InFlight) /\ Cardinality(InFlight) \in Nat
           /\ IsFiniteSet(InFlight') /\ Cardinality(InFlight') \in Nat
           /\ IsFiniteSet(Adders) /\ Cardinality(Adders) \in Nat
           /\ IsFiniteSet(Adders') /\ Cardinality(Adders') \in Nat /\ Adders \subseteq InFlight
           /\ InFlight' = IF rateStep'[h] \in Pending THEN InFlight \cup {h} ELSE InFlight \ {h}
           /\ Adders' = IF rateStep'[h] = "add" THEN Adders \cup {h} ELSE Adders \ {h}
<1>1. /\ InFlight' = IF rateStep'[h] \in Pending THEN InFlight \cup {h} ELSE InFlight \ {h}
      /\ Adders' = IF rateStep'[h] = "add" THEN Adders \cup {h} ELSE Adders \ {h}
  BY DEF Moves, OneMoves, SameOf, InFlight, Adders, Pending
<1>2. InFlight \subseteq Hit /\ InFlight' \subseteq Hit /\ Adders \subseteq InFlight /\ Adders' \subseteq Hit
  BY DEF InFlight, Adders
<1>3. IsFiniteSet(Hit)
  BY RateAssumption
<1>4. IsFiniteSet(InFlight) /\ IsFiniteSet(InFlight') /\ IsFiniteSet(Adders) /\ IsFiniteSet(Adders')
  BY <1>2, <1>3, FS_Subset
<1> QED
  BY <1>1, <1>2, <1>4, FS_CardinalityType

LEMMA ExcessGrows ==
    ASSUME NEW less \in Nat, NEW more \in Nat, less <= more
    PROVE  Excess(less) \in Nat /\ Excess(more) \in Nat /\ Excess(less) <= Excess(more)
  BY DEF Excess

(* Nobody is counted in: the set grows only by who leaves the adders.       *)
LEMMA NoMoreRoomTaken ==
    ASSUME RateBase, RateBase', Crowded, NEW h \in Hit, Moves(h), rateStep'[h] # "add",
           rateCrowd' \in Nat, rateCrowd' >= rateCrowd,
           rateSet' \subseteq rateSet \/ (rateSet' = WithRequest(h) /\ h \in Adders)
    PROVE  Cardinality(rateSet') + Cardinality(Adders') <= MaxRequests' + Excess(rateCrowd')
<1>1. /\ MaxRequests \in Nat /\ rateCrowd \in Nat /\ IsFiniteSet(rateSet) /\ Cardinality(rateSet) \in Nat
      /\ Cardinality(rateSet') \in Nat
  BY Settings, FS_CardinalityType DEF RateBase, RateTypes
<1>2. /\ Excess(rateCrowd) <= Excess(rateCrowd') /\ Excess(rateCrowd) \in Nat /\ Excess(rateCrowd') \in Nat
      /\ MaxRequests' = MaxRequests
  <2>1. MaxRequests' = MaxRequests
    BY DEF MaxRequests, Moves, OneMoves
  <2> QED
    BY <1>1, <2>1, ExcessGrows
<1>3. IsFiniteSet(Adders) /\ Cardinality(Adders) \in Nat /\ Adders' = Adders \ {h}
  BY OnTheWay
<1>4. Cardinality(Adders') = IF h \in Adders THEN Cardinality(Adders) - 1 ELSE Cardinality(Adders)
  BY <1>3, FS_RemoveElement
<1>5. CASE rateSet' \subseteq rateSet
  <2>1. Cardinality(rateSet') <= Cardinality(rateSet)
    BY <1>1, <1>5, FS_Subset
  <2> QED
    BY <1>1, <1>2, <1>3, <1>4, <2>1 DEF Crowded
<1>6. CASE rateSet' = WithRequest(h) /\ h \in Adders
  <2>1. Cardinality(rateSet') <= Cardinality(rateSet) + 1
    BY <1>6, SetGrows
  <2> QED
    BY <1>1, <1>2, <1>3, <1>4, <1>6, <2>1 DEF Crowded
<1> QED
  BY <1>5, <1>6

LEMMA CountedIn ==
    ASSUME RateBase, RateBase', Crowded, NEW h \in Hit, Count(h)
    PROVE  Cardinality(rateSet') + Cardinality(Adders') <= MaxRequests' + Excess(rateCrowd')
<1>1. Moves(h) /\ rateStep'[h] = (IF Full THEN "reject" ELSE "add")
  BY RedisShapes, Zenon DEF GoesOn
<1>2. /\ rateSet' = rateSet /\ rateCrowd' = rateCrowd /\ rateCrowd \in Nat /\ h \in InFlight /\ h \notin Adders
      /\ MaxRequests' = MaxRequests
  BY <1>1 DEF Count, RateBase, RateTypes, InFlight, Adders, MaxRequests
<1>3. CASE Full
  BY <1>1, <1>2, <1>3, NoMoreRoomTaken
<1>4. CASE ~Full
  <2>1. /\ MaxRequests \in Nat /\ IsFiniteSet(rateSet) /\ Cardinality(rateSet) \in Nat
        /\ Cardinality(rateSet) < MaxRequests
    <3>1. MaxRequests \in Nat /\ IsFiniteSet(rateSet) /\ Cardinality(rateSet) \in Nat
      BY Settings, FS_CardinalityType DEF RateBase, RateTypes
    <3> QED
      BY <1>4, <3>1 DEF Full
  <2>2. /\ IsFiniteSet(Adders) /\ Cardinality(Adders) \in Nat /\ Adders' = Adders \cup {h}
        /\ IsFiniteSet(InFlight) /\ Cardinality(InFlight) \in Nat /\ Adders \subseteq InFlight
        /\ Cardinality(Adders') \in Nat
    BY <1>1, <1>4, OnTheWay
  <2>3. Adders' \subseteq InFlight
    BY <1>2, <2>2
  <2>4. Cardinality(Adders') <= Cardinality(InFlight) /\ Cardinality(Adders') >= 1
    <3>1. Cardinality(Adders') <= Cardinality(InFlight)
      BY <2>2, <2>3, FS_Subset
    <3>2. Cardinality(Adders') = Cardinality(Adders) + 1
      BY <1>2, <2>2, OnePlus
    <3> QED
      BY <2>2, <3>1, <3>2
  <2>5. Cardinality(Adders') <= rateCrowd
    BY <1>2, <2>2, <2>4 DEF Crowded
  <2>6. Excess(rateCrowd') >= Cardinality(Adders') - 1 /\ Excess(rateCrowd') \in Nat
    BY <1>2, <2>2, <2>4, <2>5 DEF Excess
  <2> QED
    BY <1>2, <2>1, <2>2, <2>6
<1> QED
  BY <1>3, <1>4

LEMMA FlightFits ==
    ASSUME RateBase, Crowded, NEW h \in Hit, Moves(h), rateCrowd' = rateCrowd,
           h \in InFlight \/ rateStep'[h] \notin Pending
    PROVE  Cardinality(InFlight') <= rateCrowd'
<1>1. IsFiniteSet(InFlight) /\ Cardinality(InFlight) \in Nat /\ Cardinality(InFlight') \in Nat /\ rateCrowd \in Nat
  BY OnTheWay DEF RateBase, RateTypes
<1>2. InFlight' \subseteq InFlight
  BY OnTheWay
<1>3. Cardinality(InFlight') <= Cardinality(InFlight)
  BY <1>1, <1>2, FS_Subset
<1> QED
  BY <1>1, <1>3 DEF Crowded

LEMMA CrowdedMoves ==
    ASSUME RateBase, RateBase', Bucket, Crowded, NEW h \in Hit,
           \/ ArriveMemory(h) \/ ArriveRedis(h) \/ ArriveBucket(h) \/ Trim(h) \/ Count(h)
           \/ Reject(h) \/ Add(h) \/ RedisFails(h)
    PROVE  Crowded' /\ rateCrowd <= rateCrowd'
<1>0. /\ rateCrowd \in Nat /\ MaxRequests \in Nat /\ rateNow[h] \in Nat /\ IsFiniteSet(InFlight)
      /\ Cardinality(InFlight) \in Nat /\ Cardinality(rateMemory) <= MaxRequests
  BY Settings, FS_Subset, FS_CardinalityType, RateAssumption DEF RateBase, RateTypes, InFlight, Crowded
<1>1. ASSUME ArriveRedis(h) PROVE Crowded' /\ rateCrowd <= rateCrowd'
  <2>1. Moves(h) /\ rateStep'[h] = "trim"
    BY <1>1, RedisShapes DEF GoesOn
  <2>2. rateSet' = rateSet /\ rateMemory' = rateMemory /\ h \notin InFlight /\ MaxRequests' = MaxRequests
    BY <1>1 DEF ArriveRedis, InFlight, MaxRequests
  <2>3. PICK k \in Nat : k = Cardinality(InFlight) + 1
    BY <1>0
  <2>4. rateCrowd' = Max({rateCrowd, k})
    BY <1>1, <2>3 DEF ArriveRedis
  <2>5. rateCrowd' \in Nat /\ rateCrowd <= rateCrowd' /\ k <= rateCrowd'
    BY <1>0, <2>3, <2>4, MaxOfTwo
  <2>6. InFlight' = InFlight \cup {h}
    BY <2>1, OnTheWay DEF Pending
  <2>7. Cardinality(InFlight') = k
    BY <1>0, <2>2, <2>3, <2>6, OnePlus
  <2>8. Cardinality(rateSet') + Cardinality(Adders') <= MaxRequests' + Excess(rateCrowd')
    BY <2>1, <2>2, <2>5, NoMoreRoomTaken
  <2> QED
    BY <1>0, <2>2, <2>5, <2>7, <2>8 DEF Crowded
<1>2. ASSUME Moves(h), rateCrowd' = rateCrowd, h \in InFlight \/ rateStep'[h] \notin Pending,
             rateStep'[h] # "add", rateSet' \subseteq rateSet \/ (rateSet' = WithRequest(h) /\ h \in Adders),
             rateMemory' = rateMemory \/ MemoryTells(h)
      PROVE  Crowded' /\ rateCrowd <= rateCrowd'
  <2>1. MaxRequests' = MaxRequests
    BY <1>2 DEF Moves, OneMoves, MaxRequests
  <2>2. Cardinality(InFlight') <= rateCrowd'
    BY <1>2, FlightFits
  <2>3. Cardinality(rateSet') + Cardinality(Adders') <= MaxRequests' + Excess(rateCrowd')
    BY <1>0, <1>2, NoMoreRoomTaken
  <2>4. Cardinality(rateMemory') <= MaxRequests'
    BY <1>0, <1>2, <2>1, MemoryKept
  <2> QED
    BY <1>0, <1>2, <2>2, <2>3, <2>4 DEF Crowded
<1>3. ASSUME ArriveMemory(h) PROVE Crowded' /\ rateCrowd <= rateCrowd'
  <2>1. Moves(h) /\ MemoryTells(h) /\ rateStep'[h] \in Told
    BY <1>3, FallbackShapes, MemoryKept
  <2> QED
    BY <1>2, <1>3, <2>1 DEF ArriveMemory, Told, Pending
<1>4. ASSUME ArriveBucket(h) PROVE Crowded' /\ rateCrowd <= rateCrowd'
  <2>1. Moves(h) /\ rateStep'[h] \in Told
    BY <1>4, BucketShape DEF BucketTells, IsTold, Told
  <2> QED
    BY <1>2, <1>4, <2>1 DEF ArriveBucket, Told, Pending
<1>5. ASSUME Trim(h) PROVE Crowded' /\ rateCrowd <= rateCrowd'
  <2>1. Moves(h) /\ rateStep'[h] = "count"
    BY <1>5, RedisShapes DEF GoesOn
  <2>2. rateCrowd' = rateCrowd /\ rateMemory' = rateMemory /\ rateSet' \subseteq rateSet /\ h \in InFlight
    BY <1>0, <1>5, SetShrinks DEF Trim, InFlight
  <2> QED
    BY <1>2, <2>1, <2>2
<1>6. ASSUME Count(h) PROVE Crowded' /\ rateCrowd <= rateCrowd'
  <2>1. Moves(h) /\ rateCrowd' = rateCrowd /\ rateMemory' = rateMemory /\ h \in InFlight
        /\ MaxRequests' = MaxRequests
    BY <1>6, RedisShapes DEF Count, InFlight, MaxRequests
  <2>2. Cardinality(InFlight') <= rateCrowd'
    BY <2>1, FlightFits
  <2> QED
    BY <1>0, <1>6, <2>1, <2>2, CountedIn DEF Crowded
<1>7. ASSUME Reject(h) PROVE Crowded' /\ rateCrowd <= rateCrowd'
  <2>1. Moves(h) /\ rateStep'[h] = "rejected"
    BY <1>7, RejectShape DEF IsTold
  <2> QED
    BY <1>2, <1>7, <2>1 DEF Reject, Pending
<1>8. ASSUME Add(h) PROVE Crowded' /\ rateCrowd <= rateCrowd'
  <2>1. Moves(h) /\ rateStep'[h] = "allowed"
    BY <1>8, RedisShapes DEF IsTold
  <2> QED
    BY <1>2, <1>8, <2>1 DEF Add, Adders, Pending
<1>9. ASSUME RedisFails(h) PROVE Crowded' /\ rateCrowd <= rateCrowd'
  <2>1. Moves(h) /\ MemoryTells(h) /\ rateStep'[h] \in Told
    BY <1>9, FallbackShapes, MemoryKept
  <2>2. rateCrowd' = rateCrowd
        /\ (rateSet' = rateSet \/ rateSet' = Trimmed(rateNow[h]) \/ (rateSet' = WithRequest(h) /\ h \in Adders))
    BY <1>9 DEF RedisFails, Adders
  <2>3. rateSet' \subseteq rateSet \/ (rateSet' = WithRequest(h) /\ h \in Adders)
    BY <1>0, <2>2, SetShrinks
  <2> QED
    BY <1>2, <2>1, <2>2, <2>3 DEF Told, Pending
<1> QED
  BY <1>1, <1>3, <1>4, <1>5, <1>6, <1>7, <1>8, <1>9

-----------------------------------------------------------------------------
(* Who is remembered, when requests come one after another.                 *)
LEMMA OnlyOne ==
    ASSUME RateBase, Crowded, rateCrowd <= 1, NEW h \in InFlight
    PROVE  InFlight = {h}
<1>1. IsFiniteSet(InFlight)
  BY FS_Subset, RateAssumption DEF InFlight
<1>2. IsFiniteSet(InFlight \ {h}) /\ Cardinality(InFlight \ {h}) = Cardinality(InFlight) - 1
  BY <1>1, FS_RemoveElement
<1>3. Cardinality(InFlight) \in Nat /\ Cardinality(InFlight \ {h}) \in Nat /\ Cardinality(InFlight) <= 1
  BY <1>1, <1>2, FS_CardinalityType DEF Crowded, RateBase, RateTypes
<1>4. Cardinality(InFlight \ {h}) = 0
  BY <1>2, <1>3
<1>5. InFlight \ {h} = {}
  BY <1>2, <1>4, FS_EmptySet
<1> QED
  BY <1>5

LEMMA NobodyElse ==
    ASSUME RateBase, Crowded, rateCrowd <= 1, NEW h \in Hit, Moves(h), limiter.kind # "redis" \/ h \in InFlight
    PROVE  InFlight \subseteq {h} /\ InFlight' \subseteq {h}
<1>1. InFlight \subseteq {h}
  BY OnlyOne DEF RateBase, ThroughRedis, InFlight, Pending
<1> QED
  BY <1>1, OnTheWay

LEMMA BeyondStays ==
    ASSUME RateBase, NEW h \in Hit, Moves(h), NEW g \in Hit \ {h}, Beyond(g)
    PROVE  Beyond(g)'
<1>1. rateNow'[g] = rateNow[g] /\ Window' = Window /\ rateTime' = rateTime
  BY DEF Moves, OneMoves, SameOf, Window
<1>2. InFlight' \subseteq InFlight \cup {h} /\ \A k \in InFlight' : rateNow'[k] = rateNow[k] \/ rateNow'[k] = rateTime
  BY OnTheWay DEF Moves, OneMoves, SameOf, InFlight
<1>3. \A k \in InFlight' : rateNow'[g] <= rateNow'[k] - Window'
  <2> TAKE k \in InFlight'
  <2>1. CASE rateNow'[k] = rateTime
    BY <1>1, <2>1 DEF Beyond
  <2>2. CASE rateNow'[k] # rateTime
    <3>1. rateNow'[k] = rateNow[k] /\ k \in InFlight
      BY <1>2, <2>2 DEF Moves
    <3> QED
      BY <1>1, <3>1 DEF Beyond
  <2> QED
    BY <2>1, <2>2
<1>4. rateNow'[g] <= rateTime' - Window'
  BY <1>1 DEF Beyond
<1> QED
  BY <1>3, <1>4 DEF Beyond

LEMMA Forgets ==
    ASSUME RateBase, NEW h \in Hit, Moves(h), InFlight' \subseteq {h}, NEW g \in Hit \ {h},
           rateNow[g] <= rateNow'[h] - Window
    PROVE  Beyond(g)'
<1>1. rateNow'[g] = rateNow[g] /\ Window' = Window /\ rateTime' = rateTime /\ rateNow'[h] <= rateTime
  BY DEF Moves, OneMoves, SameOf, Window
<1>2. rateNow[g] \in Nat /\ rateNow'[h] \in Nat /\ Window \in Nat /\ rateTime \in Nat
  BY Settings DEF RateBase, RateTypes, Moves, Fits
<1>3. rateNow'[g] <= rateTime' - Window'
  BY <1>1, <1>2
<1>4. \A k \in InFlight' : rateNow'[g] <= rateNow'[k] - Window'
  BY <1>1
<1> QED
  BY <1>3, <1>4 DEF Beyond

Lets(h, by) == rateStep'[h] = "allowed" /\ rateBy'[h] = by
LEMMA GrantedAfter ==
    ASSUME RateBase, NEW h \in Hit, Moves(h), NEW by
    PROVE  /\ h \notin Granted(by) /\ Granted(by)' = IF Lets(h, by) THEN Granted(by) \cup {h} ELSE Granted(by)
           /\ \A g \in Granted(by) : g \in Hit \ {h} /\ SameOf(g)
  BY DEF Moves, OneMoves, SameOf, Granted, Lets, Told

(* What is forgotten is out of reach of who is on his way and of the clock. *)
OutOfReach(old, new, n) == \A m \in old \ new : m.score <= n - Window
LEMMA KnownAfter ==
    ASSUME RateBase, Recalled, NEW h \in Hit, Moves(h),
           OutOfReach(rateSet, rateSet', rateNow'[h]), OutOfReach(rateMemory, rateMemory', rateNow'[h]),
           (rateSet' = rateSet /\ rateMemory' = rateMemory) \/ InFlight' \subseteq {h},
           Lets(h, "redis") => \E m \in rateSet' : m.by = h,
           Lets(h, "memory") => \E m \in rateMemory' : m.by = h
    PROVE  Recalled'
<1>1. ASSUME NEW by, NEW old, NEW new, NEW g \in Granted(by), OutOfReach(old, new, rateNow'[h]),
             Beyond(g) \/ \E m \in old : m.by = g,
             \A m \in old : m.score = rateNow[m.by], new = old \/ InFlight' \subseteq {h}
      PROVE  Beyond(g)' \/ \E m \in new : m.by = g
  <2>1. g \in Hit \ {h}
    BY GrantedAfter
  <2>2. CASE Beyond(g)
    BY <2>1, <2>2, BeyondStays
  <2>3. ASSUME NEW m \in old, m.by = g PROVE Beyond(g)' \/ \E k \in new : k.by = g
    <3>1. CASE m \in new
      BY <2>3, <3>1
    <3>2. CASE m \notin new
      <4>1. rateNow[g] <= rateNow'[h] - Window /\ InFlight' \subseteq {h}
        BY <1>1, <2>3, <3>2 DEF OutOfReach
      <4> QED
        BY <2>1, <4>1, Forgets
    <3> QED
      BY <3>1, <3>2
  <2> QED
    BY <1>1, <2>2, <2>3
<1>2. /\ \A m \in rateSet : m.score = rateNow[m.by]
      /\ \A m \in rateMemory : m.score = rateNow[m.by]
  BY DEF RateBase, Remembered
<1>3. \A g \in Granted("redis")' : Beyond(g)' \/ \E m \in rateSet' : m.by = g
  <2> TAKE g \in Granted("redis")'
  <2>1. CASE g = h
    BY <2>1, GrantedAfter
  <2>2. CASE g # h
    <3>1. g \in Granted("redis")
      BY <2>2, GrantedAfter
    <3>2. Beyond(g) \/ \E m \in rateSet : m.by = g
      BY <3>1 DEF Recalled
    <3> QED
      BY <1>1, <1>2, <3>1, <3>2
  <2> QED
    BY <2>1, <2>2
<1>4. \A g \in Granted("memory")' : Beyond(g)' \/ \E m \in rateMemory' : m.by = g
  <2> TAKE g \in Granted("memory")'
  <2>1. CASE g = h
    BY <2>1, GrantedAfter
  <2>2. CASE g # h
    <3>1. g \in Granted("memory")
      BY <2>2, GrantedAfter
    <3>2. Beyond(g) \/ \E m \in rateMemory : m.by = g
      BY <3>1 DEF Recalled
    <3> QED
      BY <1>1, <1>2, <3>1, <3>2
  <2> QED
    BY <2>1, <2>2
<1> QED
  BY <1>3, <1>4 DEF Recalled

LEMMA LetInIs ==
    ASSUME RateBase, NEW h \in Hit, Moves(h), NEW by, NEW t \in Nat
    PROVE  /\ h \notin LetIn(by, t) /\ LetIn(by, t) \subseteq Granted(by)
           /\ LetIn(by, t)' = IF Lets(h, by) /\ t - Window < rateNow'[h] /\ rateNow'[h] <= t
                               THEN LetIn(by, t) \cup {h} ELSE LetIn(by, t)
           /\ IsFiniteSet(LetIn(by, t)) /\ Cardinality(LetIn(by, t)) \in Nat
<1>1. h \notin LetIn(by, t) /\ LetIn(by, t) \subseteq Granted(by)
  BY DEF LetIn, Granted, Moves, OneMoves, Told
<1>2. Window' = Window /\ \A g \in Hit \ {h} : g \in LetIn(by, t)' <=> g \in LetIn(by, t)
  BY DEF LetIn, Window, Moves, OneMoves, SameOf
<1>3. h \in LetIn(by, t)' <=> Lets(h, by) /\ t - Window < rateNow'[h] /\ rateNow'[h] <= t
  BY <1>2 DEF LetIn, Lets
<1>4. LetIn(by, t) \subseteq Hit /\ LetIn(by, t)' \subseteq Hit
  BY DEF LetIn
<1>5. IsFiniteSet(LetIn(by, t))
  BY <1>4, FS_Subset, RateAssumption
<1> QED
  BY <1>1, <1>2, <1>3, <1>4, <1>5, FS_CardinalityType

(* As many were let in as have left something.                              *)
LEMMA NoMoreThanLeft ==
    ASSUME NEW G, NEW K, IsFiniteSet(K), \A g \in G : \E m \in K : m.by = g
    PROVE  Cardinality(G) <= Cardinality(K)
<1>1. PICK B : B = {m.by : m \in K}
  OBVIOUS
<1>2. PICK f : f = [m \in K |-> m.by]
  OBVIOUS
<1>3. f \in Surjection(K, B)
  BY <1>1, <1>2 DEF Surjection
<1>4. IsFiniteSet(B) /\ Cardinality(B) <= Cardinality(K)
  BY <1>3, FS_Surjection
<1>5. G \subseteq B
  BY <1>1
<1>6. Cardinality(G) <= Cardinality(B) /\ IsFiniteSet(G)
  BY <1>4, <1>5, FS_Subset
<1>7. Cardinality(G) \in Nat /\ Cardinality(B) \in Nat /\ Cardinality(K) \in Nat
  BY <1>4, <1>6, FS_CardinalityType
<1> QED
  BY <1>4, <1>6, <1>7

LEMMA RoomForOne ==
    ASSUME RateBase, NEW h \in Hit, Moves(h), NEW by, NEW t \in Nat, NEW K, IsFiniteSet(K),
           Cardinality(K) < MaxRequests,
           \A g \in Granted(by) :
              Beyond(g) \/ rateNow[g] <= rateNow'[h] - Window \/ \E m \in K : m.by = g,
           Cardinality(LetIn(by, t)) <= MaxRequests
    PROVE  Cardinality(LetIn(by, t)') <= MaxRequests
<1>1. /\ Window \in Nat /\ MaxRequests \in Nat /\ Cardinality(K) \in Nat /\ rateNow'[h] \in Nat
      /\ rateTime \in Nat
  BY Settings, FS_CardinalityType DEF RateBase, RateTypes, Moves, Fits
<1>2. CASE LetIn(by, t)' = LetIn(by, t)
  BY <1>2
<1>3. CASE LetIn(by, t)' # LetIn(by, t)
  <2>1. LetIn(by, t)' = LetIn(by, t) \cup {h} /\ rateNow'[h] <= t
    BY <1>3, LetInIs
  <2>2. \A g \in LetIn(by, t) : \E m \in K : m.by = g
    <3> SUFFICES ASSUME NEW g \in LetIn(by, t), ~ \E m \in K : m.by = g PROVE FALSE
      OBVIOUS
    <3>1. g \in Granted(by) /\ t - Window < rateNow[g] /\ rateNow[g] \in Nat
      BY DEF LetIn, Granted, RateBase, RateTypes
    <3>2. Beyond(g) \/ rateNow[g] <= rateNow'[h] - Window
      BY <3>1
    <3>3. rateNow[g] <= rateNow'[h] - Window
      BY <3>2 DEF Beyond, Moves
    <3> QED
      BY <1>1, <2>1, <3>1, <3>3
  <2>3. Cardinality(LetIn(by, t)) <= Cardinality(K)
    BY <2>2, NoMoreThanLeft
  <2>4. IsFiniteSet(LetIn(by, t)) /\ Cardinality(LetIn(by, t)) \in Nat
    BY LetInIs
  <2>5. Cardinality(LetIn(by, t)') <= Cardinality(LetIn(by, t)) + 1 /\ Cardinality(LetIn(by, t)') \in Nat
    BY <2>1, <2>4, OnePlus
  <2> QED
    BY <1>1, <2>3, <2>4, <2>5
<1> QED
  BY <1>2, <1>3

LEMMA RefusalsAfter ==
    ASSUME RateBase, Refusals, NEW h \in Hit, Moves(h), rateSet' = rateSet \/ InFlight' \subseteq {h},
           rateStep'[h] = "reject" => Cardinality(rateSet') >= MaxRequests
    PROVE  Refusals'
<1>1. MaxRequests' = MaxRequests
  BY DEF MaxRequests, Moves, OneMoves
<1>2. ASSUME NEW k \in Hit, rateStep'[k] = "reject" PROVE Cardinality(rateSet') >= MaxRequests'
  <2>1. CASE k = h
    BY <1>1, <1>2, <2>1
  <2>2. CASE k # h
    <3>1. rateStep[k] = "reject" /\ k \in InFlight'
      BY <1>2, <2>2 DEF Moves, OneMoves, SameOf, InFlight
    <3> QED
      BY <1>1, <2>2, <3>1 DEF Refusals
  <2> QED
    BY <2>1, <2>2
<1> QED
  BY <1>2 DEF Refusals

LEMMA RedisIsTrueAfter ==
    ASSUME RateBase, RateBase', RedisIsTrue, NEW h \in Hit, Moves(h),
           \A m \in rateSet' : m \in rateSet \/ (m.by = h /\ rateTold'[h] = rateTime),
           rateStep'[h] = "rejected" /\ rateBy'[h] = "redis" => Cardinality(Before(h)') < MaxRequests
    PROVE  RedisIsTrue'
<1>1. MaxRequests' = MaxRequests /\ Window' = Window /\ MaxRequests \in Nat
  BY Settings DEF MaxRequests, Window, Moves, OneMoves, RateBase
<1>2. ASSUME NEW k \in Hit, rateStep'[k] = "rejected", rateBy'[k] = "redis"
      PROVE  Cardinality(Before(k)') < MaxRequests'
  <2>1. CASE k = h
    BY <1>1, <1>2, <2>1
  <2>2. CASE k # h
    <3>1. SameOf(k) /\ rateStep[k] = "rejected" /\ rateBy[k] = "redis"
      BY <1>2, <2>2 DEF Moves, OneMoves, SameOf
    <3>2. Due(k)' = Due(k) /\ rateTold'[k] = rateTold[k] /\ rateTold[k] <= rateTime /\ rateTold[k] \in Nat
          /\ rateTime \in Nat
      BY <3>1 DEF SameOf, Due, RateBase, RateTypes, Past
    <3>3. ASSUME NEW m \in Before(k)' PROVE m \in Before(k)
      <4>1. m \in rateSet' /\ rateTold'[m.by] < rateTold[k] /\ m.score > Due(k) - Window
        BY <1>1, <3>2 DEF Before
      <4>2. m \in rateSet
        BY <3>2, <4>1
      <4>3. m.by \in Hit \ {h}
        BY <4>2 DEF RateBase, RateTypes, Remembered, Moves, OneMoves
      <4>4. rateTold'[m.by] = rateTold[m.by]
        BY <4>3 DEF Moves, OneMoves, SameOf
      <4> QED
        BY <4>1, <4>2, <4>4 DEF Before
    <3>4. IsFiniteSet(rateSet) /\ Before(k) \subseteq rateSet
      BY DEF RateBase, RateTypes, Before
    <3>5. IsFiniteSet(Before(k)) /\ Cardinality(Before(k)) \in Nat
      BY <3>4, FS_Subset, FS_CardinalityType
    <3>6. PICK less : less = Before(k)'
      OBVIOUS
    <3>7. IsFiniteSet(less) /\ Cardinality(less) <= Cardinality(Before(k)) /\ Cardinality(less) \in Nat
      BY <3>3, <3>5, <3>6, FS_Subset, FS_CardinalityType
    <3>8. Cardinality(Before(k)) < MaxRequests
      BY <3>1 DEF RedisIsTrue
    <3> QED
      BY <1>1, <3>5, <3>6, <3>7, <3>8
  <2> QED
    BY <2>1, <2>2
<1> QED
  BY <1>2 DEF RedisIsTrue

LEMMA RedisWaits ==
    ASSUME RateBase, RateBase', Crowded, rateCrowd <= 1, Refusals, NEW h \in Hit, Reject(h)
    PROVE  Cardinality(Before(h)') < MaxRequests
<1>1. Moves(h) /\ rateTold'[h] = rateTime /\ Waits(h, Oldest(h) + Window - rateNow[h]) /\ rateSet' = rateSet
  BY RejectShape DEF IsTold, Reject
<1>2. /\ MaxRequests \in Nat \ {0} /\ IsFiniteSet(rateSet) /\ Cardinality(rateSet) \in Nat /\ Window \in Nat
      /\ PerSecond \in Nat /\ rateNow[h] \in Nat /\ rateNow[h] <= rateTime /\ rateTime \in Nat
  BY Settings, FS_CardinalityType DEF RateBase, RateTypes, Past
<1>3. Cardinality(rateSet) >= MaxRequests
  BY DEF Refusals, Reject
<1>4. Cardinality(rateSet) <= MaxRequests
  <2>1. IsFiniteSet(Adders) /\ Cardinality(Adders) \in Nat
    BY <1>1, OnTheWay
  <2>2. Excess(rateCrowd) = 0
    BY DEF Excess, RateBase, RateTypes
  <2> QED
    BY <1>2, <2>1, <2>2 DEF Crowded
<1>5. rateSet # {}
  BY <1>2, <1>3, FS_EmptySet
<1>6. PICK m \in rateSet : m.score = Oldest(h)
  BY <1>5, OldestIs
<1>7. m.score \in Nat
  BY DEF RateBase, RateTypes
<1>8. PICK retry \in Nat : retry = rateRetry'[h] /\ retry * PerSecond >= m.score + Window - rateNow[h]
  BY <1>1, <1>6 DEF Waits
<1>9. PICK w \in Nat : w = retry * PerSecond
  BY <1>2, <1>8
<1>10. Due(h)' = rateTime + w
  BY <1>1, <1>8, <1>9 DEF Due
<1>11. m.score <= rateTime + w - Window
  BY <1>2, <1>7, <1>8, <1>9
<1>12. Window' = Window
  BY <1>1 DEF Moves, OneMoves, Window
<1>13. PICK less : less = Before(h)'
  OBVIOUS
<1>14. \A k \in less : k \in rateSet' /\ k.score > Due(h)' - Window'
  BY <1>13 DEF Before
<1>15. m \notin less
  BY <1>2, <1>7, <1>9, <1>10, <1>11, <1>12, <1>14
<1>16. less \subseteq rateSet \ {m}
  BY <1>1, <1>14, <1>15
<1>17. IsFiniteSet(rateSet \ {m}) /\ Cardinality(rateSet \ {m}) = Cardinality(rateSet) - 1
  BY <1>2, FS_RemoveElement
<1>18. Cardinality(less) <= Cardinality(rateSet \ {m}) /\ IsFiniteSet(less)
  BY <1>16, <1>17, FS_Subset
<1>19. Cardinality(less) \in Nat
  BY <1>18, FS_CardinalityType
<1> QED
  BY <1>2, <1>4, <1>13, <1>17, <1>18, <1>19

AloneParts == Recalled /\ Windows /\ Refusals /\ RedisIsTrue
LEMMA NoneLetIn ==
    ASSUME RateBase, Windows, NEW h \in Hit, Moves(h), NEW by \in {"redis", "memory"}, ~ Lets(h, by), NEW t \in Nat
    PROVE  Cardinality(LetIn(by, t)') <= MaxRequests
  BY LetInIs DEF Windows

LEMMA AloneMemory ==
    ASSUME RateBase, RateBase', Crowded, rateCrowd <= 1, AloneParts, NEW h \in Hit,
           ArriveMemory(h) \/ RedisFails(h)
    PROVE  AloneParts'
<1>1. Moves(h) /\ MemoryTells(h) /\ rateStep'[h] \in Told /\ rateTold'[h] = rateTime /\ rateBy'[h] = "memory"
      /\ MaxRequests' = MaxRequests
  BY FallbackShapes DEF MemoryTells, IsTold, Told, MaxRequests, Moves, OneMoves
<1>2. PICK n \in Nat : n = rateNow'[h]
  BY <1>1 DEF Moves, Fits
<1>3. limiter.kind # "redis" \/ h \in InFlight
  BY DEF ArriveMemory, RedisFails, InFlight
<1>4. InFlight' \subseteq {h}
  BY <1>1, <1>3, NobodyElse
<1>5. rateSet' = rateSet \/ rateSet' = Trimmed(n) \/ rateSet' = WithRequest(h)
  BY <1>2 DEF ArriveMemory, RedisFails
<1>6. /\ OutOfReach(rateSet, rateSet', n)
      /\ \A m \in rateSet' : m \in rateSet \/ m.by = h
  <2>1. \A m \in rateSet : m.score \in Nat
    BY DEF RateBase, RateTypes
  <2>2. Window \in Nat
    BY Settings DEF RateBase
  <2> QED
    BY <1>2, <1>5, <2>1, <2>2 DEF OutOfReach, Trimmed, WithRequest
<1>7. OutOfReach(rateMemory, rateMemory', n)
  <2>1. \A m \in rateMemory : m.score \in Nat
    BY DEF RateBase, RateTypes
  <2>2. Window \in Nat
    BY Settings DEF RateBase
  <2>3. Recent(n) \subseteq rateMemory'
    BY <1>1, <1>2 DEF MemoryTells, Pushed
  <2> QED
    BY <2>1, <2>2, <2>3 DEF OutOfReach, Recent
<1>8. Lets(h, "memory") => \E m \in rateMemory' : m.by = h
  <2>1. Lets(h, "memory") => rateMemory' = Pushed(Recent(n), h, n)
    BY <1>1, <1>2 DEF Lets, MemoryTells, IsTold
  <2>2. PICK m : m = [by |-> h, score |-> n, place |-> Cardinality(Answered)]
    OBVIOUS
  <2>3. m.by = h
    BY <2>2
  <2>4. Lets(h, "memory") => m \in rateMemory'
    BY <2>1, <2>2 DEF Pushed
  <2> QED
    BY <2>3, <2>4
<1>9. Recalled'
  BY <1>1, <1>2, <1>4, <1>6, <1>7, <1>8, KnownAfter DEF AloneParts, Lets
<1>10. \A t \in Nat : Cardinality(LetIn("redis", t)') <= MaxRequests
  BY <1>1, NoneLetIn DEF AloneParts, Lets
<1>11. \A t \in Nat : Cardinality(LetIn("memory", t)') <= MaxRequests
  <2> TAKE t \in Nat
  <2>1. CASE ~ Lets(h, "memory")
    BY <1>1, <2>1, NoneLetIn DEF AloneParts
  <2>2. CASE Lets(h, "memory")
    <3>1. PICK K : K = Recent(n)
      OBVIOUS
    <3>2. IsFiniteSet(K) /\ Cardinality(K) < MaxRequests
      BY <1>1, <1>2, <2>2, <3>1, RecentIs DEF Lets, MemoryTells, IsTold, RateBase
    <3>3. \A g \in Granted("memory") : Beyond(g) \/ rateNow[g] <= rateNow'[h] - Window \/ \E m \in K : m.by = g
      <4>0. Window \in Nat /\ \A g \in Granted("memory") : rateNow[g] \in Nat
        BY Settings DEF Granted, RateBase, RateTypes
      <4> SUFFICES ASSUME NEW g \in Granted("memory"), ~ Beyond(g), rateNow[g] > n - Window
                   PROVE  \E m \in K : m.by = g
        BY <1>2, <4>0
      <4>1. PICK m \in rateMemory : m.by = g
        BY DEF AloneParts, Recalled
      <4>2. m.score = rateNow[g]
        BY <4>1 DEF RateBase, Remembered
      <4> QED
        BY <3>1, <4>1, <4>2 DEF Recent
    <3>4. Cardinality(LetIn("memory", t)) <= MaxRequests
      BY DEF AloneParts, Windows
    <3> QED
      BY <1>1, <3>2, <3>3, <3>4, RoomForOne
  <2> QED
    BY <2>1, <2>2
<1>12. Windows'
  BY <1>1, <1>10, <1>11 DEF Windows
<1>13. Refusals'
  BY <1>1, <1>4, RefusalsAfter DEF AloneParts, Told
<1>14. RedisIsTrue'
  BY <1>1, <1>6, RedisIsTrueAfter DEF AloneParts
<1> QED
  BY <1>9, <1>12, <1>13, <1>14 DEF AloneParts

LEMMA AloneAdd ==
    ASSUME RateBase, RateBase', Crowded, rateCrowd <= 1, AloneParts, NEW h \in Hit, Add(h)
    PROVE  AloneParts'
<1>1. Moves(h) /\ Lets(h, "redis") /\ ~ Lets(h, "memory") /\ rateStep'[h] = "allowed" /\ rateTold'[h] = rateTime
      /\ MaxRequests' = MaxRequests /\ h \in InFlight /\ h \in Adders
  BY RedisShapes DEF Lets, IsTold, Add, InFlight, Adders, MaxRequests
<1>2. InFlight' \subseteq {h}
  BY <1>1, NobodyElse
<1>3. rateSet' = WithRequest(h) /\ rateMemory' = rateMemory
  BY DEF Add
<1>4. Recalled'
  <2>1. PICK m : m = [by |-> h, score |-> rateNow[h]]
    OBVIOUS
  <2>2. m.by = h /\ m \in rateSet'
    BY <1>3, <2>1 DEF WithRequest
  <2>3. OutOfReach(rateSet, rateSet', rateNow'[h]) /\ OutOfReach(rateMemory, rateMemory', rateNow'[h])
    BY <1>3 DEF OutOfReach, WithRequest
  <2> QED
    BY <1>1, <1>2, <2>2, <2>3, KnownAfter DEF AloneParts
<1>5. \A t \in Nat : Cardinality(LetIn("memory", t)') <= MaxRequests
  BY <1>1, NoneLetIn DEF AloneParts
<1>6. IsFiniteSet(rateSet) /\ Cardinality(rateSet) < MaxRequests
  <2>1. Excess(rateCrowd) = 0
    BY DEF Excess, RateBase, RateTypes
  <2>2. IsFiniteSet(Adders) /\ Cardinality(Adders) \in Nat /\ Adders # {}
    BY <1>1, OnTheWay
  <2>3. Cardinality(Adders) # 0
    BY <2>2, FS_EmptySet
  <2>4. MaxRequests \in Nat /\ IsFiniteSet(rateSet) /\ Cardinality(rateSet) \in Nat
    BY Settings, FS_CardinalityType DEF RateBase, RateTypes
  <2> QED
    BY <2>1, <2>2, <2>3, <2>4 DEF Crowded
<1>7. \A t \in Nat : Cardinality(LetIn("redis", t)') <= MaxRequests
  <2> TAKE t \in Nat
  <2>1. Cardinality(LetIn("redis", t)) <= MaxRequests
    BY DEF AloneParts, Windows
  <2>2. \A g \in Granted("redis") : Beyond(g) \/ rateNow[g] <= rateNow'[h] - Window \/ \E m \in rateSet : m.by = g
    BY DEF AloneParts, Recalled
  <2> QED
    BY <1>1, <1>6, <2>1, <2>2, RoomForOne
<1>8. Windows'
  BY <1>1, <1>5, <1>7 DEF Windows
<1>9. Refusals'
  BY <1>1, <1>2, RefusalsAfter DEF AloneParts
<1>10. RedisIsTrue'
  BY <1>1, <1>3, RedisIsTrueAfter DEF AloneParts, WithRequest
<1> QED
  BY <1>4, <1>8, <1>9, <1>10 DEF AloneParts

LEMMA AloneTrim ==
    ASSUME RateBase, RateBase', Crowded, rateCrowd <= 1, AloneParts, NEW h \in Hit, Trim(h)
    PROVE  AloneParts'
<1>1. Moves(h) /\ rateStep'[h] = "count" /\ MaxRequests' = MaxRequests /\ h \in InFlight
      /\ ~ Lets(h, "redis") /\ ~ Lets(h, "memory")
  BY RedisShapes DEF GoesOn, Trim, Lets, InFlight, MaxRequests
<1>2. InFlight' \subseteq {h}
  BY <1>1, NobodyElse
<1>3. rateSet' = Trimmed(rateNow[h]) /\ rateMemory' = rateMemory /\ rateNow'[h] = rateNow[h]
  BY DEF Trim
<1>4. OutOfReach(rateSet, rateSet', rateNow'[h]) /\ rateSet' \subseteq rateSet
  <2>1. \A m \in rateSet : m.score \in Nat
    BY DEF RateBase, RateTypes
  <2>2. Window \in Nat /\ rateNow[h] \in Nat
    BY Settings DEF RateBase, RateTypes
  <2> QED
    BY <1>3, <2>1, <2>2 DEF OutOfReach, Trimmed
<1>5. OutOfReach(rateMemory, rateMemory', rateNow'[h])
  BY <1>3 DEF OutOfReach
<1>6. Recalled'
  BY <1>1, <1>2, <1>4, <1>5, KnownAfter DEF AloneParts
<1>7. Windows'
  BY <1>1, NoneLetIn DEF AloneParts, Windows
<1>8. Refusals'
  BY <1>1, <1>2, RefusalsAfter DEF AloneParts
<1>9. RedisIsTrue'
  BY <1>1, <1>4, RedisIsTrueAfter DEF AloneParts
<1> QED
  BY <1>6, <1>7, <1>8, <1>9 DEF AloneParts

LEMMA AloneOther ==
    ASSUME RateBase, RateBase', Crowded, rateCrowd <= 1, AloneParts, Bucket, NEW h \in Hit,
           ArriveRedis(h) \/ ArriveBucket(h) \/ Count(h) \/ Reject(h)
    PROVE  AloneParts'
<1>1. Moves(h) /\ rateSet' = rateSet /\ rateMemory' = rateMemory
  BY RedisShapes, RejectShape, BucketShape DEF ArriveRedis, ArriveBucket, Count, Reject
<1>2. MaxRequests' = MaxRequests
  BY <1>1 DEF MaxRequests, Moves, OneMoves
<1>3. ~ Lets(h, "redis") /\ ~ Lets(h, "memory")
  <2>1. CASE ArriveRedis(h) \/ Count(h)
    BY <2>1, RedisShapes DEF GoesOn, Lets
  <2>2. CASE Reject(h)
    BY <2>2, RejectShape DEF IsTold, Lets
  <2>3. CASE ArriveBucket(h)
    BY <2>3, BucketShape DEF BucketTells, IsTold, Lets
  <2> QED
    BY <2>1, <2>2, <2>3
<1>4. Recalled'
  BY <1>1, <1>3, KnownAfter DEF AloneParts, OutOfReach
<1>5. Windows'
  BY <1>1, <1>2, <1>3, NoneLetIn DEF AloneParts, Windows
<1>6. rateStep'[h] = "reject" => Cardinality(rateSet') >= MaxRequests
  <2>1. CASE ArriveRedis(h)
    BY <2>1, RedisShapes DEF GoesOn
  <2>2. CASE Reject(h)
    BY <2>2, RejectShape DEF IsTold
  <2>3. CASE ArriveBucket(h)
    BY <2>3, BucketShape DEF BucketTells, IsTold
  <2>4. CASE Count(h)
    BY <1>1, <2>4, RedisShapes DEF GoesOn, Full
  <2> QED
    BY <2>1, <2>2, <2>3, <2>4
<1>7. Refusals'
  BY <1>1, <1>6, RefusalsAfter DEF AloneParts
<1>8. rateStep'[h] = "rejected" /\ rateBy'[h] = "redis" => Cardinality(Before(h)') < MaxRequests
  <2>1. CASE ArriveRedis(h) \/ Count(h)
    BY <2>1, RedisShapes DEF GoesOn
  <2>2. CASE Reject(h)
    BY <2>2, RedisWaits DEF AloneParts
  <2>3. CASE ArriveBucket(h)
    BY <2>3, BucketShape DEF BucketTells, IsTold
  <2> QED
    BY <2>1, <2>2, <2>3
<1>9. RedisIsTrue'
  BY <1>1, <1>8, RedisIsTrueAfter DEF AloneParts
<1> QED
  BY <1>4, <1>5, <1>7, <1>9 DEF AloneParts

LEMMA AloneMoves ==
    ASSUME RateBase, RateBase', Crowded, Crowded', Alone, Bucket, NEW h \in Hit,
           \/ ArriveMemory(h) \/ ArriveRedis(h) \/ ArriveBucket(h) \/ Trim(h) \/ Count(h)
           \/ Reject(h) \/ Add(h) \/ RedisFails(h)
    PROVE  Alone'
<1> SUFFICES ASSUME rateCrowd' <= 1 PROVE AloneParts'
  BY DEF Alone, AloneParts
<1>1. rateCrowd <= 1
  <2>1. rateCrowd \in Nat /\ rateCrowd' \in Nat /\ rateCrowd <= rateCrowd'
    BY CrowdedMoves DEF RateBase, RateTypes
  <2> QED
    BY <2>1
<1>2. AloneParts
  BY <1>1 DEF Alone, AloneParts
<1> QED
  BY <1>1, <1>2, AloneMemory, AloneAdd, AloneTrim, AloneOther

-----------------------------------------------------------------------------
(* The memory says truly when it has room again.                            *)
LEMMA SinceStays ==
    ASSUME RateBase, NEW h \in Hit, Moves(h), NEW k \in Hit \ {h}, Since(k)
    PROVE  Since(k)'
  BY DEF Since, Moves, OneMoves, SameOf, Told

LEMMA SinceNow ==
    ASSUME RateBase, NEW h \in Hit, Moves(h), NEW k \in Hit \ {h}, rateStep'[h] = "allowed", rateTold'[h] = rateTime
    PROVE  Since(k)'
<1>1. rateTold'[k] = rateTold[k] /\ rateTold[k] <= rateTime /\ rateTold[k] \in Nat /\ rateTime \in Nat
  BY DEF Moves, OneMoves, SameOf, RateBase, Past, RateTypes
<1>2. rateTold'[h] >= rateTold'[k]
  BY <1>1
<1> QED
  BY <1>2 DEF Since

LEMMA MemoryWaits ==
    ASSUME RateBase, RateBase', Crowded, NEW h \in Hit, Moves(h), MemoryTells(h), rateStep'[h] = "rejected"
    PROVE  Cardinality(Left(h)') < MaxRequests
<1>1. PICK n \in Nat : n = rateNow'[h]
  BY DEF Moves, Fits
<1>2. PICK K : K = Recent(n)
  OBVIOUS
<1>3. /\ rateTold'[h] = rateTime /\ rateMemory' = K /\ Cardinality(K) >= MaxRequests
      /\ Waits(h, First(K).score + Window - n)
  BY <1>1, <1>2 DEF MemoryTells, IsTold
<1>4. /\ MaxRequests \in Nat \ {0} /\ Window \in Nat /\ PerSecond \in Nat /\ rateTime \in Nat /\ n <= rateTime
      /\ IsFiniteSet(K) /\ Cardinality(K) \in Nat /\ Cardinality(K) <= Cardinality(rateMemory)
      /\ Cardinality(rateMemory) \in Nat /\ Cardinality(rateMemory) <= MaxRequests
  <2>1. /\ MaxRequests \in Nat \ {0} /\ Window \in Nat /\ PerSecond \in Nat /\ rateTime \in Nat /\ n <= rateTime
        /\ IsFiniteSet(rateMemory)
    BY <1>1, Settings DEF RateBase, RateTypes, Moves
  <2>2. /\ IsFiniteSet(K) /\ Cardinality(K) \in Nat /\ Cardinality(K) <= Cardinality(rateMemory)
    BY <1>2, RecentIs DEF RateBase
  <2> QED
    BY <2>1, <2>2, FS_CardinalityType DEF Crowded
<1>5. K # {}
  BY <1>3, <1>4, FS_EmptySet
<1>6. PICK m \in K : m = First(K) /\ m.score \in Nat
  BY <1>2, <1>5, RecentIs DEF RateBase
<1>7. PICK retry \in Nat : retry = rateRetry'[h] /\ retry * PerSecond >= m.score + Window - n
  BY <1>3, <1>6 DEF Waits
<1>8. PICK w \in Nat : w = retry * PerSecond
  BY <1>4, <1>7
<1>9. Due(h)' = rateTime + w
  BY <1>3, <1>7, <1>8 DEF Due
<1>10. Window' = Window
  BY DEF Moves, OneMoves, Window
<1>11. PICK less : less = Left(h)'
  OBVIOUS
<1>12. \A k \in less : k \in rateMemory' /\ k.score > Due(h)' - Window'
  BY <1>11 DEF Left
<1>13. m \notin less
  BY <1>4, <1>6, <1>7, <1>8, <1>9, <1>10, <1>12
<1>14. less \subseteq K \ {m}
  BY <1>3, <1>12, <1>13
<1>15. IsFiniteSet(K \ {m}) /\ Cardinality(K \ {m}) = Cardinality(K) - 1
  BY <1>4, <1>6, FS_RemoveElement
<1>16. Cardinality(less) <= Cardinality(K \ {m}) /\ IsFiniteSet(less)
  BY <1>14, <1>15, FS_Subset
<1>17. Cardinality(less) \in Nat
  BY <1>16, FS_CardinalityType
<1> QED
  BY <1>4, <1>11, <1>15, <1>16, <1>17

LEMMA MemoryIsTrueAfter ==
    ASSUME RateBase, RateBase', Crowded, MemoryIsTrue, NEW h \in Hit, Moves(h),
           \/ MemoryTells(h)
           \/ rateMemory' = rateMemory /\ ~ (rateStep'[h] = "rejected" /\ rateBy'[h] = "memory")
    PROVE  MemoryIsTrue'
<1>1. MaxRequests' = MaxRequests /\ Window' = Window /\ MaxRequests \in Nat
  BY Settings DEF MaxRequests, Window, Moves, OneMoves, RateBase
<1>2. ASSUME NEW k \in Hit, rateStep'[k] = "rejected", rateBy'[k] = "memory"
      PROVE  Since(k)' \/ Cardinality(Left(k)') < MaxRequests'
  <2>1. CASE k = h
    BY <1>1, <1>2, <2>1, MemoryWaits
  <2>2. CASE k # h /\ rateMemory' \subseteq rateMemory
    <3>1. SameOf(k) /\ rateStep[k] = "rejected" /\ rateBy[k] = "memory"
      BY <1>2, <2>2 DEF Moves, OneMoves, SameOf
    <3>2. CASE Since(k)
      BY <2>2, <3>2, SinceStays
    <3>3. CASE ~ Since(k)
      <4>1. Due(k)' = Due(k)
        BY <3>1 DEF SameOf, Due
      <4>2. PICK less : less = Left(k)'
        OBVIOUS
      <4>3. less \subseteq Left(k)
        BY <1>1, <2>2, <4>1, <4>2 DEF Left
      <4>4. IsFiniteSet(rateMemory) /\ Left(k) \subseteq rateMemory
        BY DEF RateBase, RateTypes, Left
      <4>5. IsFiniteSet(Left(k))
        BY <4>4, FS_Subset
      <4>6. IsFiniteSet(less) /\ Cardinality(less) <= Cardinality(Left(k))
        BY <4>3, <4>5, FS_Subset
      <4>7. Cardinality(less) \in Nat /\ Cardinality(Left(k)) \in Nat
        BY <4>5, <4>6, FS_CardinalityType
      <4>8. Cardinality(Left(k)) < MaxRequests
        BY <3>1, <3>3 DEF MemoryIsTrue
      <4> QED
        BY <1>1, <4>2, <4>6, <4>7, <4>8
    <3> QED
      BY <3>2, <3>3
  <2>3. CASE k # h /\ rateStep'[h] = "allowed" /\ rateTold'[h] = rateTime
    BY <2>3, SinceNow
  <2>4. \/ rateMemory' \subseteq rateMemory
        \/ rateStep'[h] = "allowed" /\ rateTold'[h] = rateTime
    <3>1. rateNow'[h] \in Nat
      BY DEF Moves, Fits
    <3> QED
      BY <3>1 DEF MemoryTells, IsTold, Recent
  <2> QED
    BY <2>1, <2>2, <2>3, <2>4
<1> QED
  BY <1>2 DEF MemoryIsTrue

LEMMA MemoryMoves ==
    ASSUME RateBase, RateBase', Crowded, MemoryIsTrue, Bucket, NEW h \in Hit,
           \/ ArriveMemory(h) \/ ArriveRedis(h) \/ ArriveBucket(h) \/ Trim(h) \/ Count(h)
           \/ Reject(h) \/ Add(h) \/ RedisFails(h)
    PROVE  MemoryIsTrue'
<1>1. CASE ArriveMemory(h) \/ RedisFails(h)
  BY <1>1, FallbackShapes, MemoryIsTrueAfter
<1>2. CASE ArriveRedis(h) \/ Trim(h) \/ Count(h) \/ Add(h)
  <2>1. Moves(h) /\ rateStep'[h] # "rejected"
    BY <1>2, RedisShapes DEF GoesOn, IsTold
  <2>2. rateMemory' = rateMemory
    BY <1>2 DEF ArriveRedis, Trim, Count, Add
  <2> QED
    BY <2>1, <2>2, MemoryIsTrueAfter
<1>3. CASE Reject(h)
  <2>1. Moves(h) /\ rateBy'[h] # "memory" /\ rateMemory' = rateMemory
    BY <1>3, RejectShape DEF IsTold, Reject
  <2> QED
    BY <2>1, MemoryIsTrueAfter
<1>4. CASE ArriveBucket(h)
  <2>1. Moves(h) /\ rateBy'[h] # "memory" /\ rateMemory' = rateMemory
    BY <1>4, BucketShape DEF BucketTells, IsTold, ArriveBucket
  <2> QED
    BY <2>1, MemoryIsTrueAfter
<1> QED
  BY <1>1, <1>2, <1>3, <1>4

-----------------------------------------------------------------------------
(* The bucket: the arithmetic of its refills.                               *)
LEMMA Times == ASSUME NEW w \in Nat, NEW a \in Int, NEW b \in Int, a <= b PROVE w * a <= w * b /\ w * a \in Int /\ w * b \in Int
  OBVIOUS

LEMMA Spread ==
    ASSUME NEW w \in Int, NEW a \in Int, NEW b \in Int
    PROVE  w * (a + b) = w * a + w * b /\ w * (a - b) = w * a - w * b /\ w * a = a * w /\ w * a \in Int /\ w * b \in Int
  OBVIOUS

LEMMA RefilledLate ==
    ASSUME NEW w \in Nat \ {0}, NEW m \in Nat \ {0}, NEW A \in Nat, NEW T \in Nat, NEW a \in Nat, NEW T1 \in Nat,
           NEW L \in Int, NEW s \in Int, NEW now \in Int, T1 + 1 <= T + a,
           w * (A + T) <= w * m + m * (L - s), a * w <= (now - L) * m
    PROVE  w * (A + 1 + T1) <= w * m + m * (now - s)
<1>1. w * (A + 1 + T1) <= w * ((A + T) + a)
  BY Times
<1>2. w * ((A + T) + a) = w * (A + T) + w * a /\ w * a = a * w
  BY Spread
<1>3. m * (L - s) + (now - L) * m = m * (now - s)
  <2>1. m * (L - s) = m * L - m * s /\ m * (now - s) = m * now - m * s /\ (now - L) * m = m * now - m * L
    BY Spread
  <2> QED
    BY <2>1, Spread
<1>4. PICK p \in Int, q \in Int, r \in Int, t \in Int, u \in Int, v \in Int, x \in Int :
         /\ p = w * (A + 1 + T1) /\ q = w * ((A + T) + a) /\ r = w * (A + T) /\ t = a * w
         /\ u = w * m /\ v = m * (L - s) /\ x = (now - L) * m
  OBVIOUS
<1>5. p <= q /\ q = r + t /\ r <= u + v /\ t <= x
  BY <1>1, <1>2, <1>4
<1>6. p <= u + (v + x)
  BY <1>5
<1> QED
  BY <1>3, <1>4, <1>6

LEMMA RefilledSoon ==
    ASSUME NEW w \in Nat \ {0}, NEW m \in Nat \ {0}, NEW A \in Nat, NEW T \in Nat, NEW a \in Nat, NEW T1 \in Nat,
           NEW L \in Int, NEW s \in Int, NEW now \in Int, T1 + 1 <= T + a,
           A + T < m, (s - L) * m < w, a * w <= (now - L) * m
    PROVE  w * (A + 1 + T1) <= w * m + m * (now - s)
<1>1. w * (A + T) <= w * m + m * (L - s)
  <2>1. w * ((A + T) + 1) <= w * m
    BY Times
  <2>2. w * ((A + T) + 1) = w * (A + T) + w * 1 /\ w * 1 = w
    BY Spread
  <2>3. m * (L - s) = m * L - m * s /\ (s - L) * m = m * s - m * L /\ m * s \in Int /\ m * L \in Int
    BY Spread
  <2>4. PICK p \in Int, q \in Int, u \in Int, x \in Int, y \in Int :
           p = w * (A + T) /\ u = w * m /\ x = m * s /\ y = m * L /\ q = m * (L - s)
    OBVIOUS
  <2>5. p + w <= u /\ q = y - x /\ x - y < w
    BY <2>1, <2>2, <2>3, <2>4
  <2> QED
    BY <2>4, <2>5
<1> QED
  BY <1>1, RefilledLate

LEMMA BurstIs ==
    ASSUME NEW w \in Nat \ {0}, NEW m \in Nat \ {0}, NEW A \in Nat, NEW T \in Nat,
           NEW L \in Int, NEW now \in Int, L <= now,
           w * (A + T) <= w * m + m * (L - (now - w + 1))
    PROVE  A <= 2 * m - 1
<1> SUFFICES ASSUME A >= m + m PROVE FALSE
  OBVIOUS
<1>1. w * (m + m) <= w * (A + T)
  BY Times
<1>2. m * (L - (now - w + 1)) <= m * (w - 1)
  BY Times
<1>3. w * (m + m) = w * m + w * m /\ m * (w - 1) = m * w - m * 1 /\ m * w = w * m /\ m * 1 = m
  BY Spread
<1>4. PICK p \in Int, q \in Int, r \in Int : p = w * m /\ q = w * (A + T) /\ r = m * (L - (now - w + 1))
  OBVIOUS
<1>5. p + p <= q /\ r <= p - m /\ q <= p + r
  BY <1>1, <1>2, <1>3, <1>4
<1> QED
  BY <1>5

LEMMA ForgottenLate ==
    ASSUME NEW w \in Nat \ {0}, NEW m \in Nat \ {0}, NEW A \in Nat, NEW T \in Nat,
           NEW L \in Int, NEW s \in Int, NEW now \in Int, now - L > 2 * w,
           w * (A + T) <= w * m + m * (L - s)
    PROVE  w * A <= m * (now - s)
<1>1. w * A <= w * (A + T)
  BY Times
<1>2. m * (w + w) <= m * (now - L)
  BY Times
<1>3. m * (w + w) = m * w + m * w /\ m * w = w * m
  BY Spread
<1>4. m * (now - s) = m * (now - L) + m * (L - s)
  BY Spread
<1>5. PICK p \in Int, q \in Int, r \in Int, t \in Int, u \in Int :
         p = w * m /\ q = w * A /\ r = w * (A + T) /\ t = m * (now - L) /\ u = m * (L - s)
  OBVIOUS
<1>6. q <= r /\ p + p <= t /\ r <= p + u /\ p >= 0
  BY <1>1, <1>2, <1>3, <1>5
<1>7. q <= t + u
  BY <1>6
<1> QED
  BY <1>4, <1>5, <1>7

LEMMA ForgottenSoon ==
    ASSUME NEW w \in Nat \ {0}, NEW m \in Nat \ {0}, NEW A \in Nat,
           NEW L \in Int, NEW s \in Int, NEW now \in Int, now - L > 2 * w, A < m, (s - L) * m < w
    PROVE  w * A <= m * (now - s)
<1>1. w * (A + 1) <= w * m
  BY Times
<1>2. w * (A + 1) = w * A + w * 1 /\ w * 1 = w
  BY Spread
<1>3. m * (w + w) <= m * (now - L)
  BY Times
<1>4. m * (w + w) = m * w + m * w /\ m * w = w * m
  BY Spread
<1>5. m * (now - s) = m * (now - L) - m * (s - L) /\ m * (s - L) = (s - L) * m
  BY Spread
<1>6. PICK p \in Int, q \in Int, t \in Int, u \in Int :
         p = w * m /\ q = w * A /\ t = m * (now - L) /\ u = m * (s - L)
  OBVIOUS
<1>7. q + w <= p /\ p + p <= t /\ u < w /\ q >= 0
  BY <1>1, <1>2, <1>3, <1>4, <1>5, <1>6
<1>8. q <= t - u
  BY <1>7
<1> QED
  BY <1>5, <1>6, <1>8

-----------------------------------------------------------------------------
(* The bucket: what it let in.                                              *)
LEMMA FromIs ==
    ASSUME RateBase, NEW s \in Int
    PROVE  /\ IsFiniteSet(From(s)) /\ Cardinality(From(s)) \in Nat
           /\ From(s) \subseteq Granted("bucket")
           /\ s > rateTime => Cardinality(From(s)) = 0
           /\ From(s) # {} => \E g \in Granted("bucket") : rateNow[g] >= s
           /\ Cardinality(From(s)) = 0 <=> From(s) = {}
<1>1. From(s) \subseteq Hit /\ From(s) \subseteq Granted("bucket")
  BY DEF From, Granted
<1>2. IsFiniteSet(From(s)) /\ Cardinality(From(s)) \in Nat
  BY <1>1, FS_Subset, FS_CardinalityType, RateAssumption
<1>3. s > rateTime => From(s) = {}
  BY DEF From, Granted, RateBase, RateTypes, Past
<1>4. Cardinality(From(s)) = 0 <=> From(s) = {}
  BY <1>2, FS_EmptySet
<1> QED
  BY <1>1, <1>2, <1>3, <1>4 DEF From

LEMMA FromAfter ==
    ASSUME RateBase, NEW h \in Hit, Moves(h), NEW s \in Int
    PROVE  /\ h \notin From(s)
           /\ From(s)' = IF Lets(h, "bucket") /\ rateNow'[h] >= s THEN From(s) \cup {h} ELSE From(s)
<1>1. h \notin From(s)
  BY DEF From, Granted, Moves, OneMoves, Told
<1>2. \A g \in Hit \ {h} : g \in From(s)' <=> g \in From(s)
  BY DEF From, Granted, Moves, OneMoves, SameOf
<1>3. h \in From(s)' <=> Lets(h, "bucket") /\ rateNow'[h] >= s
  BY DEF From, Granted, Lets
<1>4. From(s) \subseteq Hit /\ From(s)' \subseteq Hit
  BY DEF From, Granted
<1> QED
  BY <1>1, <1>2, <1>3, <1>4

(* An entry of the bucket as a request finds it, before it is refilled.     *)
Entry(e) ==
    /\ e.tokens <= MaxRequests /\ e.lastRefill <= rateTime
    /\ \A g \in Granted("bucket") : (rateNow[g] - e.lastRefill) * MaxRequests < Window
    /\ \A s \in Int : s <= e.lastRefill =>
          Window * (Cardinality(From(s)) + e.tokens) <= Window * MaxRequests + MaxRequests * (e.lastRefill - s)
    /\ \A s \in Int : s > e.lastRefill =>
          \/ Cardinality(From(s)) + e.tokens < MaxRequests
          \/ s > rateTime /\ e.lastRefill = rateTime

LEMMA EntryFound ==
    ASSUME RateBase, Bucket, NEW e \in [tokens : Nat, lastRefill : Nat],
           \/ rateBucket = NoBucket /\ e = [tokens |-> MaxRequests, lastRefill |-> rateTime]
           \/ rateBucket # NoBucket /\ e = rateBucket
    PROVE  Entry(e)
<1>1. CASE rateBucket # NoBucket /\ e = rateBucket
  BY <1>1 DEF Bucket, Filled, Entry
<1>2. CASE rateBucket = NoBucket /\ e = [tokens |-> MaxRequests, lastRefill |-> rateTime]
  <2>1. PICK m \in Nat \ {0}, w \in Nat \ {0} : m = MaxRequests /\ w = Window
    BY Settings DEF RateBase
  <2>2. e.tokens = m /\ e.lastRefill = rateTime /\ rateTime \in Nat
    BY <1>2, <2>1 DEF RateBase, RateTypes
  <2>3. \A g \in Granted("bucket") : (rateNow[g] - rateTime) * m < w
    <3> TAKE g \in Granted("bucket")
    <3>1. PICK d \in Nat : rateNow[g] - rateTime = - d
      <4>1. rateNow[g] \in Nat /\ rateNow[g] <= rateTime
        BY DEF Granted, RateBase, RateTypes, Past
      <4>2. rateTime - rateNow[g] \in Nat /\ rateNow[g] - rateTime = - (rateTime - rateNow[g])
        BY <2>2, <4>1
      <4> QED
        BY <4>2
    <3>2. (- d) * m <= 0
      OBVIOUS
    <3> QED
      BY <3>1, <3>2
  <2>4. ASSUME NEW s \in Int, s <= rateTime
        PROVE  w * (Cardinality(From(s)) + m) <= w * m + m * (rateTime - s)
    <3>1. PICK A \in Nat : A = Cardinality(From(s))
      BY FromIs
    <3>2. w * A <= m * (rateTime - s)
      BY <1>2, <2>1, <2>4, <3>1 DEF Bucket, Dropped
    <3>3. w * (A + m) = w * A + w * m
      BY Spread
    <3>4. w * A \in Int /\ w * m \in Int /\ m * (rateTime - s) \in Int
      BY <2>2
    <3>5. w * (A + m) <= w * m + m * (rateTime - s)
      BY <3>2, <3>3, <3>4
    <3> QED
      BY <3>1, <3>5
  <2> QED
    BY <2>1, <2>2, <2>3, <2>4 DEF Entry
<1> QED
  BY <1>1, <1>2

LEMMA OneMoreFrom ==
    ASSUME RateBase, NEW h \in Hit, Moves(h), rateNow'[h] = rateTime, Lets(h, "bucket"), NEW s \in Int
    PROVE  /\ Cardinality(From(s)) \in Nat
           /\ s <= rateTime => Cardinality(From(s)') = Cardinality(From(s)) + 1
           /\ s > rateTime => Cardinality(From(s)') = 0
<1>1. /\ IsFiniteSet(From(s)) /\ Cardinality(From(s)) \in Nat /\ (s > rateTime => Cardinality(From(s)) = 0)
      /\ rateTime \in Nat
  BY FromIs DEF RateBase, RateTypes
<1>2. CASE s <= rateTime
  <2>1. h \notin From(s) /\ From(s)' = From(s) \cup {h}
    BY <1>1, <1>2, FromAfter
  <2> QED
    BY <1>1, <1>2, <2>1, OnePlus
<1>3. CASE s > rateTime
  <2>1. From(s)' = From(s)
    BY <1>1, <1>3, FromAfter
  <2> QED
    BY <1>1, <1>3, <2>1
<1> QED
  BY <1>1, <1>2, <1>3

LEMMA BucketLets ==
    ASSUME RateBase, NEW h \in Hit, Moves(h), rateNow'[h] = rateTime, Lets(h, "bucket"),
           NEW e \in [tokens : Nat, lastRefill : Nat], Entry(e), NEW amount \in Nat,
           amount * Window <= (rateTime - e.lastRefill) * MaxRequests,
           (rateTime - e.lastRefill) * MaxRequests < amount * Window + Window,
           rateBucket' \in [tokens : Nat, lastRefill : Nat],
           BucketStep(e, amount, rateBucket'.tokens, rateBucket'.lastRefill)
    PROVE  Filled'
<1>1. PICK m \in Nat \ {0}, w \in Nat \ {0}, now \in Nat : m = MaxRequests /\ w = Window /\ now = rateTime
  BY Settings DEF RateBase, RateTypes
<1>2. PICK T \in Nat, L \in Nat, T1 \in Nat, L1 \in Nat :
         T = e.tokens /\ L = e.lastRefill /\ T1 = rateBucket'.tokens /\ L1 = rateBucket'.lastRefill
  OBVIOUS
<1>3. MaxRequests' = m /\ Window' = w /\ rateTime' = now
  BY <1>1 DEF MaxRequests, Window, Moves, OneMoves
<1>4. T <= m /\ L <= now /\ amount * w <= (now - L) * m /\ (now - L) * m < amount * w + w
  BY <1>1, <1>2 DEF Entry
<1>5. \/ amount = 0 /\ T1 = T - 1 /\ L1 = L
      \/ amount > 0 /\ T1 + 1 <= T + amount /\ T1 + 1 <= m /\ L1 = now /\ L < now
  <2>1. CASE amount = 0
    BY <1>2, <2>1 DEF BucketStep
  <2>2. CASE amount > 0
    <3>1. PICK k \in Nat : k = T + amount
      OBVIOUS
    <3>2. Refilled(e, amount) = IF m <= k THEN m ELSE k
      BY <1>1, <1>2, <3>1, MinOfTwo DEF Refilled
    <3>3. L # now
      <4> SUFFICES ASSUME L = now PROVE FALSE
        OBVIOUS
      <4>1. (now - L) * m = 0
        OBVIOUS
      <4>2. amount * w >= w
        BY <2>2
      <4> QED
        BY <1>4, <4>1, <4>2
    <3> QED
      BY <1>1, <1>2, <1>4, <2>2, <3>1, <3>2, <3>3 DEF BucketStep
  <2> QED
    BY <2>1, <2>2
<1>7. T1 <= m /\ L1 <= now /\ T1 + 1 <= T + amount
  BY <1>4, <1>5
<1>8. \A g \in Granted("bucket") : (rateNow[g] - L) * m < w /\ rateNow[g] <= now /\ rateNow[g] \in Nat
                                 /\ SameOf(g) /\ g \in Hit \ {h}
  BY <1>1, <1>2, GrantedAfter DEF Entry, Granted, RateBase, RateTypes, Past
<1>9. ASSUME NEW g \in Granted("bucket")' PROVE (rateNow'[g] - L1) * m < w
  <2>1. CASE g = h
    <3>1. CASE L1 = now
      <4>1. (now - L1) * m = 0
        BY <3>1
      <4> QED
        BY <1>1, <2>1, <4>1
    <3>2. CASE amount = 0 /\ L1 = L
      <4>1. (now - L) * m < w
        <5>1. amount * w = 0
          BY <3>2
        <5> QED
          BY <1>4, <5>1
      <4> QED
        BY <1>1, <2>1, <3>2, <4>1
    <3> QED
      BY <1>5, <3>1, <3>2
  <2>2. CASE g # h
    <3>1. g \in Granted("bucket")
      BY <2>2, GrantedAfter
    <3>2. PICK n \in Nat : n = rateNow[g] /\ n = rateNow'[g] /\ (n - L) * m < w /\ n <= now
      BY <1>8, <3>1 DEF SameOf
    <3>3. m * (n - L1) <= m * (n - L)
      BY <1>4, <1>5, Times
    <3>4. m * (n - L1) = (n - L1) * m /\ m * (n - L) = (n - L) * m
      BY Spread
    <3>5. (n - L1) * m < w
      BY <3>2, <3>3, <3>4
    <3> QED
      BY <3>2, <3>5
  <2> QED
    BY <2>1, <2>2
<1>10. ASSUME NEW s \in Int, s <= L1
       PROVE  w * (Cardinality(From(s)') + T1) <= w * m + m * (L1 - s)
  <2>1. PICK A \in Nat : A = Cardinality(From(s)) /\ Cardinality(From(s)') = A + 1
    <3>1. s <= now
      BY <1>7, <1>10
    <3>2. Cardinality(From(s)') = Cardinality(From(s)) + 1 /\ Cardinality(From(s)) \in Nat
      BY <1>1, <3>1, OneMoreFrom
    <3> QED
      BY <3>2
  <2>2. s <= L => w * (A + T) <= w * m + m * (L - s)
    BY <1>1, <1>2, <2>1 DEF Entry
  <2>3. CASE amount = 0 /\ T1 = T - 1 /\ L1 = L
    <3>1. A + 1 + T1 = A + T
      BY <2>3
    <3> QED
      BY <1>10, <2>1, <2>2, <2>3, <3>1
  <2>4. CASE amount > 0 /\ T1 + 1 <= T + amount /\ T1 + 1 <= m /\ L1 = now
    <3>1. CASE s <= L
      BY <1>4, <2>1, <2>2, <2>4, <3>1, RefilledLate
    <3>2. CASE s > L /\ A = 0
      <4>1. w * (0 + 1 + T1) <= w * m /\ w * m \in Int
        BY <2>4, Times
      <4>2. m * 0 <= m * (now - s) /\ m * (now - s) \in Int
        BY <1>10, <2>4, Times
      <4>3. w * (0 + 1 + T1) \in Int
        OBVIOUS
      <4>4. w * (0 + 1 + T1) <= w * m + m * (now - s)
        BY <4>1, <4>2, <4>3
      <4> QED
        BY <2>1, <2>4, <3>2, <4>4
    <3>3. CASE s > L /\ A # 0
      <4>1. PICK g \in Granted("bucket") : rateNow[g] >= s
        BY <2>1, <3>3, FromIs
      <4>2. PICK n \in Nat : n = rateNow[g] /\ (n - L) * m < w
        BY <1>8
      <4>3. m * (s - L) <= m * (n - L)
        BY <4>1, <4>2, Times
      <4>4. m * (s - L) = (s - L) * m /\ m * (n - L) = (n - L) * m
        BY Spread
      <4>5. (s - L) * m < w
        BY <4>2, <4>3, <4>4
      <4>6. A + T < m
        BY <1>1, <1>2, <1>7, <1>10, <2>1, <3>3 DEF Entry
      <4> QED
        BY <1>4, <2>1, <2>4, <4>5, <4>6, RefilledSoon
    <3> QED
      BY <3>1, <3>2, <3>3
  <2> QED
    BY <1>5, <2>3, <2>4
<1>11. ASSUME NEW s \in Int, s > L1 PROVE Cardinality(From(s)') + T1 < m
  <2>1. CASE s > now
    <3>1. Cardinality(From(s)') = 0
      BY <1>1, <2>1, OneMoreFrom
    <3> QED
      BY <1>4, <1>5, <3>1
  <2>2. CASE s <= now
    <3>1. PICK A \in Nat : A = Cardinality(From(s)) /\ Cardinality(From(s)') = A + 1
      <4>1. Cardinality(From(s)') = Cardinality(From(s)) + 1 /\ Cardinality(From(s)) \in Nat
        BY <1>1, <2>2, OneMoreFrom
      <4> QED
        BY <4>1
    <3>2. T1 = T - 1 /\ L1 = L
      BY <1>5, <1>11, <2>2
    <3>3. A + T < m
      BY <1>1, <1>2, <1>11, <2>2, <3>1, <3>2 DEF Entry
    <3> QED
      BY <3>1, <3>2, <3>3
  <2> QED
    BY <2>1, <2>2
<1> QED
  BY <1>2, <1>3, <1>7, <1>9, <1>10, <1>11 DEF Filled

(* What the bucket let in of any window, in the state a step leads to.      *)
LEMMA BurstsLater ==
    ASSUME RateBase', Filled', MaxRequests' \in Nat \ {0}, Window' \in Nat \ {0}, NEW t \in Nat, t >= rateTime'
    PROVE  Cardinality(LetIn("bucket", t)') <= 2 * MaxRequests' - 1
<1>1. PICK m \in Nat \ {0}, w \in Nat \ {0}, now \in Nat : m = MaxRequests' /\ w = Window' /\ now = rateTime'
  BY DEF RateBase, RateTypes
<1>2. PICK s \in Int : s = now - w + 1
  OBVIOUS
<1>3. PICK F : F = From(s)'
  OBVIOUS
<1>4. PICK P : P = LetIn("bucket", t)'
  OBVIOUS
<1>5. P \subseteq F
  <2> SUFFICES ASSUME NEW g \in P PROVE g \in F
    OBVIOUS
  <2>1. g \in Granted("bucket")' /\ t - Window' < rateNow'[g] /\ rateNow'[g] \in Nat
    BY <1>4 DEF LetIn, Granted, RateBase, RateTypes
  <2>2. rateNow'[g] >= s
    BY <1>1, <1>2, <2>1
  <2> QED
    BY <1>3, <2>1, <2>2 DEF From
<1>6. F \subseteq Hit /\ IsFiniteSet(F) /\ Cardinality(F) \in Nat
  <2>1. F \subseteq Hit
    BY <1>3 DEF From, Granted
  <2> QED
    BY <2>1, FS_Subset, FS_CardinalityType, RateAssumption
<1>7. PICK A \in Nat : A = Cardinality(F)
  BY <1>6
<1>8. Cardinality(P) <= A /\ IsFiniteSet(P)
  BY <1>5, <1>6, <1>7, FS_Subset
<1>9. Cardinality(P) \in Nat
  BY <1>8, FS_CardinalityType
<1>10. PICK T \in Nat, L \in Int : T = rateBucket'.tokens /\ L = rateBucket'.lastRefill /\ L <= now
  BY <1>1 DEF RateBase, RateTypes, Filled
<1>11. A <= 2 * m - 1
  <2>1. CASE s <= L
    <3>1. w * (A + T) <= w * m + m * (L - (now - w + 1))
      BY <1>1, <1>2, <1>3, <1>7, <1>10, <2>1 DEF Filled
    <3> QED
      BY <1>10, <3>1, BurstIs
  <2>2. CASE s > L
    <3>1. A + T < m
      BY <1>1, <1>3, <1>7, <1>10, <2>2 DEF Filled
    <3> QED
      BY <3>1
  <2> QED
    BY <1>10, <2>1, <2>2
<1>12. Cardinality(P) <= 2 * m - 1
  BY <1>8, <1>9, <1>11
<1>13. 2 * m - 1 = 2 * MaxRequests' - 1
  BY <1>1
<1> QED
  BY <1>4, <1>12, <1>13, Zenon

LEMMA BucketIsTrueAfter ==
    ASSUME RateBase, BucketIsTrue, NEW h \in Hit, Moves(h),
           rateStep'[h] = "rejected" /\ rateBy'[h] = "bucket" => rateBucket'.lastRefill + Window <= Due(h)',
           rateBucket' = rateBucket \/ (rateStep'[h] = "allowed" /\ rateTold'[h] = rateTime)
    PROVE  BucketIsTrue'
<1>1. Window' = Window
  BY DEF Window, Moves, OneMoves
<1>2. ASSUME NEW k \in Hit, rateStep'[k] = "rejected", rateBy'[k] = "bucket"
      PROVE  Since(k)' \/ rateBucket' = NoBucket \/ rateBucket'.lastRefill + Window' <= Due(k)'
  <2>1. CASE k = h
    BY <1>1, <1>2, <2>1
  <2>2. CASE k # h
    <3>1. SameOf(k) /\ rateStep[k] = "rejected" /\ rateBy[k] = "bucket"
      BY <1>2, <2>2 DEF Moves, OneMoves, SameOf
    <3>2. CASE Since(k)
      BY <2>2, <3>2, SinceStays
    <3>3. CASE rateStep'[h] = "allowed" /\ rateTold'[h] = rateTime
      BY <2>2, <3>3, SinceNow
    <3>4. CASE ~ Since(k) /\ rateBucket' = rateBucket
      <4>1. Due(k)' = Due(k)
        BY <3>1 DEF SameOf, Due
      <4> QED
        BY <1>1, <3>1, <3>4, <4>1 DEF BucketIsTrue
    <3> QED
      BY <3>2, <3>3, <3>4
  <2> QED
    BY <2>1, <2>2
<1>3. NoBucket' = NoBucket
  BY DEF NoBucket
<1> QED
  BY <1>2, <1>3 DEF BucketIsTrue

(* Another limiter answers, or nobody yet.                                  *)
LEMMA BucketElsewhere ==
    ASSUME RateBase, Bucket, NEW h \in Hit, Moves(h), rateBucket' = rateBucket,
           ~ Lets(h, "bucket"), ~ (rateStep'[h] = "rejected" /\ rateBy'[h] = "bucket")
    PROVE  Bucket'
<1>1. MaxRequests' = MaxRequests /\ Window' = Window /\ rateTime' = rateTime /\ NoBucket' = NoBucket
  BY DEF MaxRequests, Window, Moves, OneMoves, NoBucket
<1>2. \A s \in Int : From(s)' = From(s)
  BY FromAfter
<1>3. Granted("bucket")' = Granted("bucket") /\ \A g \in Granted("bucket") : rateNow'[g] = rateNow[g]
  BY GrantedAfter DEF SameOf
<1>4. ASSUME Dropped PROVE Dropped'
  BY <1>1, <1>2, <1>4 DEF Dropped
<1>5. ASSUME Filled PROVE Filled'
  BY <1>1, <1>2, <1>3, <1>5 DEF Filled
<1>6. Bursts'
  BY <1>1, LetInIs DEF Bucket, Bursts
<1>7. BucketIsTrue'
  BY BucketIsTrueAfter DEF Bucket
<1> QED
  BY <1>1, <1>4, <1>5, <1>6, <1>7 DEF Bucket

LEMMA BucketAnswers ==
    ASSUME RateBase, RateBase', Bucket, NEW h \in Hit, ArriveBucket(h)
    PROVE  Bucket'
<1>1. Moves(h) /\ BucketTells(h) /\ rateNow'[h] = rateTime /\ rateTold'[h] = rateTime
  BY BucketShape DEF BucketTells, IsTold
<1>2. PICK e \in [tokens : Nat, lastRefill : Nat], amount \in Nat :
    /\ \/ rateBucket = NoBucket /\ e = [tokens |-> MaxRequests, lastRefill |-> rateTime]
       \/ rateBucket # NoBucket /\ e = rateBucket
    /\ amount * Window <= (rateTime - e.lastRefill) * MaxRequests
    /\ (rateTime - e.lastRefill) * MaxRequests < amount * Window + Window
    /\ \/ /\ IsTold(h, "bucket", "rejected") /\ Waits(h, Window - (rateTime - e.lastRefill))
          /\ amount = 0 /\ e.tokens = 0 /\ rateBucket' = e
       \/ /\ IsTold(h, "bucket", "allowed") /\ rateBucket'.tokens \in Nat
          /\ rateBucket' \in [tokens : Nat, lastRefill : Nat]
          /\ BucketStep(e, amount, rateBucket'.tokens, rateBucket'.lastRefill)
  BY <1>1 DEF BucketTells
<1>3. Entry(e)
  BY <1>2, EntryFound
<1>4. MaxRequests' = MaxRequests /\ Window' = Window /\ rateTime' = rateTime /\ NoBucket' = NoBucket
      /\ MaxRequests \in Nat \ {0} /\ Window \in Nat \ {0} /\ rateTime \in Nat /\ PerSecond \in Nat
  BY <1>1, Settings DEF MaxRequests, Window, Moves, OneMoves, NoBucket, RateBase, RateTypes
<1>5. CASE IsTold(h, "bucket", "rejected") /\ Waits(h, Window - (rateTime - e.lastRefill)) /\ e.tokens = 0 /\ rateBucket' = e
  <2>1. e.tokens = 0 /\ rateBucket = e /\ rateBucket # NoBucket
    <3>1. CASE rateBucket = NoBucket /\ e = [tokens |-> MaxRequests, lastRefill |-> rateTime]
      <4>1. e.tokens = MaxRequests
        BY <3>1
      <4> QED
        BY <1>4, <1>5, <4>1
    <3> QED
      BY <1>2, <1>5, <3>1
  <2>2. ~ Lets(h, "bucket") /\ rateStep'[h] = "rejected"
    BY <1>5 DEF IsTold, Lets
  <2>3. \A s \in Int : From(s)' = From(s)
    BY <1>1, <2>2, FromAfter
  <2>4. Granted("bucket")' = Granted("bucket") /\ \A g \in Granted("bucket") : rateNow'[g] = rateNow[g]
    BY <1>1, <2>2, GrantedAfter DEF SameOf
  <2>5. Filled'
    <3>1. Filled
      BY <2>1 DEF Bucket
    <3>2. rateBucket' = rateBucket
      BY <1>5, <2>1
    <3> QED
      BY <1>4, <2>3, <2>4, <3>1, <3>2 DEF Filled
  <2>6. Bursts'
    BY <1>1, <1>4, <2>2, LetInIs DEF Bucket, Bursts
  <2>7. rateBucket'.lastRefill + Window <= Due(h)'
    <3>1. PICK L \in Nat : L = e.lastRefill
      OBVIOUS
    <3>2. PICK retry \in Nat : retry = rateRetry'[h] /\ retry * PerSecond >= Window - (rateTime - L)
      BY <1>5, <3>1 DEF Waits
    <3>3. PICK x \in Nat : x = retry * PerSecond
      BY <1>4, <3>2
    <3>4. Due(h)' = rateTime + x
      BY <1>1, <3>2, <3>3 DEF Due
    <3>5. L + Window <= rateTime + x
      BY <1>4, <3>2, <3>3
    <3> QED
      BY <1>5, <3>1, <3>4, <3>5
  <2>8. BucketIsTrue'
    BY <1>1, <1>5, <2>1, <2>7, BucketIsTrueAfter DEF Bucket
  <2>9. rateBucket' # NoBucket'
    BY <1>4, <1>5, <2>1
  <2> QED
    BY <2>5, <2>6, <2>8, <2>9 DEF Bucket
<1>6. CASE /\ IsTold(h, "bucket", "allowed") /\ rateBucket' \in [tokens : Nat, lastRefill : Nat]
           /\ BucketStep(e, amount, rateBucket'.tokens, rateBucket'.lastRefill)
  <2>1. Lets(h, "bucket") /\ rateStep'[h] = "allowed" /\ rateStep'[h] # "rejected"
    BY <1>6 DEF IsTold, Lets
  <2>2. Filled'
    BY <1>1, <1>2, <1>3, <1>6, <2>1, BucketLets
  <2>3. BucketIsTrue'
    BY <1>1, <2>1, BucketIsTrueAfter DEF Bucket
  <2>4. rateBucket' # NoBucket'
    <3>1. rateBucket'.lastRefill \in Nat
      BY <1>6
    <3>2. NoBucket.lastRefill = -1
      BY DEF NoBucket
    <3>3. -1 \notin Nat
      OBVIOUS
    <3> QED
      BY <1>4, <3>1, <3>2, <3>3
  <2>5. Bursts'
    <3>1. ASSUME NEW t \in Nat PROVE Cardinality(LetIn("bucket", t)') <= 2 * MaxRequests' - 1
      <4>1. CASE t < rateTime
        <5>1. LetIn("bucket", t)' = LetIn("bucket", t)
          BY <1>1, <1>4, <4>1, LetInIs
        <5> QED
          BY <1>4, <5>1 DEF Bucket, Bursts
      <4>2. CASE t >= rateTime
        BY <1>4, <2>2, <4>2, BurstsLater
      <4> QED
        BY <1>4, <4>1, <4>2
    <3> QED
      BY <3>1 DEF Bursts
  <2> QED
    BY <2>2, <2>3, <2>4, <2>5 DEF Bucket
<1> QED
  BY <1>2, <1>5, <1>6

LEMMA BucketMoves ==
    ASSUME RateBase, RateBase', Bucket, NEW h \in Hit,
           \/ ArriveMemory(h) \/ ArriveRedis(h) \/ ArriveBucket(h) \/ Trim(h) \/ Count(h)
           \/ Reject(h) \/ Add(h) \/ RedisFails(h)
    PROVE  Bucket'
<1>1. CASE ArriveBucket(h)
  BY <1>1, BucketAnswers
<1>2. CASE ArriveMemory(h) \/ RedisFails(h)
  <2>1. Moves(h) /\ rateBy'[h] # "bucket" /\ rateBucket' = rateBucket
    BY <1>2, FallbackShapes DEF MemoryTells, IsTold, ArriveMemory, RedisFails
  <2> QED
    BY <2>1, BucketElsewhere DEF Lets
<1>3. CASE ArriveRedis(h) \/ Trim(h) \/ Count(h)
  <2>1. Moves(h) /\ rateStep'[h] \notin Told /\ rateBucket' = rateBucket
    BY <1>3, RedisShapes DEF GoesOn, Told, ArriveRedis, Trim, Count
  <2> QED
    BY <2>1, BucketElsewhere DEF Lets, Told
<1>4. CASE Reject(h) \/ Add(h)
  <2>1. Moves(h) /\ rateBy'[h] # "bucket" /\ rateBucket' = rateBucket
    BY <1>4, RedisShapes, RejectShape DEF IsTold, Reject, Add
  <2> QED
    BY <2>1, BucketElsewhere DEF Lets
<1> QED
  BY <1>1, <1>2, <1>3, <1>4

-----------------------------------------------------------------------------
(* Nobody moves.                                                            *)
LEMMA CrowdedStands == ASSUME Crowded, Stands PROVE Crowded'
  BY DEF Crowded, Stands, InFlight, Adders, MaxRequests

LEMMA AloneStands == ASSUME RateBase, Alone, Stands PROVE Alone'
<1> SUFFICES ASSUME AloneParts PROVE AloneParts'
  BY DEF Alone, AloneParts, Stands
<1>1. MaxRequests' = MaxRequests /\ Window' = Window /\ InFlight' = InFlight
      /\ \A by : Granted(by)' = Granted(by)
  BY DEF Stands, MaxRequests, Window, InFlight, Granted
<1>2. rateTime' \in Nat /\ rateTime \in Nat /\ rateTime' >= rateTime /\ Window \in Nat
  BY Settings DEF Stands, RateBase, RateTypes
<1>3. \A g \in Hit : Beyond(g) => Beyond(g)'
  BY <1>1, <1>2 DEF Beyond, Stands, RateBase, RateTypes
<1>4. Recalled'
  <2>1. \A g \in Granted("redis") : g \in Hit
    BY DEF Granted
  <2>2. \A g \in Granted("memory") : g \in Hit
    BY DEF Granted
  <2> QED
    BY <1>1, <1>3, <2>1, <2>2 DEF Recalled, AloneParts, Stands
<1>5. Windows'
  BY <1>1 DEF Windows, AloneParts, LetIn, Stands
<1>6. Refusals' /\ RedisIsTrue'
  BY <1>1 DEF Refusals, RedisIsTrue, AloneParts, Before, Due, Stands
<1> QED
  BY <1>4, <1>5, <1>6 DEF AloneParts

LEMMA MemoryStands == ASSUME MemoryIsTrue, Stands PROVE MemoryIsTrue'
  BY DEF MemoryIsTrue, Since, Left, Due, Stands, MaxRequests, Window

(* The bucket may be dropped when what it would refill is all there is.     *)
LEMMA FilledIsDropped ==
    ASSUME RateBase, Filled, rateTime - rateBucket.lastRefill > 2 * Window
    PROVE  Dropped
<1>1. PICK m \in Nat \ {0}, w \in Nat \ {0}, now \in Nat : m = MaxRequests /\ w = Window /\ now = rateTime
  BY Settings DEF RateBase, RateTypes
<1>2. PICK T \in Nat, L \in Int : T = rateBucket.tokens /\ L = rateBucket.lastRefill /\ now - L > 2 * w
  BY <1>1 DEF RateBase, RateTypes
<1>3. ASSUME NEW s \in Int, s <= now PROVE w * Cardinality(From(s)) <= m * (now - s)
  <2>1. PICK A \in Nat : A = Cardinality(From(s))
    BY FromIs
  <2>2. CASE s <= L
    <3>1. w * (A + T) <= w * m + m * (L - s)
      BY <1>1, <1>2, <2>1, <2>2 DEF Filled
    <3> QED
      BY <1>2, <2>1, <3>1, ForgottenLate
  <2>3. CASE s > L /\ A = 0
    <3>1. w * 0 <= w * (now - s) /\ m * 0 <= m * (now - s)
      BY <1>3, Times
    <3> QED
      BY <2>1, <2>3, <3>1
  <2>4. CASE s > L /\ A # 0
    <3>1. PICK g \in Granted("bucket") : rateNow[g] >= s
      BY <2>1, <2>4, FromIs
    <3>2. PICK n \in Nat : n = rateNow[g] /\ (n - L) * m < w
      BY <1>1, <1>2 DEF Filled, Granted, RateBase, RateTypes
    <3>3. m * (s - L) <= m * (n - L)
      BY <3>1, <3>2, Times
    <3>4. m * (s - L) = (s - L) * m /\ m * (n - L) = (n - L) * m
      BY Spread
    <3>5. (s - L) * m < w
      BY <3>2, <3>3, <3>4
    <3>6. A + T < m
      BY <1>1, <1>2, <2>1, <2>4 DEF Filled
    <3>7. A < m
      BY <3>6
    <3> QED
      BY <1>2, <2>1, <3>5, <3>7, ForgottenSoon
  <2> QED
    BY <2>2, <2>3, <2>4
<1> QED
  BY <1>1, <1>3 DEF Dropped

LEMMA BucketStands ==
    ASSUME RateBase, RateBase', Bucket, UNCHANGED rateVars \/ DropBucket \/ RateTick
    PROVE  Bucket'
<1>1. Stands
  BY Standing
<1>2. /\ MaxRequests' = MaxRequests /\ Window' = Window /\ NoBucket' = NoBucket
      /\ Granted("bucket")' = Granted("bucket") /\ \A s \in Int : From(s)' = From(s)
  BY <1>1 DEF Stands, MaxRequests, Window, NoBucket, Granted, From
<1>3. Bursts'
  BY <1>1, <1>2 DEF Bucket, Bursts, LetIn, Stands
<1>4. BucketIsTrue'
  BY <1>1, <1>2 DEF Bucket, BucketIsTrue, Since, Due, Stands
<1>5. PICK m \in Nat \ {0}, w \in Nat \ {0}, now \in Nat, then \in Nat :
         m = MaxRequests /\ w = Window /\ now = rateTime /\ then = rateTime' /\ then \in {now, now + 1}
  BY <1>1, Settings DEF RateBase, RateTypes, Stands
<1>later. now <= then
  BY <1>5
<1>6. ASSUME Dropped PROVE Dropped'
  <2>1. ASSUME NEW s \in Int, s <= then PROVE w * Cardinality(From(s)) <= m * (then - s)
    <3>1. PICK A \in Nat : A = Cardinality(From(s)) /\ (s > now => A = 0)
      BY <1>5, FromIs
    <3>2. CASE s <= now
      <4>1. w * A <= m * (now - s)
        BY <1>5, <1>6, <3>1, <3>2 DEF Dropped
      <4>2. m * (now - s) <= m * (then - s)
        BY <1>later, Times
      <4>3. w * A \in Int /\ m * (now - s) \in Int /\ m * (then - s) \in Int
        OBVIOUS
      <4> QED
        BY <3>1, <4>1, <4>2, <4>3
    <3>3. CASE s > now
      <4>1. m * 0 <= m * (then - s)
        BY <2>1, Times
      <4> QED
        BY <3>1, <3>3, <4>1
    <3> QED
      BY <3>2, <3>3
  <2> QED
    BY <1>2, <1>5, <2>1 DEF Dropped
<1>7. ASSUME Filled, rateBucket' = rateBucket PROVE Filled'
  <2>1. rateBucket.lastRefill \in Int /\ rateBucket'.lastRefill <= rateTime'
    BY <1>5, <1>7 DEF Filled, RateBase, RateTypes
  <2>2. rateNow' = rateNow
    BY <1>1 DEF Stands
  <2> QED
    BY <1>2, <1>7, <2>1, <2>2 DEF Filled
<1>8. CASE rateBucket' = rateBucket
  BY <1>2, <1>3, <1>4, <1>6, <1>7, <1>8 DEF Bucket
<1>9. CASE DropBucket
  <2>1. Filled /\ rateTime - rateBucket.lastRefill > 2 * Window /\ rateBucket' = NoBucket
    BY <1>9 DEF DropBucket, Bucket
  <2>2. Dropped'
    BY <1>6, <2>1, FilledIsDropped
  <2> QED
    BY <1>2, <1>3, <1>4, <2>1, <2>2 DEF Bucket
<1>10. rateBucket' = rateBucket \/ DropBucket
  BY DEF rateVars, RateTick
<1> QED
  BY <1>8, <1>9, <1>10

-----------------------------------------------------------------------------
LEMMA RateSteps == RateInv /\ [RateNext]_rateVars => RateInv'
<1> SUFFICES ASSUME RateInv, [RateNext]_rateVars PROVE RateInv'
  OBVIOUS
<1> USE DEF RateInv
<1>1. ASSUME NEW h \in Hit,
             \/ ArriveMemory(h) \/ ArriveRedis(h) \/ ArriveBucket(h) \/ Trim(h) \/ Count(h)
             \/ Reject(h) \/ Add(h) \/ RedisFails(h)
      PROVE  RateInv'
  <2>1. RateBase'
    BY <1>1, BaseMoves
  <2>2. Crowded'
    BY <1>1, <2>1, CrowdedMoves
  <2>3. Alone'
    BY <1>1, <2>1, <2>2, AloneMoves
  <2>4. MemoryIsTrue'
    BY <1>1, <2>1, MemoryMoves
  <2>5. Bucket'
    BY <1>1, <2>1, BucketMoves
  <2> QED
    BY <2>1, <2>2, <2>3, <2>4, <2>5
<1>2. ASSUME UNCHANGED rateVars \/ DropBucket \/ RateTick PROVE RateInv'
  <2>1. Stands
    BY <1>2, Standing
  <2>2. RateBase'
    BY <2>1, BaseStands
  <2>3. Crowded' /\ Alone' /\ MemoryIsTrue'
    BY <2>1, CrowdedStands, AloneStands, MemoryStands
  <2>4. Bucket'
    BY <1>2, <2>2, BucketStands
  <2> QED
    BY <2>2, <2>3, <2>4
<1>3. CASE RateNext
  BY <1>1, <1>2, <1>3 DEF RateNext
<1> QED
  BY <1>2, <1>3

LEMMA RateStarts == RateInit => RateInv
<1> SUFFICES ASSUME RateInit PROVE RateInv
  OBVIOUS
<1>1. IsFiniteSet({}) /\ Cardinality({}) = 0
  BY FS_EmptySet
<1>2. RateTypes
  BY <1>1 DEF RateInit, RateTypes, RatePlaces, NoBucket
<1>3. /\ MaxRequests \in Nat \ {0} /\ Window \in Nat \ {0}
      /\ \A h \in Hit : rateStep[h] = "start" /\ rateNow[h] = 0 /\ rateTold[h] = 0
      /\ rateSet = {} /\ rateMemory = {} /\ rateTime = 0 /\ rateCrowd = 0 /\ rateBucket = NoBucket
  BY <1>2, Settings DEF RateInit
<1>4. RateBase
  BY <1>2, <1>3 DEF RateBase, Past, Remembered, ThroughRedis, Pending
<1>5. InFlight = {} /\ Adders = {} /\ (\A by : Granted(by) = {}) /\ \A by, t : LetIn(by, t) = {}
  BY <1>3 DEF InFlight, Adders, Granted, LetIn
<1>6. Crowded
  BY <1>1, <1>3, <1>5 DEF Crowded, Excess
<1>7. Alone
  <2>1. Recalled
    BY <1>5 DEF Recalled
  <2>2. Windows
    BY <1>1, <1>3, <1>5 DEF Windows
  <2>3. Refusals
    BY <1>3 DEF Refusals
  <2>4. RedisIsTrue
    BY <1>3 DEF RedisIsTrue
  <2> QED
    BY <2>1, <2>2, <2>3, <2>4 DEF Alone
<1>8. MemoryIsTrue /\ BucketIsTrue
  BY <1>3 DEF MemoryIsTrue, BucketIsTrue
<1>9. Dropped
  <2>1. ASSUME NEW s \in Int, s <= 0 PROVE Window * Cardinality(From(s)) <= MaxRequests * (0 - s)
    <3>1. Cardinality(From(s)) = 0
      BY <1>1, <1>5 DEF From
    <3>2. MaxRequests * 0 <= MaxRequests * (0 - s) /\ MaxRequests * 0 = 0 /\ Window * 0 = 0
      BY <1>3, <2>1, Times
    <3> QED
      BY <3>1, <3>2
  <2> QED
    BY <1>3, <2>1 DEF Dropped
<1>10. Bursts
  BY <1>1, <1>3, <1>5 DEF Bursts
<1> QED
  BY <1>3, <1>4, <1>6, <1>7, <1>8, <1>9, <1>10 DEF RateInv, Bucket

LEMMA WaitsAreHonest == RateInv => RetryAfterIsHonest
<1> SUFFICES ASSUME RateInv, NEW h \in Hit, rateStep[h] = "rejected", rateBy[h] = limiter.kind, rateTime >= Due(h),
                    \A g \in Hit : rateStep[g] = "allowed" \/ (\E m \in rateSet : m.by = g) => rateTold[g] < rateTold[h],
                    limiter.kind = "redis" => rateCrowd <= 1
             PROVE  Open
  BY DEF RetryAfterIsHonest, Due
<1> USE DEF RateInv
<1>1. /\ MaxRequests \in Nat \ {0} /\ Window \in Nat \ {0} /\ PerSecond \in Nat /\ rateTime \in Nat
      /\ limiter.kind \in {"redis", "memory", "bucket"} /\ rateTold[h] \in Nat /\ rateRetry[h] \in Nat
      /\ IsFiniteSet(rateSet) /\ IsFiniteSet(rateMemory) /\ \A g \in Hit : rateTold[g] \in Nat
  BY Settings DEF RateBase, RateTypes
<1>2. ~ Since(h)
  BY <1>1 DEF Since
<1>3. PICK due \in Int : due = Due(h)
  BY <1>1 DEF Due
<1>4. CASE limiter.kind = "redis"
  <2>1. Cardinality(Before(h)) < MaxRequests
    BY <1>4 DEF Alone, RedisIsTrue
  <2>2. \A m \in rateSet : m.by \in Hit /\ m.score \in Nat
    BY DEF RateBase, RateTypes
  <2>3. \A m \in Trimmed(rateTime) : m \in rateSet /\ m.score > rateTime - Window
    BY DEF Trimmed
  <2>4. Trimmed(rateTime) \subseteq Before(h)
    BY <1>1, <1>3, <2>2, <2>3 DEF Before
  <2>5. IsFiniteSet(Before(h))
    BY <1>1, FS_Subset DEF Before
  <2>6. Cardinality(Trimmed(rateTime)) <= Cardinality(Before(h)) /\ IsFiniteSet(Trimmed(rateTime))
    BY <2>4, <2>5, FS_Subset
  <2>7. Cardinality(Trimmed(rateTime)) \in Nat /\ Cardinality(Before(h)) \in Nat
    BY <2>5, <2>6, FS_CardinalityType
  <2>8. Cardinality(Trimmed(rateTime)) < MaxRequests
    BY <1>1, <2>1, <2>6, <2>7
  <2> QED
    BY <1>4, <2>8 DEF Open
<1>5. CASE limiter.kind = "memory"
  <2>1. Cardinality(Left(h)) < MaxRequests
    BY <1>2, <1>5 DEF MemoryIsTrue
  <2>2. \A m \in rateMemory : m.score \in Nat
    BY DEF RateBase, RateTypes
  <2>3. Recent(rateTime) \subseteq Left(h)
    BY <1>1, <1>3, <2>2 DEF Recent, Left
  <2>4. IsFiniteSet(Left(h))
    BY <1>1, FS_Subset DEF Left
  <2>5. Cardinality(Recent(rateTime)) <= Cardinality(Left(h)) /\ IsFiniteSet(Recent(rateTime))
    BY <2>3, <2>4, FS_Subset
  <2>6. Cardinality(Recent(rateTime)) \in Nat /\ Cardinality(Left(h)) \in Nat
    BY <2>4, <2>5, FS_CardinalityType
  <2>7. Cardinality(Recent(rateTime)) < MaxRequests
    BY <1>1, <2>1, <2>5, <2>6
  <2> QED
    BY <1>5, <2>7 DEF Open
<1>6. CASE limiter.kind = "bucket"
  <2>1. rateBucket = NoBucket \/ rateBucket.lastRefill + Window <= due
    BY <1>2, <1>3, <1>6 DEF Bucket, BucketIsTrue
  <2>2. CASE rateBucket = NoBucket
    BY <1>6, <2>2 DEF Open
  <2>3. CASE rateBucket.lastRefill + Window <= due
    <3>1. PICK m \in Nat \ {0}, w \in Nat \ {0}, L \in Int : m = MaxRequests /\ w = Window /\ L = rateBucket.lastRefill
      BY <1>1 DEF RateBase, RateTypes
    <3>2. w <= rateTime - L
      BY <1>1, <1>3, <2>3, <3>1
    <3>3. m * w <= m * (rateTime - L) /\ m * (rateTime - L) = (rateTime - L) * m
      BY <1>1, <3>2, Times, Spread
    <3>4. w * 1 <= w * m /\ w * m = m * w /\ w * 1 = w
      BY Times, Spread
    <3>5. (rateTime - L) * m >= w
      BY <1>1, <3>3, <3>4
    <3> QED
      BY <1>6, <3>1, <3>5 DEF Open
  <2> QED
    BY <2>1, <2>2, <2>3
<1> QED
  BY <1>1, <1>4, <1>5, <1>6

(* LimitsHold: whatever the limiter, its settings and the requests, Redis   *)
(* lets in no more than what ran beside another, the memory at most max of  *)
(* any window and the bucket less than twice that; and who waits as long as *)
(* he was told finds room again.                                            *)
THEOREM LimitsKept == RateSpec => []LimitsHold
<1>1. RateInv => ExcessIsConcurrent
  <2> SUFFICES ASSUME RateInv PROVE ExcessIsConcurrent
    OBVIOUS
  <2>1. MaxRequests \in Nat /\ rateCrowd \in Nat /\ IsFiniteSet(rateSet) /\ rateTime \in Nat
    BY Settings DEF RateInv, RateBase, RateTypes
  <2>2. IsFiniteSet(Adders)
    BY FS_Subset, RateAssumption DEF Adders
  <2>3. Cardinality(rateSet) \in Nat /\ Cardinality(Adders) \in Nat
    BY <2>1, <2>2, FS_CardinalityType
  <2>4. PICK x \in Nat : x = Max({rateCrowd - 1, 0}) /\ x = Excess(rateCrowd)
    BY <2>1, MaxOfTwo DEF Excess
  <2>5. Cardinality(rateSet) <= MaxRequests + Max({rateCrowd - 1, 0})
    BY <2>1, <2>3, <2>4 DEF RateInv, Crowded
  <2>6. rateCrowd <= 1 => \A t \in 0 .. rateTime : \A by \in {"redis", "memory"} :
           Cardinality(LetIn(by, t)) <= MaxRequests
    BY <2>1 DEF RateInv, Alone, Windows
  <2> QED
    BY <2>5, <2>6 DEF ExcessIsConcurrent
<1>2. RateInv => BucketIsBounded
  BY DEF RateInv, RateBase, RateTypes, Bucket, Bursts, BucketIsBounded
<1>3. RateInv => LimitsHold
  BY <1>1, <1>2, WaitsAreHonest DEF LimitsHold
<1> QED
  BY <1>3, RateStarts, RateSteps, PTL DEF RateSpec

-----------------------------------------------------------------------------
(* Sessions                                                                 *)
USE CallAssumption DEF members

(* The statements of a refresh that found its token live.                   *)
Exchanging == {"revoke", "rotate", "insert", "commit"}

(* A row lock has one holder, and an uncommitted revocation holds its row.  *)
LocksExclude ==
  /\ \A c, d \in Call : c # d => rowLock[c] \cap rowLock[d] = {}
  /\ \A c \in Call : revoking[c] \subseteq rowLock[c]

(* From its SELECT to its COMMIT a refresh holds the row of its token, which *)
(* stays live; from step 4 on it has marked the row itself.                 *)
ExchangeInv ==
  \A c \in Call : pc[c] \in Exchanging =>
     /\ arg[c] \in rowLock[c]
     /\ arg[c] \notin revoked
     /\ arg[c] \in Ids
     /\ pc[c] # "revoke" => arg[c] \in revoking[c]

(* A token with a successor is revoked.                                     *)
ParentsRevoked == \A t \in tokens : t.parent # 0 => t.parent \in revoked

(* Only committed rows are being revoked.                                   *)
RowsOnly == \A c \in Call : revoking[c] \subseteq Ids

SessionInv ==
  TypeOK /\ LocksExclude /\ ExchangeInv /\ RowsOnly /\ ParentsRevoked /\ SingleUse

(* TypeOK in two halves: the calls, and what they share.                    *)
Labels == {"idle", "done", "company", "user", "owner", "firstLogin", "reuse", "throw",
           "revoke", "rotate", "insert", "commit"} \cup Kind
Replies == {"none", "ok", "lost", "invalid", "forbidden", "unauthorized",
            "conflict", "failed", "expired", "reuse"}
CallTypes ==
  /\ pc \in [Call -> Labels]
  /\ kind \in [Call -> Kind] /\ email \in [Call -> Email] /\ arg \in [Call -> Nat]
  /\ reply \in [Call -> Replies]
  /\ mine \in [Call -> Nat]
  /\ revoking \in [Call -> SUBSET Nat] /\ rowLock \in [Call -> SUBSET Nat]
  /\ draft \in [Call -> SUBSET Draft]
SharedTypes ==
  /\ nextId \in Nat \ {0}
  /\ tokens \subseteq [id : Nat, parent : Nat, family : Nat, email : Email]
  /\ revoked \subseteq Ids /\ expired \subseteq Ids /\ known \subseteq Ids
  /\ accessOf \subseteq Email
  /\ users \subseteq [email : Email, id : Call \cup {Nobody}]
  /\ companies \subseteq Call /\ owners \subseteq Call

LEMMA TypeHalves == TypeOK <=> CallTypes /\ SharedTypes
  BY DEF TypeOK, CallTypes, SharedTypes, Labels, Replies

LEMMA IdsAreNumbers == TypeOK => Ids \subseteq Nat
  BY DEF TypeOK, Ids

LEMMA SessionInit == Init => SessionInv
<1> SUFFICES ASSUME Init PROVE SessionInv
  OBVIOUS
<1>1. (CHOOSE e \in Email : TRUE) \in Email
  BY EmailAssumption
<1>2. TypeOK
  BY <1>1, EmailAssumption DEF Init, TypeOK, Ids, Kind
<1>3. LocksExclude /\ ExchangeInv /\ RowsOnly /\ ParentsRevoked /\ SingleUse
  BY DEF Init, LocksExclude, ExchangeInv, Exchanging, RowsOnly, ParentsRevoked, SingleUse
<1>. QED
  BY <1>2, <1>3 DEF SessionInv

-----------------------------------------------------------------------------
(* However a call ends: it holds nothing, and the others go on as they were. *)
LEMMA EndEffect ==
  ASSUME TypeOK, NEW c \in Call, NEW how \in Replies, End(c, how)
  PROVE  /\ CallTypes'
         /\ pc'[c] = "done" /\ rowLock'[c] = {} /\ revoking'[c] = {}
         /\ \A d \in Call \ {c} : pc'[d] = pc[d] /\ rowLock'[d] = rowLock[d]
                                   /\ revoking'[d] = revoking[d]
         /\ arg' = arg
<1>1. CallTypes
  BY TypeHalves
<1>2. draft' \in [Call -> SUBSET Draft]
  BY <1>1 DEF End, CallTypes
<1>. QED
  BY <1>1, <1>2 DEF End, Goto, ask, CallTypes, Labels

(* The parts of the invariant that speak of the calls survive the end of c  *)
(* if no other call's row was revoked and no row is gone.                   *)
LEMMA EndKeepsCalls ==
  ASSUME SessionInv, NEW c \in Call, NEW how \in Replies, End(c, how),
         Ids \subseteq Ids',
         \A d \in Call \ {c} : (revoked' \ revoked) \cap rowLock[d] = {}
  PROVE  CallTypes' /\ LocksExclude' /\ ExchangeInv' /\ RowsOnly'
<1> USE EndEffect DEF SessionInv
<1>1. CallTypes'
  OBVIOUS
<1>2. LocksExclude'
  BY DEF LocksExclude
<1>3. ExchangeInv'
  <2> SUFFICES ASSUME NEW d \in Call, pc'[d] \in Exchanging
               PROVE  /\ arg'[d] \in rowLock'[d] /\ arg'[d] \notin revoked'
                      /\ arg'[d] \in Ids' /\ pc'[d] # "revoke" => arg'[d] \in revoking'[d]
    BY DEF ExchangeInv
  <2>1. d # c /\ pc[d] \in Exchanging
    BY DEF Exchanging
  <2>. QED
    BY <2>1 DEF ExchangeInv
<1>4. RowsOnly'
  BY DEF RowsOnly
<1>. QED
  BY <1>1, <1>2, <1>3, <1>4

LEMMA RollbackKeeps ==
  ASSUME SessionInv, NEW c \in Call, NEW why \in Replies, Rollback(c, why)
  PROVE  SessionInv'
<1>1. End(c, why) /\ UNCHANGED <<nextId, expired, given, rows>>
  BY DEF Rollback
<1>2. CallTypes' /\ LocksExclude' /\ ExchangeInv' /\ RowsOnly'
  BY <1>1, EndKeepsCalls DEF rows, Ids
<1>3. SharedTypes'
  BY <1>1, TypeHalves DEF SessionInv, SharedTypes, Ids, given, rows
<1>4. ParentsRevoked' /\ SingleUse'
  BY <1>1 DEF SessionInv, ParentsRevoked, SingleUse, rows
<1>. QED
  BY <1>2, <1>3, <1>4, TypeHalves, PTL DEF SessionInv

(* A call that inserts a first token of a family commits and ends.          *)
LEMMA FirstTokenKeeps ==
  ASSUME SessionInv, NEW c \in Call,
         tokens' = tokens \cup {[id |-> nextId, parent |-> 0, family |-> nextId,
                                 email |-> email[c]]},
         nextId' = nextId + 1,
         Deliver(c, nextId, email[c]),
         users' \subseteq [email : Email, id : Call \cup {Nobody}],
         companies' \subseteq Call, owners' \subseteq Call,
         UNCHANGED <<expired, revoked>>
  PROVE  SessionInv'
<1> DEFINE t0 == [id |-> nextId, parent |-> 0, family |-> nextId, email |-> email[c]]
<1>1. PICK how \in {"ok", "lost"} :
         /\ End(c, how)
         /\ known' \subseteq known \cup {nextId}
         /\ accessOf' \subseteq accessOf \cup {email[c]}
  BY DEF Deliver, given
<1>2. Ids' = Ids \cup {nextId}
  <2>1. tokens' = tokens \cup {t0} /\ t0.id = nextId
    OBVIOUS
  <2> HIDE DEF t0
  <2>. QED
    BY <2>1 DEF Ids
<1>3. CallTypes' /\ LocksExclude' /\ ExchangeInv' /\ RowsOnly'
  BY <1>1, <1>2, EndKeepsCalls DEF Replies
<1>4. SharedTypes'
  BY <1>1, <1>2, TypeHalves DEF SessionInv, SharedTypes, CallTypes
<1>5. ParentsRevoked' /\ SingleUse'
  BY DEF SessionInv, ParentsRevoked, SingleUse
<1>. QED
  BY <1>3, <1>4, <1>5, TypeHalves, PTL DEF SessionInv

(* A statement of c that locks the rows S and marks those of T.             *)
LEMMA LockingKeeps ==
  ASSUME SessionInv, NEW c \in Call, NEW label \in Labels, Goto(c, label), Stays,
         NEW S \in SUBSET Ids, NEW T \in SUBSET S,
         \A i \in S : Free(c, i),
         rowLock' = [rowLock EXCEPT ![c] = @ \cup S],
         revoking' = [revoking EXCEPT ![c] = @ \cup T],
         draft' \in [Call -> SUBSET Draft], UNCHANGED mine,
         label \in Exchanging => /\ arg[c] \notin revoked /\ arg[c] \in Ids
                                 /\ arg[c] \in rowLock[c] \cup S
                                 /\ label # "revoke" => arg[c] \in revoking[c] \cup T
  PROVE  SessionInv'
<1> USE DEF SessionInv
<1>1. CallTypes /\ SharedTypes /\ Ids \subseteq Nat
  BY TypeHalves, IdsAreNumbers
<1>2. Ids' = Ids
  BY DEF Stays, rows, Ids
<1>3. CallTypes'
  BY <1>1 DEF CallTypes, Goto, Stays, ask
<1>4. SharedTypes'
  BY <1>1, <1>2 DEF SharedTypes, Stays, given, rows
<1>5. /\ rowLock'[c] = rowLock[c] \cup S /\ revoking'[c] = revoking[c] \cup T /\ pc'[c] = label
      /\ \A d \in Call \ {c} : rowLock'[d] = rowLock[d] /\ revoking'[d] = revoking[d]
                                /\ pc'[d] = pc[d]
  BY <1>1 DEF CallTypes, Goto
<1>6. LocksExclude'
  BY <1>5 DEF LocksExclude, Free
<1>7. ExchangeInv'
  BY <1>2, <1>5 DEF ExchangeInv, Stays, ask, rows
<1>8. RowsOnly'
  BY <1>2, <1>5 DEF RowsOnly
<1>9. ParentsRevoked' /\ SingleUse'
  BY DEF ParentsRevoked, SingleUse, Stays, rows
<1>. QED
  BY <1>3, <1>4, <1>6, <1>7, <1>8, <1>9, TypeHalves, PTL

(* A statement of c that locks and marks nothing.                           *)
LEMMA AsideKeeps ==
  ASSUME SessionInv, NEW c \in Call, NEW label \in Labels, label \notin Exchanging,
         Goto(c, label), Stays, UNCHANGED <<mine, revoking, rowLock>>,
         draft' \in [Call -> SUBSET Draft]
  PROVE  SessionInv'
<1> DEFINE none == {}
<1>1. /\ rowLock' = [rowLock EXCEPT ![c] = @ \cup none]
      /\ revoking' = [revoking EXCEPT ![c] = @ \cup none]
      /\ none \in SUBSET Ids /\ none \in SUBSET none /\ \A i \in none : Free(c, i)
  BY TypeHalves DEF SessionInv, CallTypes
<1> HIDE DEF none
<1>. QED
  BY <1>1, LockingKeeps

LEMMA InsertsKeeps ==
  ASSUME SessionInv, NEW c \in Call, NEW row \in Draft, NEW next \in {"user", "owner", "firstLogin"},
         Inserts(c, row, next)
  PROVE  SessionInv'
<1>1. draft' \in [Call -> SUBSET Draft]
  BY TypeHalves DEF SessionInv, CallTypes, Inserts
<1>2. next \in Labels /\ next \notin Exchanging
  BY DEF Labels, Exchanging
<1>. QED
  BY <1>1, <1>2, AsideKeeps DEF Inserts

-----------------------------------------------------------------------------
LEMMA SessionNext == SessionInv /\ [Next]_vars => SessionInv'
<1> SUFFICES ASSUME SessionInv, [Next]_vars PROVE SessionInv'
  OBVIOUS
<1>0. CallTypes /\ SharedTypes
  BY TypeHalves DEF SessionInv
<1> DEFINE Same == UNCHANGED <<reply, own, nextId, expired, given, rows>>
<1>1. ASSUME NEW c \in Call, Begin(c) PROVE SessionInv'
  <2>1. PICK k \in Kind, e \in Email, i \in known \cup {0} :
           /\ kind' = [kind EXCEPT ![c] = k]
           /\ email' = [email EXCEPT ![c] = e]
           /\ arg' = [arg EXCEPT ![c] = i]
           /\ Goto(c, k)
    BY <1>1 DEF Begin
  <2>2. pc[c] = "idle" /\ Same
    BY <1>1 DEF Begin
  <2>3. i \in Nat
    BY <1>0, IdsAreNumbers DEF SessionInv, SharedTypes
  <2>4. CallTypes'
    BY <1>0, <2>1, <2>2, <2>3 DEF CallTypes, Goto, Labels, own
  <2>5. SharedTypes'
    BY <1>0, <2>2 DEF SharedTypes, Ids, given, rows
  <2>6. \A d \in Call \ {c} : pc'[d] = pc[d] /\ arg'[d] = arg[d]
    BY <1>0, <2>1 DEF Goto, CallTypes
  <2>7. pc'[c] \notin Exchanging
    BY <1>0, <2>1 DEF Goto, CallTypes, Kind, Exchanging
  <2>8. ExchangeInv'
    BY <2>2, <2>6, <2>7 DEF SessionInv, ExchangeInv, own, rows, Ids
  <2>9. LocksExclude' /\ RowsOnly' /\ ParentsRevoked' /\ SingleUse'
    BY <2>2 DEF SessionInv, LocksExclude, RowsOnly, ParentsRevoked, SingleUse, own, rows, Ids
  <2>. QED
    BY <2>4, <2>5, <2>8, <2>9, TypeHalves, PTL DEF SessionInv
<1>2. ASSUME NEW c \in Call, Login(c) PROVE SessionInv'
  BY <1>0, <1>2, RollbackKeeps, FirstTokenKeeps DEF Login, Replies, SharedTypes
<1>3. ASSUME NEW c \in Call, Logout(c) PROVE SessionInv'
  <2> DEFINE Found == {t.id : t \in {u \in tokens : u.id = arg[c] /\ u.email = email[c]}}
  <2>1. CASE Rollback(c, "unauthorized")
    BY <2>1, RollbackKeeps DEF Replies
  <2>2. CASE ~Rollback(c, "unauthorized")
    <3>1. /\ \A i \in Found : Free(c, i)
          /\ revoked' = revoked \cup Found
          /\ End(c, "ok")
          /\ UNCHANGED <<nextId, expired, given, tokens, members>>
      BY <1>3, <2>2 DEF Logout
    <3>2. Found \subseteq Ids
      BY DEF Ids
    <3> HIDE DEF Found
    <3>3. CallTypes' /\ LocksExclude' /\ ExchangeInv' /\ RowsOnly'
      BY <3>1, EndKeepsCalls DEF Replies, Free, Ids
    <3>4. SharedTypes'
      BY <1>0, <3>1, <3>2 DEF SharedTypes, Ids, given
    <3>5. ParentsRevoked' /\ SingleUse'
      BY <3>1 DEF SessionInv, ParentsRevoked, SingleUse
    <3>. QED
      BY <3>3, <3>4, <3>5, TypeHalves, PTL DEF SessionInv
  <2>. QED
    BY <2>1, <2>2
<1>4. ASSUME NEW c \in Call, RegisterCheck(c) PROVE SessionInv'
  <2>1. CASE Rollback(c, "conflict")
    BY <2>1, RollbackKeeps DEF Replies
  <2>2. CASE Goto(c, "company") /\ Stays /\ UNCHANGED own
    <3>1. draft' \in [Call -> SUBSET Draft] /\ UNCHANGED <<mine, revoking, rowLock>>
      BY <1>0, <2>2 DEF own, CallTypes
    <3>2. "company" \in Labels /\ "company" \notin Exchanging
      BY DEF Labels, Exchanging
    <3>. QED
      BY <2>2, <3>1, <3>2, AsideKeeps
  <2>. QED
    BY <1>4, <2>1, <2>2 DEF RegisterCheck
<1>5. ASSUME NEW c \in Call, RegisterCompany(c) \/ RegisterUser(c) \/ RegisterOwner(c)
      PROVE  SessionInv'
  BY <1>5, RollbackKeeps, InsertsKeeps
     DEF RegisterCompany, RegisterUser, RegisterOwner, Replies, Draft
<1>6. ASSUME NEW c \in Call, RegisterLogin(c) PROVE SessionInv'
  <2>1. CASE Rollback(c, "forbidden")
    BY <2>1, RollbackKeeps DEF Replies
  <2>2. CASE ~Rollback(c, "forbidden")
    <3>1. /\ users' = users \cup {[email |-> email[d], id |-> d] : d \in Inserting(c, "user")}
          /\ companies' = companies \cup Inserting(c, "company")
          /\ owners' = owners \cup Inserting(c, "owner")
      BY <1>6, <2>2 DEF RegisterLogin
    <3>2. email \in [Call -> Email] /\ \A row : Inserting(c, row) \subseteq Call
      BY <1>0 DEF CallTypes, Inserting
    <3>3. users' \subseteq [email : Email, id : Call \cup {Nobody}]
      BY <1>0, <3>1, <3>2 DEF SharedTypes
    <3>4. companies' \subseteq Call /\ owners' \subseteq Call
      BY <1>0, <3>1, <3>2 DEF SharedTypes
    <3>. QED
      BY <1>6, <2>2, <3>3, <3>4, FirstTokenKeeps DEF RegisterLogin
  <2>. QED
    BY <2>1, <2>2
<1>7. ASSUME NEW c \in Call, LookUp(c) PROVE SessionInv'
  <2>1. CASE Rollback(c, "invalid") \/ Rollback(c, "expired")
    BY <2>1, RollbackKeeps DEF Replies
  <2>2. CASE ~(Rollback(c, "invalid") \/ Rollback(c, "expired"))
    <3>1. /\ arg[c] \in Ids /\ Free(c, arg[c]) /\ AfterLookUp(c)
          /\ rowLock' = [rowLock EXCEPT ![c] = @ \cup {arg[c]}]
          /\ Stays /\ UNCHANGED <<mine, revoking, draft>>
      BY <1>7, <2>2 DEF LookUp
    <3> DEFINE S == {arg[c]}  T == {}
    <3>2. /\ revoking' = [revoking EXCEPT ![c] = @ \cup T]
          /\ rowLock' = [rowLock EXCEPT ![c] = @ \cup S]
          /\ draft' \in [Call -> SUBSET Draft] /\ UNCHANGED mine
          /\ S \in SUBSET Ids /\ T \in SUBSET S /\ arg[c] \in S
          /\ \A i \in S : Free(c, i)
      BY <1>0, <3>1 DEF CallTypes
    <3>3. PICK label \in {"reuse", "revoke"} :
             Goto(c, label) /\ (label = "revoke" => arg[c] \notin revoked)
      BY <3>1 DEF AfterLookUp
    <3>4. label \in Labels /\ (label \in Exchanging => label = "revoke")
      BY DEF Labels, Exchanging
    <3> HIDE DEF S, T
    <3>. QED
      BY <3>1, <3>2, <3>3, <3>4, LockingKeeps
  <2>. QED
    BY <2>1, <2>2
<1>8. ASSUME NEW c \in Call, RevokeFamily(c) PROVE SessionInv'
  <2> DEFINE S == Family(arg[c])
  <2>1. S \in SUBSET Ids /\ S \in SUBSET S
    BY DEF Family, Live, Ids
  <2>2. Revoke(c, S) /\ Goto(c, "throw") /\ Stays
    BY <1>8 DEF RevokeFamily
  <2>3. draft' \in [Call -> SUBSET Draft]
    BY <1>0, <2>2 DEF Revoke, CallTypes
  <2>4. "throw" \in Labels /\ "throw" \notin Exchanging
    BY DEF Labels, Exchanging
  <2> HIDE DEF S
  <2>. QED
    BY <2>1, <2>2, <2>3, <2>4, LockingKeeps DEF Revoke
<1>9. ASSUME NEW c \in Call, ThrowReuse(c) PROVE SessionInv'
  BY <1>9, RollbackKeeps DEF ThrowReuse, Replies
<1>10. ASSUME NEW c \in Call, RevokeOld(c) PROVE SessionInv'
  <2>1. /\ arg[c] \in Ids /\ arg[c] \notin revoked /\ {arg[c]} \in SUBSET Ids
    BY <1>10 DEF SessionInv, ExchangeInv, Exchanging, RevokeOld
  <2>2. draft' \in [Call -> SUBSET Draft]
    BY <1>0, <1>10 DEF RevokeOld, Revoke, CallTypes
  <2>. QED
    BY <1>10, <2>1, <2>2, LockingKeeps DEF RevokeOld, Revoke, Labels
<1>11. ASSUME NEW c \in Call, Rotate(c) PROVE SessionInv'
  <2> DEFINE S == Family(arg[c]) \ revoking[c]
  <2>1. S \in SUBSET Ids
    BY DEF Family, Live, Ids
  <2>2. draft' \in [Call -> SUBSET Draft]
    BY <1>0, <1>11 DEF Rotate, Revoke, CallTypes
  <2>3. /\ arg[c] \in Ids /\ arg[c] \notin revoked
        /\ arg[c] \in rowLock[c] /\ arg[c] \in revoking[c]
    BY <1>11 DEF SessionInv, ExchangeInv, Exchanging, Rotate
  <2>4. Goto(c, "insert") /\ Stays /\ Revoke(c, S)
    BY <1>11 DEF Rotate
  <2> HIDE DEF S
  <2>. QED
    BY <2>1, <2>2, <2>3, <2>4, LockingKeeps DEF Revoke, Labels
<1>12. ASSUME NEW c \in Call, Insert(c) PROVE SessionInv'
  <2>1. /\ mine' = [mine EXCEPT ![c] = nextId] /\ nextId' = nextId + 1
        /\ pc[c] = "insert" /\ Goto(c, "commit")
        /\ UNCHANGED <<kind, email, arg, reply, revoking, rowLock, draft, expired,
                       known, accessOf, tokens, revoked, members>>
    BY <1>12 DEF Insert, ask, given, rows
  <2>2. CallTypes'
    BY <1>0, <2>1 DEF CallTypes, SharedTypes, Goto, Labels
  <2>3. SharedTypes'
    BY <1>0, <2>1 DEF SharedTypes, Ids
  <2>4. pc'[c] = "commit" /\ \A d \in Call \ {c} : pc'[d] = pc[d]
    BY <1>0, <2>1 DEF Goto, CallTypes
  <2>5. ExchangeInv'
    BY <2>1, <2>4 DEF SessionInv, ExchangeInv, Exchanging, Ids
  <2>6. LocksExclude' /\ RowsOnly' /\ ParentsRevoked' /\ SingleUse'
    BY <2>1 DEF SessionInv, LocksExclude, RowsOnly, ParentsRevoked, SingleUse, Ids
  <2>. QED
    BY <2>2, <2>3, <2>5, <2>6, TypeHalves, PTL DEF SessionInv
<1>13. ASSUME NEW c \in Call, Commit(c) PROVE SessionInv'
  <2> DEFINE t0 == [id |-> mine[c], parent |-> arg[c],
                    family |-> Row(arg[c]).family, email |-> Row(arg[c]).email]
  <2>1. /\ arg[c] \in Ids /\ arg[c] \notin revoked /\ arg[c] \in revoking[c]
        /\ revoking[c] \subseteq Ids
    BY <1>13 DEF SessionInv, ExchangeInv, Exchanging, RowsOnly, Commit
  <2>2. Row(arg[c]) \in tokens
    BY <2>1 DEF Ids, Row
  <2>3. t0 \in [id : Nat, parent : Nat, family : Nat, email : Email] /\ t0.id = mine[c]
                /\ t0.parent = arg[c]
    BY <1>0, <2>2 DEF CallTypes, SharedTypes
  <2>4. PICK how \in {"ok", "lost"} :
           /\ End(c, how)
           /\ known' \subseteq known \cup {mine[c]}
           /\ accessOf' \subseteq accessOf \cup {Row(arg[c]).email}
    BY <1>13 DEF Commit, Deliver, given
  <2>5. /\ tokens' = tokens \cup {t0} /\ revoked' = revoked \cup revoking[c]
        /\ UNCHANGED <<nextId, expired, members>>
    BY <1>13 DEF Commit
  <2>6. Row(arg[c]).email \in Email
    BY <1>0, <2>2 DEF SharedTypes
  <2> HIDE DEF t0
  <2>7. Ids' = Ids \cup {mine[c]}
    BY <2>3, <2>5 DEF Ids
  <2>8. \A d \in Call \ {c} : (revoked' \ revoked) \cap rowLock[d] = {}
    BY <2>5 DEF SessionInv, LocksExclude
  <2>9. CallTypes' /\ LocksExclude' /\ ExchangeInv' /\ RowsOnly'
    BY <2>4, <2>7, <2>8, EndKeepsCalls DEF Replies
  <2>10. SharedTypes'
    BY <1>0, <2>1, <2>3, <2>4, <2>5, <2>6, <2>7 DEF SharedTypes
  <2>11. ParentsRevoked'
    BY <2>1, <2>3, <2>5 DEF SessionInv, ParentsRevoked
  <2>12. SingleUse'
    BY <2>1, <2>3, <2>5 DEF SessionInv, ParentsRevoked, SingleUse
  <2>. QED
    BY <2>9, <2>10, <2>11, <2>12, TypeHalves, PTL DEF SessionInv
<1>14. ASSUME NEW c \in Call, Fail(c) PROVE SessionInv'
  BY <1>14, RollbackKeeps DEF Fail, Replies
<1>15. ASSUME NEW i \in Ids, Expire(i) PROVE SessionInv'
  <2>1. /\ expired' = expired \cup {i}
        /\ UNCHANGED <<pc, kind, email, arg, reply, mine, revoking, rowLock, draft, nextId,
                       known, accessOf, tokens, revoked, members>>
    BY <1>15 DEF Expire, ask, own, given, rows
  <2>2. CallTypes' /\ SharedTypes'
    BY <1>0, <2>1 DEF CallTypes, SharedTypes, Ids
  <2>3. ExchangeInv' /\ LocksExclude' /\ RowsOnly' /\ ParentsRevoked' /\ SingleUse'
    BY <2>1 DEF SessionInv, ExchangeInv, LocksExclude, RowsOnly, ParentsRevoked, SingleUse, Ids
  <2>. QED
    BY <2>2, <2>3, TypeHalves, PTL DEF SessionInv
<1>16. CASE UNCHANGED vars
  <2>1. UNCHANGED <<pc, kind, email, arg, reply, mine, revoking, rowLock, draft, nextId,
                    expired, known, accessOf, tokens, revoked, members>>
    BY <1>16 DEF vars, ask, own, given, rows
  <2>2. CallTypes' /\ SharedTypes'
    BY <1>0, <2>1 DEF CallTypes, SharedTypes, Ids
  <2>3. ExchangeInv' /\ LocksExclude' /\ RowsOnly' /\ ParentsRevoked' /\ SingleUse'
    BY <2>1 DEF SessionInv, ExchangeInv, LocksExclude, RowsOnly, ParentsRevoked, SingleUse, Ids
  <2>. QED
    BY <2>2, <2>3, TypeHalves, PTL DEF SessionInv
<1>. QED
  BY <1>1, <1>2, <1>3, <1>4, <1>5, <1>6, <1>7, <1>8, <1>9, <1>10, <1>11, <1>12, <1>13,
     <1>14, <1>15, <1>16 DEF Next, Step

LEMMA SessionCorrect == Spec => []SessionInv
  BY SessionInit, SessionNext, PTL DEF Spec

(* Every variable keeps its type, and nobody was given a token without a row. *)
THEOREM TypeCorrect == Spec => []TypeOK
<1>1. SessionInv => TypeOK
  BY DEF SessionInv
<1>. QED
  BY <1>1, SessionCorrect, PTL

(* No refresh token is exchanged twice.                                     *)
THEOREM ExchangedOnce == Spec => []SingleUse
<1>1. SessionInv => SingleUse
  BY DEF SessionInv
<1>. QED
  BY <1>1, SessionCorrect, PTL

(* A token that was revoked before an exchange commits is not exchanged.    *)
THEOREM ExchangedLive == Spec => ExchangesLiveTokens
<1> DEFINE Exchanges == \A t \in tokens' \ tokens : t.parent # 0 => t.parent \notin revoked
<1>1. SessionInv /\ [Next]_vars => Exchanges
  <2> SUFFICES ASSUME SessionInv, [Next]_vars, NEW t \in tokens' \ tokens, t.parent # 0
               PROVE  t.parent \notin revoked
    OBVIOUS
  <2>1. \A e, n : [id |-> n, parent |-> 0, family |-> n, email |-> e].parent = 0
    OBVIOUS
  <2>2. ASSUME NEW c \in Call, Login(c) \/ RegisterLogin(c) PROVE FALSE
    BY <2>1, <2>2 DEF Login, RegisterLogin, Rollback, rows
  <2>3. ASSUME NEW c \in Call, Commit(c) PROVE t.parent \notin revoked
    BY <2>3 DEF SessionInv, ExchangeInv, Exchanging, Commit
  <2>4. ASSUME NEW c \in Call,
               \/ Begin(c) \/ Fail(c) \/ Logout(c) \/ RegisterCheck(c)
               \/ RegisterCompany(c) \/ RegisterUser(c) \/ RegisterOwner(c)
               \/ LookUp(c) \/ RevokeFamily(c) \/ ThrowReuse(c)
               \/ RevokeOld(c) \/ Rotate(c) \/ Insert(c)
        PROVE  tokens' = tokens
    BY <2>4 DEF Begin, Fail, Logout, RegisterCheck, RegisterCompany, RegisterUser,
                RegisterOwner, Inserts, LookUp, RevokeFamily, ThrowReuse, RevokeOld, Rotate,
                Insert, Rollback, Stays, rows
  <2>5. ASSUME NEW i \in Ids, Expire(i) PROVE tokens' = tokens
    BY <2>5 DEF Expire, rows
  <2>6. CASE UNCHANGED vars
    BY <2>6 DEF vars, rows
  <2>. QED
    BY <2>2, <2>3, <2>4, <2>5, <2>6 DEF Next, Step
<1>. QED
  BY <1>1, SessionCorrect, PTL DEF Spec, ExchangesLiveTokens

-----------------------------------------------------------------------------
(* What keeps families apart: every row has a number below the next one, the *)
(* number of a row about to be committed is no other row's, and a family is  *)
(* named by a number already given.                                         *)
Numbered ==
  /\ \A t \in tokens : t.id < nextId /\ t.family < nextId
  /\ \A t, u \in tokens : t.id = u.id => t = u
  /\ \A c \in Call : pc[c] = "commit" => mine[c] < nextId /\ mine[c] \notin Ids
  /\ \A c, d \in Call : c # d /\ pc[c] = "commit" /\ pc[d] = "commit" => mine[c] # mine[d]

FamilyInv == Numbered /\ OneLivePerFamily

(* Steps that add no row, un-revoke none and bring no call to its COMMIT.   *)
LEMMA NumberedStays ==
  ASSUME SessionInv, FamilyInv, UNCHANGED <<tokens, nextId>>, revoked \subseteq revoked',
         \A d \in Call : pc'[d] = "commit" => pc[d] = "commit" /\ mine'[d] = mine[d]
  PROVE  FamilyInv'
<1>1. Numbered'
  BY DEF FamilyInv, Numbered, Ids
<1>2. OneLivePerFamily'
  BY DEF FamilyInv, OneLivePerFamily, Live
<1>. QED
  BY <1>1, <1>2 DEF FamilyInv

(* The end of a call in the terms of the lemma above.                       *)
LEMMA EndLeavesCommits ==
  ASSUME SessionInv, NEW c \in Call, NEW how, End(c, how)
  PROVE  /\ pc'[c] = "done"
         /\ \A d \in Call \ {c} : pc'[d] = pc[d] /\ mine'[d] = mine[d]
  BY TypeHalves DEF SessionInv, CallTypes, End, Goto

LEMMA RollbackKeepsFamilies ==
  ASSUME SessionInv, FamilyInv, NEW c \in Call, NEW why, Rollback(c, why)
  PROVE  FamilyInv'
  BY EndLeavesCommits, NumberedStays DEF Rollback, rows

(* A first token founds a family of its own.                                *)
LEMMA FirstTokenFounds ==
  ASSUME SessionInv, FamilyInv, NEW c \in Call,
         tokens' = tokens \cup {[id |-> nextId, parent |-> 0, family |-> nextId,
                                 email |-> email[c]]},
         nextId' = nextId + 1,
         Deliver(c, nextId, email[c]), UNCHANGED revoked
  PROVE  FamilyInv'
<1> DEFINE t0 == [id |-> nextId, parent |-> 0, family |-> nextId, email |-> email[c]]
<1>1. t0.id = nextId /\ t0.family = nextId /\ tokens' = tokens \cup {t0}
  OBVIOUS
<1> HIDE DEF t0
<1>2. /\ pc'[c] = "done"
      /\ \A d \in Call \ {c} : pc'[d] = pc[d] /\ mine'[d] = mine[d]
  BY EndLeavesCommits DEF Deliver
<1>3. /\ nextId \in Nat /\ \A t \in tokens : t.id \in Nat /\ t.family \in Nat
      /\ \A d \in Call : mine[d] \in Nat
  BY TypeHalves DEF SessionInv, SharedTypes, CallTypes
<1>4. Ids' = Ids \cup {nextId}
  BY <1>1 DEF Ids
<1>5. \A d \in Call : pc'[d] = "commit" => pc[d] = "commit" /\ mine'[d] = mine[d]
  BY <1>2
<1>6. Numbered'
  <2>1. (\A t \in tokens : t.id < nextId /\ t.family < nextId)'
    BY <1>1, <1>3 DEF FamilyInv, Numbered
  <2>2. (\A t, u \in tokens : t.id = u.id => t = u)'
    BY <1>1, <1>3 DEF FamilyInv, Numbered
  <2>3. (\A d \in Call : pc[d] = "commit" => mine[d] < nextId /\ mine[d] \notin Ids)'
    BY <1>3, <1>4, <1>5 DEF FamilyInv, Numbered
  <2>4. (\A d, e \in Call :
            d # e /\ pc[d] = "commit" /\ pc[e] = "commit" => mine[d] # mine[e])'
    BY <1>5 DEF FamilyInv, Numbered
  <2>. QED
    BY <2>1, <2>2, <2>3, <2>4 DEF Numbered
<1>7. OneLivePerFamily'
  BY <1>1, <1>3 DEF FamilyInv, Numbered, OneLivePerFamily, Live
<1>. QED
  BY <1>6, <1>7 DEF FamilyInv

LEMMA FamilyInit == Init => FamilyInv
  BY DEF Init, FamilyInv, Numbered, OneLivePerFamily, Live, Ids

LEMMA FamilyNext == SessionInv /\ FamilyInv /\ [Next]_vars => FamilyInv'
<1> SUFFICES ASSUME SessionInv, FamilyInv, [Next]_vars PROVE FamilyInv'
  OBVIOUS
<1>0. CallTypes /\ SharedTypes
  BY TypeHalves DEF SessionInv
<1>1. ASSUME NEW c \in Call, Begin(c) PROVE FamilyInv'
  <2>1. PICK k \in Kind : Goto(c, k)
    BY <1>1 DEF Begin
  <2>2. \A d \in Call : pc'[d] = "commit" => pc[d] = "commit"
    BY <1>0, <2>1 DEF Goto, CallTypes, Kind
  <2>. QED
    BY <1>1, <2>2, NumberedStays DEF Begin, own, rows
<1>2. ASSUME NEW c \in Call, Login(c) PROVE FamilyInv'
  BY <1>2, RollbackKeepsFamilies, FirstTokenFounds DEF Login
<1>3. ASSUME NEW c \in Call, Logout(c) PROVE FamilyInv'
  BY <1>3, RollbackKeepsFamilies, EndLeavesCommits, NumberedStays DEF Logout
<1>4. ASSUME NEW c \in Call, RegisterCheck(c) PROVE FamilyInv'
  <2>1. CASE Goto(c, "company") /\ Stays /\ UNCHANGED own
    <3>1. \A d \in Call : pc'[d] = "commit" => pc[d] = "commit"
      BY <1>0, <2>1 DEF Goto, CallTypes
    <3>. QED
      BY <2>1, <3>1, NumberedStays DEF Stays, own, rows
  <2>. QED
    BY <1>4, <2>1, RollbackKeepsFamilies DEF RegisterCheck
<1>5. ASSUME NEW c \in Call, RegisterCompany(c) \/ RegisterUser(c) \/ RegisterOwner(c)
      PROVE  FamilyInv'
  <2>1. ASSUME NEW row, NEW next \in {"user", "owner", "firstLogin"}, Inserts(c, row, next)
        PROVE  FamilyInv'
    <3>0. Goto(c, next) /\ Stays /\ UNCHANGED mine
      BY <2>1 DEF Inserts
    <3>1. \A d \in Call : pc'[d] = "commit" => pc[d] = "commit"
      BY <1>0, <2>1, <3>0 DEF Goto, CallTypes
    <3>. QED
      BY <3>0, <3>1, NumberedStays DEF Stays, rows
  <2>. QED
    BY <1>5, <2>1, RollbackKeepsFamilies DEF RegisterCompany, RegisterUser, RegisterOwner
<1>6. ASSUME NEW c \in Call, RegisterLogin(c) PROVE FamilyInv'
  BY <1>6, RollbackKeepsFamilies, FirstTokenFounds DEF RegisterLogin
<1>7. ASSUME NEW c \in Call, LookUp(c) PROVE FamilyInv'
  <2>1. CASE AfterLookUp(c) /\ Stays /\ UNCHANGED mine
    <3>1. \A d \in Call : pc'[d] = "commit" => pc[d] = "commit"
      BY <1>0, <2>1 DEF AfterLookUp, Goto, CallTypes
    <3>. QED
      BY <2>1, <3>1, NumberedStays DEF Stays, rows
  <2>. QED
    BY <1>7, <2>1, RollbackKeepsFamilies DEF LookUp
<1>8. ASSUME NEW c \in Call, RevokeFamily(c) \/ RevokeOld(c) \/ Rotate(c) PROVE FamilyInv'
  <2>1. \A d \in Call : pc'[d] = "commit" => pc[d] = "commit"
    BY <1>0, <1>8 DEF RevokeFamily, RevokeOld, Rotate, Goto, CallTypes
  <2>. QED
    BY <1>8, <2>1, NumberedStays DEF RevokeFamily, RevokeOld, Rotate, Revoke, Stays, rows
<1>9. ASSUME NEW c \in Call, ThrowReuse(c) \/ Fail(c) PROVE FamilyInv'
  BY <1>9, RollbackKeepsFamilies DEF ThrowReuse, Fail
<1>10. ASSUME NEW c \in Call, Insert(c) PROVE FamilyInv'
  <2>1. /\ mine' = [mine EXCEPT ![c] = nextId] /\ nextId' = nextId + 1
        /\ Goto(c, "commit") /\ UNCHANGED <<tokens, revoked>>
    BY <1>10 DEF Insert, rows
  <2>2. /\ mine'[c] = nextId
        /\ \A d \in Call \ {c} : mine'[d] = mine[d] /\ pc'[d] = pc[d]
    BY <1>0, <2>1 DEF Goto, CallTypes
  <2>3. /\ nextId \in Nat /\ \A t \in tokens : t.id \in Nat /\ t.family \in Nat
        /\ \A d \in Call : mine[d] \in Nat
    BY <1>0 DEF SharedTypes, CallTypes
  <2>4. nextId \notin Ids /\ Ids' = Ids
    BY <2>1, <2>3 DEF FamilyInv, Numbered, Ids
  <2>5. (\A d \in Call : pc[d] = "commit" => mine[d] < nextId /\ mine[d] \notin Ids)'
    BY <2>1, <2>2, <2>3, <2>4 DEF FamilyInv, Numbered
  <2>6. (\A d, e \in Call :
            d # e /\ pc[d] = "commit" /\ pc[e] = "commit" => mine[d] # mine[e])'
    BY <2>2, <2>3 DEF FamilyInv, Numbered
  <2>7. Numbered'
    BY <2>1, <2>3, <2>5, <2>6 DEF FamilyInv, Numbered
  <2>8. OneLivePerFamily'
    BY <2>1 DEF FamilyInv, OneLivePerFamily, Live
  <2>. QED
    BY <2>7, <2>8 DEF FamilyInv
<1>11. ASSUME NEW c \in Call, Commit(c) PROVE FamilyInv'
  <2> DEFINE old == Row(arg[c])
             t0 == [id |-> mine[c], parent |-> arg[c], family |-> old.family, email |-> old.email]
  <2>1. /\ tokens' = tokens \cup {t0} /\ revoked' = revoked \cup revoking[c]
        /\ nextId' = nextId /\ pc[c] = "commit"
    BY <1>11 DEF Commit
  <2>2. /\ pc'[c] = "done"
        /\ \A d \in Call \ {c} : pc'[d] = pc[d] /\ mine'[d] = mine[d]
    BY <1>11, EndLeavesCommits DEF Commit, Deliver
  <2>3. arg[c] \in Ids /\ arg[c] \notin revoked /\ arg[c] \in revoking[c]
    BY <2>1 DEF SessionInv, ExchangeInv, Exchanging
  <2>4. old \in tokens /\ old.id = arg[c]
    BY <2>3 DEF Ids, Row
  <2>5. t0.id = mine[c] /\ t0.family = old.family
    OBVIOUS
  <2> HIDE DEF t0, old
  <2>6. Ids' = Ids \cup {mine[c]}
    BY <2>1, <2>5 DEF Ids
  <2>7. mine[c] < nextId /\ mine[c] \notin Ids /\ old.family < nextId
    BY <2>1, <2>4 DEF FamilyInv, Numbered
  <2>8. (\A t \in tokens : t.id < nextId /\ t.family < nextId)'
    BY <2>1, <2>5, <2>7 DEF FamilyInv, Numbered
  <2>9. (\A t, u \in tokens : t.id = u.id => t = u)'
    BY <2>1, <2>5, <2>7 DEF FamilyInv, Numbered, Ids
  <2>10. (\A d \in Call : pc[d] = "commit" => mine[d] < nextId /\ mine[d] \notin Ids)'
    BY <2>1, <2>2, <2>6 DEF FamilyInv, Numbered
  <2>11. (\A d, e \in Call :
             d # e /\ pc[d] = "commit" /\ pc[e] = "commit" => mine[d] # mine[e])'
    BY <2>2 DEF FamilyInv, Numbered
  <2>12. ASSUME NEW u \in Live, u.family = old.family PROVE u.id \in revoked'
    <3>1. old \in Live
      BY <2>3, <2>4 DEF Live
    <3>2. u = old
      BY <2>12, <3>1 DEF FamilyInv, OneLivePerFamily
    <3>. QED
      BY <2>1, <2>3, <2>4, <3>2
  <2>13. \A u \in Live' : u = t0 \/ u \in Live
    BY <2>1 DEF Live
  <2>14. \A u \in Live' : u.id \notin revoked'
    BY DEF Live
  <2>15. OneLivePerFamily'
    BY <2>5, <2>12, <2>13, <2>14 DEF FamilyInv, OneLivePerFamily
  <2>. QED
    BY <2>8, <2>9, <2>10, <2>11, <2>15 DEF FamilyInv, Numbered
<1>12. ASSUME NEW i \in Ids, Expire(i) PROVE FamilyInv'
  BY <1>12, NumberedStays DEF Expire, own, rows
<1>13. CASE UNCHANGED vars
  BY <1>13, NumberedStays DEF vars, own, rows
<1>. QED
  BY <1>1, <1>2, <1>3, <1>4, <1>5, <1>6, <1>7, <1>8, <1>9, <1>10, <1>11, <1>12, <1>13
     DEF Next, Step

(* Every family has one live token at most, however many calls exchange its *)
(* tokens, end its sessions or are repeated.                                *)
THEOREM OneLiveToken == Spec => []OneLivePerFamily
<1>1. FamilyInv => OneLivePerFamily
  BY DEF FamilyInv
<1>. QED
  BY <1>1, FamilyInit, FamilyNext, SessionCorrect, PTL DEF Spec

-----------------------------------------------------------------------------
(* What keeps registrations whole: a call has inserted what its place says, *)
(* and an e-mail one of them is inserting is nobody else's.                 *)
Places == {"company", "user", "owner", "firstLogin"}
Stage(c) ==
  CASE pc[c] = "user" -> {"company"}
    [] pc[c] = "owner" -> {"company", "user"}
    [] pc[c] = "firstLogin" -> Draft
    [] OTHER -> {}

Registering ==
  \A c \in Call :
     /\ draft[c] = Stage(c)
     /\ pc[c] \in Places \cup {"register"} => kind[c] = "register"
     /\ pc[c] \notin Places \cup {"register", "idle", "done"} => kind[c] # "register"
     /\ pc[c] # "done" => reply[c] = "none"

Claiming(c) == pc[c] \in {"owner", "firstLogin"}
EmailsApart ==
  \A c \in Call : Claiming(c) =>
     /\ ~Registered(email[c])
     /\ \A d \in Call \ {c} : Claiming(d) => email[d] # email[c]

RegisterInv == Registering /\ EmailsApart /\ RegistrationIsAtomic

LEMMA UserDrafted ==
  ASSUME Registering, NEW c \in Call
  PROVE  "user" \in draft[c] <=> Claiming(c)
  BY DEF Registering, Stage, Claiming, Draft

(* A step of c that changes no row and inserts none.                        *)
LEMMA AsideRegisters ==
  ASSUME CallTypes, RegisterInv, NEW c \in Call, UNCHANGED <<kind, email, members>>,
         UNCHANGED draft \/ draft' = [draft EXCEPT ![c] = {}],
         \A d \in Call \ {c} : pc'[d] = pc[d] /\ reply'[d] = reply[d],
         pc[c] \notin {"idle", "done"},
         \/ pc'[c] = "done" /\ draft'[c] = {} /\ (reply'[c] \in {"ok", "lost"} => kind[c] # "register")
         \/ /\ pc'[c] \notin Places \cup {"register", "idle", "done"} /\ reply'[c] = "none"
            /\ pc[c] \notin Places \cup {"register"}
         \/ pc'[c] = "company" /\ reply'[c] = "none" /\ pc[c] = "register"
  PROVE  RegisterInv'
<1> USE DEF RegisterInv
<1>1. Registering'
  <2>1. \A d \in Call \ {c} : draft'[d] = draft[d] /\ Stage(d)' = Stage(d)
    BY DEF CallTypes, Stage
  <2>2. draft'[c] = {}
    BY DEF CallTypes, Registering, Stage, Places
  <2>3. Stage(c)' = {}
    BY DEF Stage, Places
  <2>. QED
    BY <2>1, <2>2, <2>3 DEF Registering, Places
<1>2. EmailsApart'
  BY DEF EmailsApart, Claiming, Registered, Places
<1>3. RegistrationIsAtomic'
  BY DEF RegistrationIsAtomic, Registering
<1>. QED
  BY <1>1, <1>2, <1>3

LEMMA EndRegisters ==
  ASSUME CallTypes, RegisterInv, NEW c \in Call, NEW how, End(c, how), UNCHANGED members,
         pc[c] \notin {"idle", "done"}, how \in {"ok", "lost"} => kind[c] # "register"
  PROVE  RegisterInv'
<1>1. /\ UNCHANGED <<kind, email, members>> /\ draft' = [draft EXCEPT ![c] = {}]
      /\ \A d \in Call \ {c} : pc'[d] = pc[d] /\ reply'[d] = reply[d]
      /\ pc'[c] = "done" /\ draft'[c] = {} /\ reply'[c] = how
  BY DEF End, Goto, ask, CallTypes
<1>. QED
  BY <1>1, AsideRegisters

LEMMA RollbackRegisters ==
  ASSUME CallTypes, RegisterInv, NEW c \in Call, NEW why, Rollback(c, why),
         pc[c] \notin {"idle", "done"}, why \notin {"ok", "lost"}
  PROVE  RegisterInv'
  BY EndRegisters DEF Rollback, rows

(* A statement of a refresh that does not end it.                           *)
LEMMA StatementRegisters ==
  ASSUME CallTypes, RegisterInv, NEW c \in Call, NEW label, Goto(c, label), UNCHANGED <<ask, reply, draft, members>>,
         \/ /\ pc[c] \notin Places \cup {"register", "idle", "done"}
            /\ label \notin Places \cup {"register", "idle", "done"}
         \/ pc[c] = "register" /\ label = "company"
  PROVE  RegisterInv'
<1>1. /\ \A d \in Call \ {c} : pc'[d] = pc[d] /\ reply'[d] = reply[d]
      /\ pc'[c] = label /\ UNCHANGED <<kind, email, members>>
  BY DEF Goto, CallTypes, ask
<1>2. reply'[c] = "none" /\ pc[c] \notin {"idle", "done"}
  BY DEF RegisterInv, Registering
<1>. QED
  BY <1>1, <1>2, AsideRegisters

LEMMA InsertRegisters ==
  ASSUME CallTypes, RegisterInv, NEW c \in Call, NEW row, NEW next, Inserts(c, row, next),
         \/ pc[c] = "company" /\ row = "company" /\ next = "user"
         \/ /\ pc[c] = "user" /\ row = "user" /\ next = "owner" /\ ~Registered(email[c])
            /\ \A d \in Call \ {c} : Claiming(d) => email[d] # email[c]
         \/ pc[c] = "owner" /\ row = "owner" /\ next = "firstLogin"
  PROVE  RegisterInv'
<1> USE DEF RegisterInv
<1>1. /\ \A d \in Call \ {c} : pc'[d] = pc[d] /\ draft'[d] = draft[d]
      /\ pc'[c] = next /\ draft'[c] = draft[c] \cup {row}
      /\ UNCHANGED <<kind, email, reply, members>>
  BY DEF Inserts, Goto, Stays, ask, rows, CallTypes
<1>2. Registering'
  <2>1. \A d \in Call \ {c} : draft'[d] = Stage(d)'
    BY <1>1 DEF Registering, Stage
  <2>2. draft'[c] = Stage(c)'
    BY <1>1 DEF Registering, Stage, Draft
  <2>. QED
    BY <1>1, <2>1, <2>2 DEF Registering, Places
<1>3. EmailsApart'
  BY <1>1 DEF EmailsApart, Claiming, Registered
<1>4. RegistrationIsAtomic'
  BY <1>1 DEF RegistrationIsAtomic
<1>. QED
  BY <1>2, <1>3, <1>4

(* The COMMIT: the three rows of the registration become visible at once.   *)
LEMMA LoginRegisters ==
  ASSUME CallTypes, RegisterInv, NEW c \in Call, RegisterLogin(c), ~Rollback(c, "forbidden")
  PROVE  RegisterInv'
<1> USE DEF RegisterInv
<1>1. pc[c] = "firstLogin" /\ draft[c] = Draft /\ kind[c] = "register" /\ reply[c] = "none"
  BY DEF RegisterLogin, Registering, Stage, Places
<1>2. \A row \in Draft : Inserting(c, row) = {c}
  BY <1>1 DEF Inserting
<1>3. PICK how \in {"ok", "lost"} : End(c, how)
  BY DEF RegisterLogin, Deliver
<1> DEFINE new == [email |-> email[c], id |-> c]
<1>4. users' = users \cup {new} /\ companies' = companies \cup {c} /\ owners' = owners \cup {c}
  BY <1>2 DEF RegisterLogin, Draft
<1>5. /\ UNCHANGED <<kind, email>> /\ pc'[c] = "done" /\ draft'[c] = {} /\ reply'[c] = how
      /\ \A d \in Call \ {c} : pc'[d] = pc[d] /\ reply'[d] = reply[d] /\ draft'[d] = draft[d]
  BY <1>3 DEF End, Goto, ask, CallTypes
<1>6. new.email = email[c] /\ new.id = c
  OBVIOUS
<1>7. \A d \in Call : [email |-> email[d], id |-> d].id = d
  OBVIOUS
<1>8. Registering'
  <2>1. \A d \in Call \ {c} : draft'[d] = Stage(d)'
    BY <1>5 DEF Registering, Stage
  <2>2. draft'[c] = Stage(c)'
    BY <1>5 DEF Stage
  <2>. QED
    BY <1>5, <2>1, <2>2 DEF Registering, Places
<1>9. ~Registered(email[c]) /\ \A d \in Call \ {c} : Claiming(d) => email[d] # email[c]
  BY <1>1 DEF EmailsApart, Claiming
<1> HIDE DEF new
<1>10. EmailsApart'
  <2>1. \A d \in Call : Claiming(d)' => d # c /\ Claiming(d)
    BY <1>5 DEF Claiming
  <2>2. \A d \in Call \ {c} : ~Registered(email[d]) /\ email[d] # email[c] => ~Registered(email[d])'
    BY <1>4, <1>5, <1>6 DEF Registered
  <2>. QED
    BY <1>5, <1>9, <2>1, <2>2 DEF EmailsApart
<1>11. RegistrationIsAtomic'
  <2>1. \A u, v \in users' : u.email = v.email => u = v
    BY <1>4, <1>6, <1>9 DEF RegistrationIsAtomic, Registered
  <2>2. new \in users' /\ c \in companies' /\ c \in owners' /\ new = [email |-> email'[c], id |-> c]
    BY <1>4, <1>5 DEF new
  <2>3. ASSUME NEW d \in Call \ {c}
        PROVE  LET user == [email |-> email'[d], id |-> d]
                   succeeded == kind'[d] = "register" /\ reply'[d] \in {"ok", "lost"}
               IN  IF succeeded THEN user \in users' /\ d \in companies' /\ d \in owners'
                   ELSE d \notin companies' \cup owners' \cup {u.id : u \in users'}
    BY <1>4, <1>5, <1>6 DEF RegistrationIsAtomic
  <2>. QED
    BY <1>1, <1>5, <2>1, <2>2, <2>3 DEF RegistrationIsAtomic
<1>. QED
  BY <1>8, <1>10, <1>11

LEMMA RegisterInit == Init => RegisterInv
<1> SUFFICES ASSUME Init PROVE RegisterInv
  OBVIOUS
<1>1. Registering /\ EmailsApart
  BY DEF Init, Registering, Stage, EmailsApart, Claiming, Places
<1>2. users = {[email |-> e, id |-> Nobody] : e \in Seeded} /\ companies = {} /\ owners = {}
      /\ \A c \in Call : reply[c] = "none" /\ c # Nobody
  BY DEF Init
<1>3. RegistrationIsAtomic
  BY <1>2 DEF RegistrationIsAtomic
<1>. QED
  BY <1>1, <1>3 DEF RegisterInv

LEMMA RegisterNext == SessionInv /\ RegisterInv /\ [Next]_vars => RegisterInv'
<1> SUFFICES ASSUME SessionInv, RegisterInv, [Next]_vars PROVE RegisterInv'
  OBVIOUS
<1>0. CallTypes
  BY TypeHalves DEF SessionInv
<1>1. ASSUME NEW c \in Call, Begin(c) PROVE RegisterInv'
  <2>1. PICK k \in Kind, e \in Email :
           kind' = [kind EXCEPT ![c] = k] /\ email' = [email EXCEPT ![c] = e] /\ Goto(c, k)
    BY <1>1 DEF Begin
  <2>2. pc[c] = "idle" /\ UNCHANGED <<reply, draft, members>>
    BY <1>1 DEF Begin, own, rows
  <2>3. /\ kind'[c] = k /\ pc'[c] = k
        /\ \A d \in Call \ {c} : kind'[d] = kind[d] /\ pc'[d] = pc[d] /\ email'[d] = email[d]
    BY <1>0, <2>1 DEF Goto, CallTypes
  <2>4. Registering'
    <3>1. \A d \in Call \ {c} : Stage(d)' = Stage(d)
      BY <2>3 DEF Stage
    <3>2. Stage(c)' = {} /\ Stage(c) = {}
      BY <2>2, <2>3 DEF Stage, Kind
    <3>. QED
      BY <2>2, <2>3, <3>1, <3>2 DEF RegisterInv, Registering, Places, Kind
  <2>5. EmailsApart'
    <3>1. \A d \in Call : Claiming(d)' => d # c /\ Claiming(d)
      BY <2>3 DEF Claiming, Kind
    <3>. QED
      BY <2>2, <2>3, <3>1 DEF RegisterInv, EmailsApart, Registered
  <2>6. RegistrationIsAtomic'
    <3>1. reply[c] = "none"
      BY <2>2 DEF RegisterInv, Registering
    <3>. QED
      BY <2>2, <2>3, <3>1 DEF RegisterInv, RegistrationIsAtomic
  <2>. QED
    BY <2>4, <2>5, <2>6 DEF RegisterInv
<1>2. ASSUME NEW c \in Call, Login(c) \/ Logout(c) \/ Commit(c) PROVE RegisterInv'
  <2>1. pc[c] \in {"login", "loginTo", "logout", "commit"}
    BY <1>2 DEF Login, Logout, Commit
  <2>2. kind[c] # "register" /\ pc[c] \notin {"idle", "done"}
    BY <2>1 DEF RegisterInv, Registering, Places
  <2>3. PICK how : End(c, how) /\ UNCHANGED members
    BY <1>2 DEF Login, Logout, Commit, Deliver, Rollback, rows
  <2>. QED
    BY <1>0, <2>2, <2>3, EndRegisters
<1>3. ASSUME NEW c \in Call, RegisterCheck(c) PROVE RegisterInv'
  <2>1. pc[c] = "register"
    BY <1>3 DEF RegisterCheck
  <2>2. CASE Rollback(c, "conflict")
    BY <1>0, <2>1, <2>2, RollbackRegisters
  <2>3. CASE Goto(c, "company") /\ Stays /\ UNCHANGED own
    BY <1>0, <2>1, <2>3, StatementRegisters DEF Stays, own, rows
  <2>. QED
    BY <1>3, <2>2, <2>3 DEF RegisterCheck
<1>4. ASSUME NEW c \in Call, RegisterCompany(c) PROVE RegisterInv'
  BY <1>0, <1>4, InsertRegisters DEF RegisterCompany
<1>5. ASSUME NEW c \in Call, RegisterUser(c) PROVE RegisterInv'
  <2>1. pc[c] = "user"
    BY <1>5 DEF RegisterUser
  <2>2. CASE Rollback(c, "failed")
    BY <1>0, <2>1, <2>2, RollbackRegisters
  <2>3. CASE ~Rollback(c, "failed")
    <3>1. ~Registered(email[c]) /\ Inserts(c, "user", "owner")
      BY <1>5, <2>3 DEF RegisterUser
    <3>2. \A d \in Call \ {c} : Claiming(d) => email[d] # email[c]
      BY <1>5, UserDrafted DEF RegisterUser, RegisterInv
    <3>. QED
      BY <1>0, <2>1, <3>1, <3>2, InsertRegisters
  <2>. QED
    BY <2>2, <2>3
<1>6. ASSUME NEW c \in Call, RegisterOwner(c) PROVE RegisterInv'
  BY <1>0, <1>6, InsertRegisters DEF RegisterOwner
<1>7. ASSUME NEW c \in Call, RegisterLogin(c) PROVE RegisterInv'
  <2>1. pc[c] = "firstLogin"
    BY <1>7 DEF RegisterLogin
  <2>. QED
    BY <1>0, <1>7, <2>1, RollbackRegisters, LoginRegisters
<1>8. ASSUME NEW c \in Call, LookUp(c) PROVE RegisterInv'
  <2>1. pc[c] = "refresh"
    BY <1>8 DEF LookUp
  <2>2. CASE Rollback(c, "invalid") \/ Rollback(c, "expired")
    BY <1>0, <2>1, <2>2, RollbackRegisters
  <2>3. CASE AfterLookUp(c) /\ Stays /\ UNCHANGED draft
    <3>1. PICK label \in {"reuse", "revoke"} : Goto(c, label)
      BY <2>3 DEF AfterLookUp
    <3>. QED
      BY <1>0, <2>1, <2>3, <3>1, StatementRegisters DEF Stays, rows, Places
  <2>. QED
    BY <1>8, <2>2, <2>3 DEF LookUp
<1>9. ASSUME NEW c \in Call, RevokeFamily(c) \/ RevokeOld(c) \/ Rotate(c) \/ Insert(c)
      PROVE  RegisterInv'
  <2>1. pc[c] \in {"reuse", "revoke", "rotate", "insert"} /\ UNCHANGED <<ask, reply, draft, members>>
    BY <1>9 DEF RevokeFamily, RevokeOld, Rotate, Insert, Revoke, Stays, rows
  <2>2. PICK label \in {"throw", "rotate", "insert", "commit"} : Goto(c, label)
    BY <1>9 DEF RevokeFamily, RevokeOld, Rotate, Insert
  <2>. QED
    BY <1>0, <2>1, <2>2, StatementRegisters DEF Places
<1>10. ASSUME NEW c \in Call, ThrowReuse(c) \/ Fail(c) PROVE RegisterInv'
  BY <1>0, <1>10, RollbackRegisters DEF ThrowReuse, Fail
<1>11. ASSUME UNCHANGED <<pc, ask, reply, own, rows>> PROVE RegisterInv'
  <2>1. UNCHANGED <<pc, kind, email, reply, draft, members>>
    BY <1>11 DEF ask, own, rows
  <2>2. Registering'
    BY <2>1 DEF RegisterInv, Registering, Stage
  <2>3. EmailsApart' /\ RegistrationIsAtomic'
    BY <2>1 DEF RegisterInv, EmailsApart, Claiming, Registered, RegistrationIsAtomic
  <2>. QED
    BY <2>2, <2>3 DEF RegisterInv
<1>12. ASSUME NEW i \in Ids, Expire(i) PROVE RegisterInv'
  BY <1>11, <1>12 DEF Expire
<1>13. CASE UNCHANGED vars
  BY <1>11, <1>13 DEF vars
<1>. QED
  BY <1>1, <1>2, <1>3, <1>4, <1>5, <1>6, <1>7, <1>8, <1>9, <1>10, <1>12, <1>13 DEF Next, Step

(* Of the registrations that race for an e-mail at most one succeeds, and   *)
(* what a registration wrote is there whole if it succeeded and not at all  *)
(* if it did not, wherever it stopped.                                      *)
THEOREM AtomicRegistration == Spec => []RegistrationIsAtomic
<1>1. RegisterInv => RegistrationIsAtomic
  BY DEF RegisterInv
<1>. QED
  BY <1>1, RegisterInit, RegisterNext, SessionCorrect, PTL DEF Spec
=============================================================================
