--------------------------- MODULE AnalyticsCache ---------------------------
(***************************************************************************)
(* The report cache (src/src/analytics/analytics-cache.ts) over the         *)
(* InMemoryRedis it is built with.  Nothing in the repository calls it yet; *)
(* the calls are those of its closing example: reports are asked for, and   *)
(* events are emitted after a commit.  Time is in seconds.  A Map keeps the *)
(* order in which keys came in: an entry's place is the id of the first     *)
(* envelope that was stored under its key since the key was last deleted.   *)
(***************************************************************************)
EXTENDS Integers, Sequences, FiniteSetsExt

CONSTANTS
    CacheCall,      \* requests for a report and emitted events
    CacheSettings,  \* entries at the start, and what each call does
    ScanCount,      \* keys a SCAN returns at a time, 100 in the code
    TimeSteps, LastSecond   \* how the clock goes on, and up to when

DEFAULT_CACHE_CONFIG ==
    [cash_flow |-> [ttl |-> 900, threshold |-> 85],
     ratios |-> [ttl |-> 300, threshold |-> 80],
     inventory_aging |-> [ttl |-> 1800, threshold |-> 90],
     inventory_aging_summary |-> [ttl |-> 1800, threshold |-> 90],
     executive_dashboard |-> [ttl |-> 120, threshold |-> 70]]

Reports == DOMAIN DEFAULT_CACHE_CONFIG

INVALIDATION_MAP ==
    [JOURNAL_POSTED |-> <<"cash_flow", "ratios", "executive_dashboard">>,
     JOURNAL_VOIDED |-> <<"cash_flow", "ratios", "executive_dashboard">>,
     STOCK_MOVEMENT |-> <<"inventory_aging", "inventory_aging_summary", "ratios", "executive_dashboard">>,
     BANK_RECONCILIATION |-> <<"cash_flow", "executive_dashboard">>,
     PERIOD_CLOSED |-> <<"cash_flow", "ratios", "inventory_aging", "inventory_aging_summary",
                         "executive_dashboard">>]

ASSUME CacheAssumption ==
    /\ ScanCount \in Nat \ {0} /\ LastSecond \in Nat /\ TimeSteps \subseteq Nat \ {0}
    /\ \A s \in CacheSettings :
          /\ s.stored \in Seq({s.stored[i] : i \in DOMAIN s.stored})
          /\ \A i, j \in DOMAIN s.stored : s.stored[i] = s.stored[j] => i = j
          /\ \A i \in DOMAIN s.stored : s.stored[i].report \in Reports
          /\ \A c \in DOMAIN s.calls :
                LET call == s.calls[c] IN
                \/ call.kind = "report" /\ call.key.report \in Reports
                \/ call.kind = "event" /\ call.event \in DOMAIN INVALIDATION_MAP
                \/ call.kind = "tenant"

VARIABLES
    cacheAsked,     \* the calls of this behaviour
    cacheStep,      \* cacheStep[c]: where call c is
    cacheStore,     \* the entries of InMemoryRedis.store, each with its place in it
    cacheScan,      \* cacheScan[c]: what the invalidation of event c is at
    cacheAge,       \* cacheAge[c]: how long ago the report c got was stored
    cacheTime,      \* Date.now()
    cacheWrites     \* number of envelopes stored: the next one's id

cacheVars == <<cacheAsked, cacheStep, cacheStore, cacheScan, cacheAge, cacheTime, cacheWrites>>

(* cacheKey: a tenant, a report and its parameters.                         *)
Envelope(key, id, place) ==
    [key |-> key, at |-> cacheTime, expires |-> cacheTime + DEFAULT_CACHE_CONFIG[key.report].ttl,
     id |-> id, place |-> place]

NoScan == [type |-> 1, cursor |-> 0, found |-> {}, doomed |-> {}, disturbed |-> FALSE]
CacheInit ==
    /\ cacheAsked \in CacheSettings
    /\ cacheStep = [c \in CacheCall |-> "start"]
    /\ cacheScan = [c \in CacheCall |-> NoScan] /\ cacheAge = [c \in CacheCall |-> 0]
    /\ cacheTime = 0 /\ cacheWrites = Len(cacheAsked.stored)
    /\ cacheStore = {Envelope(cacheAsked.stored[i], i, i) : i \in DOMAIN cacheAsked.stored}

Cached(c) == cacheAsked.calls[c]
CacheIs(c, kind, at) == c \in DOMAIN cacheAsked.calls /\ Cached(c).kind = kind /\ cacheStep[c] = at
CacheTo(c, where) == cacheStep' = [cacheStep EXCEPT ![c] = where] /\ UNCHANGED cacheAsked

-----------------------------------------------------------------------------

Expired(e) == cacheTime > e.expires
NearExpiry(e) ==
    LET config == DEFAULT_CACHE_CONFIG[e.key.report]
    IN  100 * (e.expires - cacheTime) < config.ttl * (100 - config.threshold)

KeysOf(entries) == {e.key : e \in entries}
Drop(keys) == {e \in cacheStore : e.key \notin keys}
Under(key) == {e \in cacheStore : e.key = key}
Setex(key, id) ==
    \/ Under(key) = {} /\ cacheStore' = cacheStore \cup {Envelope(key, id, id)}
    \/ \E e \in Under(key) : cacheStore' = (cacheStore \ {e}) \cup {Envelope(key, id, e.place)}

(* invalidateTenantReport goes through one pattern after another.           *)
Types(c) == IF Cached(c).kind = "event" THEN INVALIDATION_MAP[Cached(c).event] ELSE <<"*">>
OfPattern(c, key) ==
    /\ key.tenant = Cached(c).tenant
    /\ Types(c)[cacheScan[c].type] \in {key.report, "*"}

(* History: a scan that is between two pages when a key of its is deleted.  *)
Scanning(c) == cacheStep[c] = "scan" /\ cacheScan[c].cursor > 0
Disturb(scans, keys) == [c \in CacheCall |->
    IF Scanning(c) /\ \E k \in keys : OfPattern(c, k) THEN [scans[c] EXCEPT !.disturbed = TRUE]
    ELSE scans[c]]

(* getOrCompute.  redis.get deletes an expired entry it meets.              *)
Kept(c) == Under(Cached(c).key)
CacheHit(c) ==
    /\ CacheIs(c, "report", "start")
    /\ \E e \in Kept(c) :
        /\ ~Expired(e) /\ cacheAge' = [cacheAge EXCEPT ![c] = cacheTime - e.at]
        /\ CacheTo(c, IF NearExpiry(e) THEN "refresh" ELSE "done")
    /\ UNCHANGED <<cacheStore, cacheScan, cacheTime, cacheWrites>>
CacheMiss(c) ==
    /\ CacheIs(c, "report", "start") /\ \A e \in Kept(c) : Expired(e)
    /\ cacheStore' = Drop(KeysOf(Kept(c))) /\ cacheScan' = Disturb(cacheScan, KeysOf(Kept(c)))
    /\ CacheTo(c, "compute") /\ UNCHANGED <<cacheAge, cacheTime, cacheWrites>>

(* setEnvelope, after a miss or in the background.                          *)
StoreComputed(c) ==
    /\ CacheIs(c, "report", "compute") \/ CacheIs(c, "report", "refresh")
    /\ cacheWrites' = cacheWrites + 1 /\ Setex(Cached(c).key, cacheWrites + 1)
    /\ CacheTo(c, "done") /\ UNCHANGED <<cacheScan, cacheAge, cacheTime>>
ComputeFails(c) ==
    /\ CacheIs(c, "report", "compute") \/ CacheIs(c, "report", "refresh")
    /\ CacheTo(c, "done") /\ UNCHANGED <<cacheStore, cacheScan, cacheAge, cacheTime, cacheWrites>>

-----------------------------------------------------------------------------
Matched(c) == {e \in cacheStore : OfPattern(c, e.key)}
Ahead(c, e) == Cardinality({d \in Matched(c) : d.place < e.place})

(* Mutant: the next page is taken to start one further.                     *)
OneFurther(c) == LET end == cacheScan[c].cursor + ScanCount IN
    IF end >= Cardinality(Matched(c)) THEN 0 ELSE end + 1

NextCursor(c) == LET end == cacheScan[c].cursor + ScanCount IN
    IF end >= Cardinality(Matched(c)) THEN 0 ELSE end
Page(c) == LET from == cacheScan[c].cursor IN
    {e \in Matched(c) : from <= Ahead(c, e) /\ Ahead(c, e) < from + ScanCount}

StartsPattern(c) == cacheStep[c] = "start" \/ cacheStep[c] = "next"
Doomed(c) ==
    cacheScan[c].doomed \cup (IF StartsPattern(c) THEN {e.id : e \in Matched(c)} ELSE {})
ScanPage(c) ==
    /\ c \in DOMAIN cacheAsked.calls /\ Cached(c).kind \in {"event", "tenant"}
    /\ cacheStep[c] \in {"start", "next", "scan"}
    /\ LET scan == cacheScan[c] found == scan.found \cup KeysOf(Page(c)) IN
       cacheScan' = [cacheScan EXCEPT ![c] =
           [scan EXCEPT !.cursor = NextCursor(c), !.found = found, !.doomed = Doomed(c)]]
    /\ CacheTo(c, IF NextCursor(c) = 0 THEN "delete" ELSE "scan")
    /\ UNCHANGED <<cacheStore, cacheAge, cacheTime, cacheWrites>>

deleteByPattern(c) ==
    /\ c \in DOMAIN cacheAsked.calls /\ cacheStep[c] = "delete"
    /\ LET scan == cacheScan[c]
           last == scan.type = Len(Types(c))
           type == IF last THEN scan.type ELSE scan.type + 1
       IN
       /\ cacheStore' = Drop(scan.found)
       /\ cacheScan' = [Disturb(cacheScan, KeysOf(cacheStore) \cap scan.found)
              EXCEPT ![c] = [scan EXCEPT !.found = {}, !.type = type]]
       /\ CacheTo(c, IF last THEN "done" ELSE "next")
    /\ UNCHANGED <<cacheAge, cacheTime, cacheWrites>>

(* The timer of InMemoryRedis, whenever it fires.                           *)
Cleanup ==
    LET gone == KeysOf({e \in cacheStore : Expired(e)}) IN
    /\ gone # {} /\ cacheStore' = Drop(gone) /\ cacheScan' = Disturb(cacheScan, gone)
    /\ UNCHANGED <<cacheAsked, cacheStep, cacheAge, cacheTime, cacheWrites>>
CacheTick ==
    /\ \E d \in TimeSteps : cacheTime + d <= LastSecond /\ cacheTime' = cacheTime + d
    /\ UNCHANGED <<cacheAsked, cacheStep, cacheStore, cacheScan, cacheAge, cacheWrites>>

CacheNext ==
    \/ \E c \in CacheCall : \/ CacheHit(c) \/ CacheMiss(c) \/ StoreComputed(c) \/ ComputeFails(c)
                            \/ ScanPage(c) \/ deleteByPattern(c)
    \/ Cleanup \/ CacheTick
CacheSpec == CacheInit /\ [][CacheNext]_cacheVars

-----------------------------------------------------------------------------
(* When an invalidation is done, nothing that was stored under its patterns *)
(* before it scanned them is served any more, unless a key was deleted      *)
(* between two of its pages; what was stored since, from a computation that *)
(* may be older than the event, stays.                                      *)
InvalidatedIsGone == \A c \in CacheCall :
    cacheStep[c] = "done" /\ ~cacheScan[c].disturbed =>
        \A e \in cacheStore : e.id \notin cacheScan[c].doomed

(* "TTL-based expiry as safety net for missed events": no report is served  *)
(* from the cache later than its TTL after it was stored, however often it  *)
(* is refreshed, scanned for or overwritten.                                *)
ServedWithinTtl == \A c \in CacheCall :
    cacheAge[c] > 0 => cacheAge[c] <= DEFAULT_CACHE_CONFIG[Cached(c).key.report].ttl

(* The cache forgets what was invalidated and what is older than its time.  *)
CacheForgets ==
    /\ InvalidatedIsGone
    /\ ServedWithinTtl
=============================================================================
