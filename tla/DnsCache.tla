------------------------------ MODULE DnsCache ------------------------------
(***************************************************************************)
(* The answer cache of zebrafish-dns, package/zebrafish-dns/src/cache.rs:  *)
(* an LRU map from the question asked (name, type, class) to the upstream's *)
(* response, whose entries expire.  get and put each run under the cache's *)
(* mutex, so each is one action; the clock moves between them.             *)
(*                                                                         *)
(* A response is abstracted to what the cache looks at: whether it parses, *)
(* the TTLs of its answer and of its non-OPT additional records, whether   *)
(* re-encoding it keeps its length, and the rest of its bytes as `data'.   *)
(***************************************************************************)
EXTENDS Integers, FiniteSets

CONSTANTS
  Keys,         \* cache keys: lower-cased name | type | class
  Data,         \* the rest of a response, opaque to the cache
  Ttls,         \* TTLs (seconds) that records carry
  Responses,    \* the responses the upstream may send
  max_entries,  \* configured capacity; 0 is raised to 1
  min_ttl,      \* configured TTL bounds (seconds), not validated
  max_ttl,
  Sec,          \* clock ticks in a second: Instant is finer than a second
  MaxTime       \* bound: the clock stops here

Response == [parses : BOOLEAN, fits : BOOLEAN, data : Data,
             answers : SUBSET Ttls, additionals : SUBSET Ttls]

ASSUME CacheAssumption ==
  /\ Responses \subseteq Response
  /\ Ttls \subseteq Nat
  /\ max_entries \in Nat /\ min_ttl \in Nat /\ max_ttl \in Nat
  /\ Sec \in Nat \ {0} /\ MaxTime \in Nat

VARIABLES
  cache,  \* the map: a function on the keys present
  older,  \* the LRU list as an order: <<j, k>> when j was used before k
  now     \* the monotonic clock, in ticks

cacheVars == <<cache, older, now>>

CacheEntry == [response : Response, inserted_at : Nat, ttl : Nat]

Cap == IF max_entries > 1 THEN max_entries ELSE 1

Present == DOMAIN cache

\* Every entry has its fields, and the order relates keys that are present.
CacheTypeOK ==
  /\ cache \in [Present -> CacheEntry] /\ Present \subseteq Keys
  /\ older \subseteq Present \X Present
  /\ now \in Nat
-----------------------------------------------------------------------------
(* How long a response is kept *)

MinOf(S) == CHOOSE m \in S : \A t \in S : m <= t

ClampTtl(t) == IF t < min_ttl THEN min_ttl ELSE IF t > max_ttl THEN max_ttl ELSE t

\* Broken variant: additional records are not looked at.
ExtractAnswersOnly(r) ==
  LET m == MinOf({max_ttl} \cup r.answers)
  IN  IF ~r.parses \/ (m = max_ttl /\ r.answers # {}) THEN min_ttl ELSE m

\* The smallest TTL, at most max_ttl; min_ttl when that left max_ttl although
\* there are answers, and when the response does not parse.
extract_min_ttl(r) ==
  LET m == MinOf({max_ttl} \cup r.answers \cup r.additionals)
  IN  IF ~r.parses \/ (m = max_ttl /\ r.answers # {}) THEN min_ttl ELSE m

\* u32::clamp panics on min > max, before the lock is taken: nothing is stored.
PutPanics == min_ttl > max_ttl

NewEntry(r, at) ==
  [response |-> r, inserted_at |-> at, ttl |-> ClampTtl(extract_min_ttl(r))]
-----------------------------------------------------------------------------
(* The LRU map (lru::LruCache) *)

Without(k) == {p \in older : p[1] # k /\ p[2] # k}

Promoted(k) == Without(k) \cup ((Present \ {k}) \X {k})

\* Broken variant: the popped key stays in the recency list.
PopKeepsOrder(k) ==
  /\ cache' = [j \in Present \ {k} |-> cache[j]]
  /\ UNCHANGED older

pop(k) ==
  /\ cache' = [j \in Present \ {k} |-> cache[j]]
  /\ older' = Without(k)

\* Broken variant: nothing is evicted.
PutUnbounded(k, e) ==
  /\ cache' = [j \in Present \cup {k} |-> IF j = k THEN e ELSE cache[j]]
  /\ older' = Promoted(k)

lru_put(k, e) ==
  \/ /\ k \in Present \/ Cardinality(Present) < Cap
     /\ cache' = [j \in Present \cup {k} |-> IF j = k THEN e ELSE cache[j]]
     /\ older' = Promoted(k)
  \/ /\ k \notin Present /\ Cardinality(Present) >= Cap
     /\ \E victim \in Present :
          /\ \A j \in Present \ {victim} : <<victim, j>> \in older
          /\ cache' = [j \in (Present \ {victim}) \cup {k} |->
                         IF j = k THEN e ELSE cache[j]]
          /\ older' = Without(victim) \cup ((Present \ {victim}) \X {k})
-----------------------------------------------------------------------------
(* get and put *)

Elapsed(k) == now - cache[k].inserted_at

\* Broken variant: an entry is still served at the end of its TTL.
ExpiredLate(k) == Elapsed(k) > Sec * cache[k].ttl

Expired(k) == Elapsed(k) >= Sec * cache[k].ttl

Hit(k) == k \in Present /\ ~Expired(k)

\* Broken variant: the remaining time is rounded up.
RemainingRoundedUp(k) == (Sec * cache[k].ttl - Elapsed(k) + Sec - 1) \div Sec

Remaining(k) == (Sec * cache[k].ttl - Elapsed(k)) \div Sec

\* Only answer records are rewritten, and only when the result has the length
\* of the original.
adjust_ttls(r, remaining) ==
  IF r.parses /\ r.fits /\ r.answers # {}
  THEN [r EXCEPT !.answers = {remaining}]
  ELSE r

\* What a hit on k returns.
Cached(k) == adjust_ttls(cache[k].response, Remaining(k))

\* Broken variant: a hit peeks and does not count as a use.
PeekHit(k) ==
  /\ Hit(k)
  /\ UNCHANGED <<cache, older, now>>

GetHit(k) ==
  /\ Hit(k)
  /\ older' = Promoted(k)
  /\ UNCHANGED <<cache, now>>

GetMiss(k) ==
  /\ ~Hit(k)
  /\ \/ k \in Present /\ pop(k)
     \/ k \notin Present /\ UNCHANGED <<cache, older>>
  /\ UNCHANGED now

\* `at' is the Instant read before the lock was taken; other tasks may have run
\* in between.
put(k, r, at) ==
  /\ ~PutPanics
  /\ lru_put(k, NewEntry(r, at))
  /\ UNCHANGED now

Tick ==
  /\ now < MaxTime
  /\ now' = now + 1
  /\ UNCHANGED <<cache, older>>

CacheInit ==
  /\ cache = [k \in {} |-> k]
  /\ older = {}
  /\ now = 0

CacheNext ==
  \/ \E k \in Keys : GetHit(k) \/ GetMiss(k)
  \/ \E k \in Keys, r \in Responses, at \in 0..now : put(k, r, at)
  \/ Tick

CacheSpec == CacheInit /\ [][CacheNext]_cacheVars
-----------------------------------------------------------------------------
(* Properties *)

\* The cache never holds more entries than its capacity.
CapacityBound == IsFiniteSet(Present) /\ Cardinality(Present) <= Cap

\* A hit is younger than max_ttl, whatever TTLs the upstream sent (cache.rs put
\* clamps, get compares the age of the entry).
LifetimeBound == \A k \in Keys : Hit(k) => Elapsed(k) < Sec * max_ttl

\* Records are not kept past the shortest TTL the upstream gave them, except up
\* to min_ttl (cache.rs extract_min_ttl, put, get).
UpstreamTtlRespected ==
  \A k \in Keys :
    LET r == cache[k].response
        t == MinOf(r.answers \cup r.additionals)
    IN  Hit(k) /\ r.parses /\ r.answers # {} =>
          Elapsed(k) < Sec * (IF t > min_ttl THEN t ELSE min_ttl)

\* The TTL a hit hands to the client ends no later than the entry does: a client
\* that honours it asks again by the time the cache drops the entry (cache.rs
\* get, adjust_ttls; not promised for a response that cannot be re-encoded).
RemainingHonest ==
  \A k \in Keys :
    Hit(k) /\ cache[k].response.parses /\ cache[k].response.fits =>
      \A t \in Cached(k).answers : Elapsed(k) + Sec * t <= Sec * cache[k].ttl
=============================================================================
