----------------------------- MODULE DnsProofs -----------------------------
(***************************************************************************)
(* Proofs about zebrafish-dns.  First the cache, for every set of keys,     *)
(* responses, capacity, TTL bounds and clock resolution.  Then the server,  *)
(* which drives its cache only through get and put, so that what is shown   *)
(* of the cache holds in it; its replies are to the query they are sent to; *)
(* and it is the service of DnsService, for any number of queries,          *)
(* connections and names.                                                   *)
(***************************************************************************)
EXTENDS DnsResolver, DnsCacheUse, FiniteSetTheorems, WellFoundedInduction, TLAPS

(* The cache *)

\* A non-empty set of naturals has a smallest element, which MinOf returns.
LEMMA MinOfIsMin ==
  ASSUME NEW S \in SUBSET Nat, S # {}
  PROVE  MinOf(S) \in S /\ \A t \in S : MinOf(S) <= t
<1> DEFINE R == OpToRel(<, Nat)
<1>1. IsWellFoundedOn(R, Nat)
  BY NatLessThanWellFounded
<1>2. ASSUME NEW a \in Nat, NEW b \in Nat, a < b
      PROVE  <<a, b>> \in R
  BY <1>2 DEF OpToRel
<1> HIDE DEF R
<1>3. PICK x \in S : \A y \in S : <<y, x>> \notin R
  BY <1>1, WFMin
<1>4. ASSUME NEW y \in S
      PROVE  x <= y
  <2>1. x \in Nat /\ y \in Nat
    OBVIOUS
  <2>2. ~ (y < x)
    BY <1>2, <1>3, <2>1
  <2> QED BY <2>1, <2>2
<1> QED BY <1>4 DEF MinOf

\* The TTL of an entry: between the bounds, and for a response with answers no
\* longer than the larger of min_ttl and its shortest TTL.
LEMMA EntryTtl ==
  ASSUME NEW r \in Response, ~PutPanics
  PROVE  LET ttl == ClampTtl(extract_min_ttl(r))
             t   == MinOf(r.answers \cup r.additionals)
         IN  /\ ttl \in Nat /\ min_ttl <= ttl /\ ttl <= max_ttl
             /\ r.parses /\ r.answers # {} => ttl <= min_ttl \/ ttl <= t
<1> DEFINE T == r.answers \cup r.additionals
           m == MinOf({max_ttl} \cup T)
<1>1. T \subseteq Nat /\ min_ttl \in Nat /\ max_ttl \in Nat /\ min_ttl <= max_ttl
  <2>1. r.answers \in SUBSET Ttls /\ r.additionals \in SUBSET Ttls
    BY DEF Response
  <2>2. Ttls \subseteq Nat /\ min_ttl \in Nat /\ max_ttl \in Nat
    BY CacheAssumption
  <2>3. T \subseteq Nat
    BY <2>1, <2>2
  <2> QED BY <2>2, <2>3 DEF PutPanics
<1>2. m \in Nat /\ \A t \in T : m <= t
  <2>1. {max_ttl} \cup T \in SUBSET Nat /\ {max_ttl} \cup T # {}
    BY <1>1
  <2> QED BY <2>1, MinOfIsMin
<1>3. r.answers # {} => MinOf(T) \in T
  <2>1. T \in SUBSET Nat
    BY <1>1
  <2> QED BY <2>1, MinOfIsMin
<1>4. extract_min_ttl(r) \in {min_ttl, m}
  BY DEF extract_min_ttl
<1>5. r.answers # {} => m <= MinOf(T)
  BY <1>2, <1>3
<1> HIDE DEF m, T
<1>6. r.answers # {} => MinOf(T) \in Nat
  BY <1>1, <1>3
<1> QED BY <1>1, <1>2, <1>4, <1>5, <1>6 DEF ClampTtl, T
-----------------------------------------------------------------------------
\* What makes the properties inductive: an entry was stored by a put that did
\* not panic, at an instant already past, with the TTL computed from its response.
EntriesSound ==
  \A k \in Present :
    /\ ~PutPanics
    /\ cache[k].inserted_at <= now
    /\ cache[k].ttl = ClampTtl(extract_min_ttl(cache[k].response))

CacheInv == CacheTypeOK /\ CapacityBound /\ EntriesSound

\* There is room for an entry.
LEMMA CapPositive == Cap \in Nat \ {0}
BY CacheAssumption DEF Cap

\* The empty cache.
LEMMA InitInv == CacheInit => CacheInv
<1> SUFFICES ASSUME CacheInit PROVE CacheInv
  OBVIOUS
<1>1. Present = {}
  BY DEF CacheInit, Present
<1>2. CacheTypeOK
  BY <1>1 DEF CacheInit, CacheTypeOK, Present
<1>3. CapacityBound
  BY <1>1, CapPositive, FS_EmptySet DEF CapacityBound
<1> QED BY <1>1, <1>2, <1>3 DEF CacheInv, EntriesSound

\* A hit moves its key to the front of the order.
LEMMA HitPreservesInv ==
  ASSUME CacheInv, NEW k \in Keys, GetHit(k)
  PROVE  CacheInv'
<1> USE DEF GetHit
<1>1. Present' = Present /\ k \in Present
  BY DEF Present, Hit
<1>2. CacheTypeOK'
  BY <1>1 DEF CacheInv, CacheTypeOK, Promoted, Without
<1>3. CapacityBound'
  BY <1>1 DEF CacheInv, CapacityBound
<1>4. EntriesSound'
  BY <1>1 DEF CacheInv, EntriesSound, PutPanics
<1> QED BY <1>2, <1>3, <1>4 DEF CacheInv

\* A miss pops an entry that has expired.
LEMMA MissPreservesInv ==
  ASSUME CacheInv, NEW k \in Keys, GetMiss(k)
  PROVE  CacheInv'
<1>1. CASE k \in Present /\ pop(k)
  <2>1. /\ Present' = Present \ {k} /\ now' = now
        /\ \A j \in Present' : cache'[j] = cache[j]
    BY <1>1 DEF pop, Present, GetMiss
  <2>2. CacheTypeOK'
    BY <1>1, <2>1 DEF CacheInv, CacheTypeOK, pop, Without
  <2>3. CapacityBound'
    <3>1. IsFiniteSet(Present) /\ Cardinality(Present) <= Cap
      BY DEF CacheInv, CapacityBound
    <3>2. IsFiniteSet(Present') /\ Cardinality(Present') <= Cardinality(Present)
      BY <2>1, <3>1, FS_Subset
    <3>3. Cardinality(Present) \in Nat /\ Cardinality(Present') \in Nat
      BY <3>1, <3>2, FS_CardinalityType
    <3> QED BY <3>1, <3>2, <3>3, CapPositive DEF CapacityBound, Cap
  <2>4. EntriesSound'
    BY <2>1 DEF CacheInv, EntriesSound, PutPanics
  <2> QED BY <2>2, <2>3, <2>4 DEF CacheInv
<1>2. CASE UNCHANGED <<cache, older>>
  BY <1>2 DEF GetMiss, CacheInv, CacheTypeOK, CapacityBound, EntriesSound, Present, PutPanics
<1> QED BY <1>1, <1>2 DEF GetMiss

\* A put makes room, then stores an entry with a TTL within the bounds.
LEMMA PutPreservesInv ==
  ASSUME CacheInv, NEW k \in Keys, NEW r \in Responses, NEW at \in 0..now,
         put(k, r, at)
  PROVE  CacheInv'
<1> DEFINE e == NewEntry(r, at)
<1>1. r \in Response /\ now \in Nat /\ at \in Nat /\ at <= now /\ now' = now /\ ~PutPanics
  BY CacheAssumption DEF CacheInv, CacheTypeOK, put
<1>2. e \in CacheEntry
  <2>1. ClampTtl(extract_min_ttl(r)) \in Nat
    BY <1>1, EntryTtl
  <2> QED BY <1>1, <2>1 DEF NewEntry, CacheEntry
<1>3. e.inserted_at <= now /\ e.ttl = ClampTtl(extract_min_ttl(e.response))
  BY <1>1 DEF NewEntry
<1>4. lru_put(k, e)
  BY DEF put
<1>5. IsFiniteSet(Present) /\ Cardinality(Present) \in Nat /\ Cardinality(Present) <= Cap
  BY FS_CardinalityType DEF CacheInv, CapacityBound
<1> HIDE DEF e
\* In both cases the keys kept are some K without k, and fewer than Cap.
<1>6. \E K \in SUBSET (Present \ {k}) :
        /\ Cardinality(K) < Cap
        /\ cache' = [j \in K \cup {k} |-> IF j = k THEN e ELSE cache[j]]
        /\ older' \subseteq (K \cup {k}) \X (K \cup {k})
  <2>1. CASE k \in Present \/ Cardinality(Present) < Cap
    <3>1. Cardinality(Present \ {k}) < Cap
      <4>1. CASE k \in Present
        <5>1. Cardinality(Present \ {k}) = Cardinality(Present) - 1
          BY <1>5, <4>1, FS_RemoveElement
        <5> QED BY <5>1, <1>5, CapPositive
      <4>2. CASE k \notin Present
        <5>1. Present \ {k} = Present
          BY <4>2
        <5> QED BY <2>1, <4>2, <5>1
      <4> QED BY <4>1, <4>2
    <3>2. /\ cache' = [j \in Present \cup {k} |-> IF j = k THEN e ELSE cache[j]]
          /\ older' = Promoted(k)
      BY <1>4, <1>5, <2>1, CapPositive DEF lru_put
    <3>3. Present \cup {k} = (Present \ {k}) \cup {k}
      OBVIOUS
    <3>4. older' \subseteq (Present \cup {k}) \X (Present \cup {k})
      BY <3>2 DEF Promoted, Without, CacheInv, CacheTypeOK
    <3> QED BY <3>1, <3>2, <3>3, <3>4
  <2>2. CASE ~ (k \in Present \/ Cardinality(Present) < Cap)
    <3>1. PICK victim \in Present :
            /\ cache' = [j \in (Present \ {victim}) \cup {k} |->
                           IF j = k THEN e ELSE cache[j]]
            /\ older' = Without(victim) \cup ((Present \ {victim}) \X {k})
      BY <1>4, <2>2 DEF lru_put
    <3>2. Cardinality(Present \ {victim}) < Cap
      <4>1. Cardinality(Present \ {victim}) = Cardinality(Present) - 1
        BY <1>5, FS_RemoveElement
      <4> QED BY <4>1, <1>5, CapPositive
    <3>3. older' \subseteq ((Present \ {victim}) \cup {k}) \X ((Present \ {victim}) \cup {k})
      BY <3>1 DEF Without, CacheInv, CacheTypeOK
    <3>4. Present \ {victim} \in SUBSET (Present \ {k})
      BY <2>2
    <3> QED BY <3>1, <3>2, <3>3, <3>4
  <2> QED BY <2>1, <2>2
<1>7. PICK K \in SUBSET (Present \ {k}) :
        /\ Cardinality(K) < Cap
        /\ cache' = [j \in K \cup {k} |-> IF j = k THEN e ELSE cache[j]]
        /\ older' \subseteq (K \cup {k}) \X (K \cup {k})
  BY <1>6
<1>8. Present' = K \cup {k}
  BY <1>7 DEF Present
<1>9. CacheTypeOK'
  BY <1>1, <1>2, <1>7, <1>8 DEF CacheInv, CacheTypeOK
<1>10. CapacityBound'
  <2>1. IsFiniteSet(K) /\ Cardinality(K) \in Nat
    BY <1>5, <1>7, FS_Subset, FS_CardinalityType
  <2>2. IsFiniteSet(Present') /\ Cardinality(Present') = Cardinality(K) + 1
    BY <1>7, <1>8, <2>1, FS_AddElement
  <2> QED BY <1>7, <2>1, <2>2, CapPositive DEF CapacityBound, Cap
<1>11. EntriesSound'
  BY <1>1, <1>3, <1>7, <1>8 DEF CacheInv, EntriesSound, PutPanics
<1> QED BY <1>9, <1>10, <1>11 DEF CacheInv

\* Entries grow older.
LEMMA TickPreservesInv ==
  ASSUME CacheInv, Tick
  PROVE  CacheInv'
<1>1. now \in Nat /\ now' = now + 1 /\ Present' = Present /\ UNCHANGED <<cache, older>>
  BY DEF Tick, CacheInv, CacheTypeOK, Present
<1>2. \A k \in Present : cache[k].inserted_at \in Nat
  BY DEF CacheInv, CacheTypeOK, CacheEntry
<1>3. CacheTypeOK' /\ CapacityBound'
  BY <1>1 DEF CacheInv, CacheTypeOK, CapacityBound
<1>4. EntriesSound'
  BY <1>1, <1>2 DEF CacheInv, EntriesSound, PutPanics
<1> QED BY <1>3, <1>4 DEF CacheInv

\* The invariant behind the results below holds in every reachable state.
THEOREM CacheInvariant == CacheSpec => []CacheInv
<1>1. CacheInit => CacheInv
  BY InitInv
<1>2. CacheInv /\ [CacheNext]_cacheVars => CacheInv'
  <2>1. CacheInv /\ CacheNext => CacheInv'
    BY HitPreservesInv, MissPreservesInv, PutPreservesInv, TickPreservesInv DEF CacheNext
  <2>2. CacheInv /\ UNCHANGED cacheVars => CacheInv'
    BY DEF cacheVars, CacheInv, CacheTypeOK, CapacityBound, EntriesSound, Present, PutPanics
  <2> QED BY <2>1, <2>2
<1> QED BY <1>1, <1>2, PTL DEF CacheSpec

\* Every entry is well formed and the LRU order relates present keys only.
THEOREM TypeCorrect == CacheSpec => []CacheTypeOK
<1>1. CacheInv => CacheTypeOK
  BY DEF CacheInv
<1> QED BY <1>1, CacheInvariant, PTL

\* The cache never exceeds its capacity (cache.rs new, put).
THEOREM CapacityBounded == CacheSpec => []CapacityBound
<1>1. CacheInv => CapacityBound
  BY DEF CacheInv
<1> QED BY <1>1, CacheInvariant, PTL

\* What a hit tells: its age in ticks, and the bounds on its entry's TTL.
LEMMA HitFacts ==
  ASSUME CacheInv, NEW k \in Keys, Hit(k)
  PROVE  /\ ~PutPanics
         /\ cache[k] \in CacheEntry
         /\ Elapsed(k) \in Nat
         /\ Elapsed(k) < Sec * cache[k].ttl
         /\ cache[k].ttl = ClampTtl(extract_min_ttl(cache[k].response))
<1>1. k \in Present /\ cache[k] \in CacheEntry /\ now \in Nat
  BY DEF Hit, CacheInv, CacheTypeOK
<1>2. cache[k].inserted_at \in Nat /\ cache[k].ttl \in Nat /\ cache[k].inserted_at <= now
  BY <1>1 DEF CacheEntry, CacheInv, EntriesSound
<1>3. Sec * cache[k].ttl \in Nat
  BY <1>2, CacheAssumption
<1>4. Elapsed(k) \in Nat /\ Elapsed(k) < Sec * cache[k].ttl
  BY <1>1, <1>2, <1>3 DEF Elapsed, Hit, Expired
<1> QED BY <1>1, <1>4 DEF CacheInv, EntriesSound

\* Longer TTLs are longer in ticks.
LEMMA SecMonotone ==
  ASSUME NEW a \in Nat, NEW b \in Nat, a <= b
  PROVE  Sec * a <= Sec * b /\ Sec * a \in Nat /\ Sec * b \in Nat
<1>1. Sec \in Nat
  BY CacheAssumption
<1>2. PICK n \in Nat : b = a + n
  <2>1. b - a \in Nat /\ b = a + (b - a)
    OBVIOUS
  <2> QED BY <2>1
<1>3. Sec * b = Sec * a + Sec * n /\ Sec * n \in Nat /\ Sec * a \in Nat
  BY <1>1, <1>2
<1> QED BY <1>1, <1>3

\* No answer is served max_ttl seconds or more after it was stored, whatever the
\* upstream's TTLs, the evictions and the order of puts (cache.rs put, get).
THEOREM LifetimeBounded == CacheSpec => []LifetimeBound
<1>1. CacheInv => LifetimeBound
  <2> SUFFICES ASSUME CacheInv, NEW k \in Keys, Hit(k)
               PROVE  Elapsed(k) < Sec * max_ttl
    BY DEF LifetimeBound
  <2>1. cache[k].ttl \in Nat /\ cache[k].ttl <= max_ttl /\ max_ttl \in Nat
    BY HitFacts, EntryTtl, CacheAssumption DEF CacheEntry
  <2>2. Sec * cache[k].ttl <= Sec * max_ttl /\ Sec * max_ttl \in Nat /\ Sec * cache[k].ttl \in Nat
    BY <2>1, SecMonotone
  <2> QED BY <2>2, HitFacts
<1> QED BY <1>1, CacheInvariant, PTL

\* Records are served past their shortest upstream TTL only up to min_ttl
\* (cache.rs extract_min_ttl, put, get).
THEOREM UpstreamTtlIsRespected == CacheSpec => []UpstreamTtlRespected
<1>1. CacheInv => UpstreamTtlRespected
  <2> SUFFICES ASSUME CacheInv, NEW k \in Keys, Hit(k),
                      cache[k].response.parses, cache[k].response.answers # {}
               PROVE  LET t == MinOf(cache[k].response.answers
                                       \cup cache[k].response.additionals)
                      IN  Elapsed(k) < Sec * (IF t > min_ttl THEN t ELSE min_ttl)
    BY DEF UpstreamTtlRespected
  <2> DEFINE r == cache[k].response
             T == r.answers \cup r.additionals
             t == MinOf(T)
             b == IF t > min_ttl THEN t ELSE min_ttl
  <2>1. r \in Response /\ cache[k].ttl \in Nat
    BY HitFacts DEF CacheEntry
  <2>2. T \in SUBSET Nat /\ T # {} /\ min_ttl \in Nat
    <3>1. r.answers \in SUBSET Ttls /\ r.additionals \in SUBSET Ttls
      BY <2>1 DEF Response
    <3> QED BY <3>1, CacheAssumption
  <2>3. t \in Nat
    <3>1. t \in T
      BY <2>2, MinOfIsMin
    <3> QED BY <2>2, <3>1
  <2>4. cache[k].ttl <= min_ttl \/ cache[k].ttl <= t
    BY <2>1, HitFacts, EntryTtl
  <2> HIDE DEF t
  <2>5. b \in Nat /\ cache[k].ttl <= b
    BY <2>1, <2>2, <2>3, <2>4
  <2> HIDE DEF b
  <2>6. Sec * cache[k].ttl <= Sec * b /\ Sec * b \in Nat /\ Sec * cache[k].ttl \in Nat
    BY <2>1, <2>5, SecMonotone
  <2>7. Elapsed(k) < Sec * b
    BY <2>6, HitFacts
  <2> QED BY <2>7 DEF b, t
<1> QED BY <1>1, CacheInvariant, PTL

\* The TTL written into a served answer never outlives the entry (cache.rs get,
\* adjust_ttls): rounding to whole seconds is downwards.
THEOREM RemainingIsHonest == CacheSpec => []RemainingHonest
<1>1. CacheInv => RemainingHonest
  <2> SUFFICES ASSUME CacheInv, NEW k \in Keys, Hit(k),
                      cache[k].response.parses, cache[k].response.fits,
                      NEW t \in Cached(k).answers
               PROVE  Elapsed(k) + Sec * t <= Sec * cache[k].ttl
    BY DEF RemainingHonest
  <2> DEFINE left == Sec * cache[k].ttl - Elapsed(k)
  <2>1. Sec \in Nat \ {0} /\ cache[k].ttl \in Nat
    BY HitFacts, CacheAssumption DEF CacheEntry
  <2>2. Sec * cache[k].ttl \in Nat
    BY <2>1
  <2>3. left \in Nat /\ Elapsed(k) \in Nat
    BY <2>2, HitFacts
  <2>4. t = left \div Sec
    <3>1. cache[k].response \in Response
      BY HitFacts DEF CacheEntry
    <3>2. cache[k].response.answers # {}
      BY DEF Cached, adjust_ttls
    <3>3. Cached(k).answers = {Remaining(k)}
      BY <3>1, <3>2 DEF Cached, adjust_ttls, Response
    <3> QED BY <3>3 DEF Remaining
  <2> HIDE DEF left
  <2>5. Sec * (left \div Sec) <= left /\ Sec * (left \div Sec) \in Nat
    BY <2>1, <2>3
  <2>6. left = Sec * cache[k].ttl - Elapsed(k)
    BY DEF left
  <2> QED BY <2>2, <2>3, <2>4, <2>5, <2>6
<1> QED BY <1>1, CacheInvariant, PTL
-----------------------------------------------------------------------------
(* Least recently used *)

\* The order of the cache is right about every key present: what it puts after
\* the key was used since.  A key that was stored, never found expired and is gone
\* was pushed out, by as many other keys as there is room for.
UseInv ==
  /\ stored \subseteq Keys /\ since \in [Keys -> SUBSET Keys]
  /\ \A k \in Keys : IsFiniteSet(since[k])
  /\ \A k \in Present : \A j \in Present : <<k, j>> \in older => j \in since[k]
  /\ \A k \in stored \ Present : Cardinality(since[k]) >= Cap

\* The history follows the cache and does not steer it.
LEMMA UseIsCache == UseSpec => CacheSpec
<1>1. UseInit => CacheInit
  BY DEF UseInit
<1>2. [UseNext]_useVars => [CacheNext]_cacheVars
  BY DEF UseNext, UseHit, UseMiss, UsePut, UseTick, CacheNext, useVars, cacheVars
<1> QED BY <1>1, <1>2, PTL DEF UseSpec, CacheSpec

\* A use empties the history of the key and adds it to that of all others.
LEMMA Used ==
  ASSUME UseInv, NEW k \in Keys, Use(k)
  PROVE  /\ since' \in [Keys -> SUBSET Keys] /\ since'[k] = {}
         /\ \A j \in Keys : IsFiniteSet(since'[j])
         /\ \A j \in Keys \ {k} :
              /\ since'[j] = since[j] \cup {k}
              /\ Cardinality(since[j]) \in Nat /\ Cardinality(since'[j]) \in Nat
              /\ Cardinality(since[j]) <= Cardinality(since'[j])
<1>1. since' = [j \in Keys |-> IF j = k THEN {} ELSE since[j] \cup {k}]
  BY DEF Use
<1>2. since \in [Keys -> SUBSET Keys] /\ \A j \in Keys : IsFiniteSet(since[j])
  BY DEF UseInv
<1>3. since' \in [Keys -> SUBSET Keys] /\ since'[k] = {}
  BY <1>1, <1>2
<1>4. ASSUME NEW j \in Keys \ {k}
      PROVE  /\ since'[j] = since[j] \cup {k} /\ IsFiniteSet(since'[j])
             /\ Cardinality(since[j]) \in Nat /\ Cardinality(since'[j]) \in Nat
             /\ Cardinality(since[j]) <= Cardinality(since'[j])
  <2>1. since'[j] = since[j] \cup {k}
    BY <1>1
  <2>2. IsFiniteSet(since'[j])
    BY <1>2, <2>1, FS_AddElement
  <2>3. Cardinality(since[j]) <= Cardinality(since'[j])
    <3>1. since[j] \subseteq since'[j]
      BY <2>1
    <3> QED BY <2>2, <3>1, FS_Subset
  <2> QED BY <1>2, <2>1, <2>2, <2>3, FS_CardinalityType
<1>5. IsFiniteSet(since'[k])
  BY <1>3, FS_EmptySet
<1> QED BY <1>3, <1>4, <1>5

\* A hit is a use of its key.
LEMMA UseHitInv ==
  ASSUME CacheInv, UseInv, NEW k \in Keys, UseHit(k)
  PROVE  UseInv'
<1>1. /\ k \in Present /\ Present' = Present /\ older' = Promoted(k) /\ Use(k) /\ stored' = stored
      /\ Present \subseteq Keys
  BY DEF UseHit, GetHit, Hit, Present, CacheInv, CacheTypeOK
<1>2. ASSUME NEW i \in Present, NEW j \in Present, <<i, j>> \in older'
      PROVE  j \in since'[i]
  <2>1. i # k
    BY <1>1, <1>2 DEF Promoted, Without
  <2>2. j = k \/ <<i, j>> \in older
    BY <1>1, <1>2 DEF Promoted, Without
  <2>3. since'[i] = since[i] \cup {k}
    BY <1>1, <2>1, Used
  <2> QED BY <2>2, <2>3 DEF UseInv
<1>3. ASSUME NEW j \in stored' \ Present'
      PROVE  Cardinality(since'[j]) >= Cap
  <2>1. j \in Keys \ {k} /\ Cardinality(since[j]) >= Cap
    BY <1>1, <1>3 DEF UseInv
  <2>2. /\ Cardinality(since[j]) \in Nat /\ Cardinality(since'[j]) \in Nat
        /\ Cardinality(since[j]) <= Cardinality(since'[j])
    BY <1>1, <2>1, Used
  <2> QED BY <2>1, <2>2, CapPositive
<1>4. since' \in [Keys -> SUBSET Keys] /\ \A j \in Keys : IsFiniteSet(since'[j])
  BY <1>1, Used
<1> QED BY <1>1, <1>2, <1>3, <1>4 DEF UseInv, Cap

\* A miss forgets a key that was found expired.
LEMMA UseMissInv ==
  ASSUME CacheInv, UseInv, NEW k \in Keys, UseMiss(k)
  PROVE  UseInv'
<1>1. stored' = stored \ {k} /\ since' = since
  BY DEF UseMiss
<1>2. Present' = Present \ {k} /\ older' \subseteq older
  <2>1. CASE k \in Present /\ pop(k)
    BY <2>1 DEF pop, Present, Without
  <2>2. CASE k \notin Present /\ UNCHANGED <<cache, older>>
    BY <2>2 DEF Present
  <2> QED BY <2>1, <2>2 DEF UseMiss, GetMiss
<1> QED BY <1>1, <1>2 DEF UseInv, Cap

\* The key that is evicted has all others after it: with the new one they are as
\* many as there is room for.
LEMMA UsePutInv ==
  ASSUME CacheInv, UseInv, NEW k \in Keys, NEW r \in Responses, NEW at \in 0..now,
         UsePut(k, r, at)
  PROVE  UseInv'
<1> DEFINE e == NewEntry(r, at)
<1>1. lru_put(k, e) /\ Use(k) /\ stored' = stored \cup {k} /\ Present \subseteq Keys
  BY DEF UsePut, put, CacheInv, CacheTypeOK
<1> HIDE DEF e
<1>2. since' \in [Keys -> SUBSET Keys] /\ \A j \in Keys : IsFiniteSet(since'[j])
  BY <1>1, Used
<1>3. \A j \in Keys \ {k} :
        /\ since'[j] = since[j] \cup {k}
        /\ Cardinality(since[j]) \in Nat /\ Cardinality(since'[j]) \in Nat
        /\ Cardinality(since[j]) <= Cardinality(since'[j])
  BY <1>1, Used
<1>4. IsFiniteSet(Present) /\ Cardinality(Present) \in Nat
  BY FS_CardinalityType DEF CacheInv, CapacityBound
<1>5. CASE k \in Present \/ Cardinality(Present) < Cap
  <2>1. Present' = Present \cup {k} /\ older' = Promoted(k)
    BY <1>1, <1>4, <1>5, CapPositive DEF lru_put, Present
  <2>2. ASSUME NEW i \in Present', NEW j \in Present', <<i, j>> \in older'
        PROVE  j \in since'[i]
    <3>1. i # k /\ (j = k \/ <<i, j>> \in older) /\ i \in Present
      BY <2>1, <2>2 DEF Promoted, Without
    <3>2. <<i, j>> \in older => j \in Present
      BY <2>2 DEF CacheInv, CacheTypeOK
    <3> QED BY <1>1, <1>3, <3>1, <3>2 DEF UseInv
  <2>3. ASSUME NEW j \in stored' \ Present'
        PROVE  Cardinality(since'[j]) >= Cap
    <3>1. j \in Keys \ {k} /\ j \in stored \ Present
      BY <1>1, <2>1, <2>3 DEF UseInv
    <3> QED BY <1>3, <3>1, CapPositive DEF UseInv
  <2> QED BY <1>1, <1>2, <2>2, <2>3 DEF UseInv, Cap
<1>6. CASE ~ (k \in Present \/ Cardinality(Present) < Cap)
  <2>1. PICK victim \in Present :
          /\ \A j \in Present \ {victim} : <<victim, j>> \in older
          /\ cache' = [j \in (Present \ {victim}) \cup {k} |->
                         IF j = k THEN e ELSE cache[j]]
          /\ older' = Without(victim) \cup ((Present \ {victim}) \X {k})
    BY <1>1, <1>6 DEF lru_put
  <2>2. Present' = (Present \ {victim}) \cup {k} /\ k \notin Present /\ victim \in Keys \ {k}
    BY <1>1, <1>6, <2>1 DEF Present
  <2>3. ASSUME NEW i \in Present', NEW j \in Present', <<i, j>> \in older'
        PROVE  j \in since'[i]
    <3>1. i # k /\ (j = k \/ <<i, j>> \in older) /\ i \in Present
      BY <2>1, <2>2, <2>3 DEF Without, CacheInv, CacheTypeOK
    <3>2. <<i, j>> \in older => j \in Present
      BY <2>3 DEF CacheInv, CacheTypeOK
    <3> QED BY <1>1, <1>3, <3>1, <3>2 DEF UseInv
  <2>4. Cardinality(since'[victim]) >= Cap
    <3>1. (Present \ {victim}) \cup {k} \subseteq since'[victim]
      BY <1>3, <2>1, <2>2 DEF UseInv
    <3>2. IsFiniteSet(since'[victim])
      BY <1>2, <2>2
    <3>3. /\ IsFiniteSet(Present \ {victim})
          /\ Cardinality(Present \ {victim}) = Cardinality(Present) - 1
      BY <1>4, FS_RemoveElement
    <3>4. Cardinality((Present \ {victim}) \cup {k}) = Cardinality(Present)
      <4>1. Cardinality((Present \ {victim}) \cup {k}) = Cardinality(Present \ {victim}) + 1
        BY <2>2, <3>3, FS_AddElement
      <4> QED BY <1>4, <3>3, <4>1
    <3>5. Cardinality((Present \ {victim}) \cup {k}) <= Cardinality(since'[victim])
      BY <3>1, <3>2, FS_Subset
    <3>6. Cardinality(since'[victim]) \in Nat
      BY <3>2, FS_CardinalityType
    <3> QED BY <1>4, <1>6, <3>4, <3>5, <3>6, CapPositive
  <2>5. ASSUME NEW j \in stored' \ Present'
        PROVE  Cardinality(since'[j]) >= Cap
    <3>1. CASE j = victim
      BY <2>4, <3>1
    <3>2. CASE j # victim
      <4>1. j \in Keys \ {k} /\ j \in stored \ Present
        BY <1>1, <2>2, <2>5, <3>2 DEF UseInv
      <4> QED BY <1>3, <4>1, CapPositive DEF UseInv
    <3> QED BY <3>1, <3>2
  <2> QED BY <1>1, <1>2, <2>3, <2>5 DEF UseInv, Cap
<1> QED BY <1>5, <1>6

\* A stored answer that was not found expired is still there as long as fewer
\* other names than the capacity were used since (cache.rs get, put).
THEOREM RecentlyUsedIsKept == UseSpec => []RecentlyUsedKept
<1>1. UseInit => UseInv
  <2>1. UseInit => Present = {}
    BY DEF UseInit, CacheInit, Present
  <2> QED BY <2>1, FS_EmptySet DEF UseInit, UseInv
<1>2. CacheInv /\ UseInv /\ [UseNext]_useVars => UseInv'
  <2>1. ASSUME UseInv, UseTick \/ UNCHANGED useVars PROVE UseInv'
    BY <2>1 DEF UseTick, Tick, useVars, UseInv, Present, Cap
  <2> QED BY <2>1, UseHitInv, UseMissInv, UsePutInv DEF UseNext
<1>3. UseInv => RecentlyUsedKept
  <2> SUFFICES ASSUME UseInv, NEW k \in stored, Cardinality(since[k]) < Cap
               PROVE  k \in Present
    BY DEF RecentlyUsedKept
  <2>1. Cardinality(since[k]) \in Nat
    BY FS_CardinalityType DEF UseInv
  <2> QED BY <2>1, CapPositive DEF UseInv
<1> QED BY <1>1, <1>2, <1>3, UseIsCache, CacheInvariant, PTL DEF UseSpec
-----------------------------------------------------------------------------
(* The server *)

\* A task t that handles q, at time n.
TaskOK(q, t, n) ==
  /\ t.st \in {"answered", "fetched"} =>
       /\ t.body \in Responses /\ t.body.data.asOf <= n
       /\ t.body.data.key = t.key /\ t.body.data.id = q
  /\ t.st = "answered" => n - t.body.data.asOf <= Lat
  /\ t.st = "fetched" => t.at <= n /\ t.at - t.body.data.asOf <= Lat
  /\ t.st \in {"replying", "sending", "prefixed"} /\ t.kind # "servfail" =>
       /\ t.body \in Body /\ t.body.data.key = t.key
       /\ t.body.data.size >= 2 => t.body.data.id = q

\* An entry answers the question it is stored under, and was Lat old at most when
\* it was stamped.
EntryOK(k, e) ==
  /\ e.response \in Responses /\ e.response.data.key = k
  /\ e.inserted_at - e.response.data.asOf <= Lat

ResolverInv ==
  /\ CacheInv
  /\ task \in [Queries -> Task]
  /\ \A q \in Queries : TaskOK(q, task[q], now)
  /\ \A k \in Present : EntryOK(k, cache[k])
-----------------------------------------------------------------------------
(* Bodies *)

\* A part of the assumption that arithmetic needs by itself.
LEMMA LatIs == Lat \in Nat
BY ResolverAssumption, Zenon

\* The time of a message is a number.
LEMMA MessageIs ==
  ASSUME NEW m \in Message
  PROVE  m.asOf \in Nat /\ m.size \in Nat
BY DEF Message

\* What the upstream sends can be what a reply carries.
LEMMA ResponseIsBody ==
  ASSUME NEW r \in Responses
  PROVE  r \in Body /\ r \in Response /\ r.data \in Message
<1>1. r \in Response /\ r.data \in Message /\ Ttls \subseteq Nat
  <2>1. r.data \in Message
    BY ResolverAssumption, Zenon
  <2>2. r \in Response /\ Ttls \subseteq Nat
    BY CacheAssumption
  <2> QED BY <2>1, <2>2
<1>2. r = [parses |-> r.parses, fits |-> r.fits, data |-> r.data,
           answers |-> r.answers, additionals |-> r.additionals]
  BY <1>1 DEF Response
<1>3. /\ r.parses \in BOOLEAN /\ r.fits \in BOOLEAN
      /\ r.answers \in SUBSET Nat /\ r.additionals \in SUBSET Nat
  BY <1>1 DEF Response
<1> QED BY <1>1, <1>2, <1>3 DEF Body

\* The ID of the query, and the question as it was.
LEMMA WithIdIs ==
  ASSUME NEW r \in Body, NEW q \in Queries
  PROVE  /\ WithId(r, q) \in Body /\ WithId(r, q).data.key = r.data.key
         /\ WithId(r, q).data.size >= 2 => WithId(r, q).data.id = q
<1>1. r.data \in Message
  BY DEF Body
<1>2. CASE r.data.size >= 2
  <2> DEFINE d == [r.data EXCEPT !.id = q]
  <2>1. d \in Message /\ d.id = q /\ d.key = r.data.key
    BY <1>1 DEF Message
  <2>2. WithId(r, q) = [r EXCEPT !.data = d]
    BY <1>2 DEF WithId
  <2> HIDE DEF d
  <2>3. [r EXCEPT !.data = d] \in Body /\ [r EXCEPT !.data = d].data = d
    BY <2>1 DEF Body
  <2> QED BY <2>1, <2>2, <2>3
<1>3. CASE ~(r.data.size >= 2)
  BY <1>3 DEF WithId
<1> QED BY <1>2, <1>3

\* A hit returns the stored response, with other TTLs at most.
LEMMA CachedIs ==
  ASSUME ResolverInv, NEW k \in Keys, Hit(k)
  PROVE  Cached(k) \in Body /\ Cached(k).data.key = k
<1> DEFINE r == cache[k].response
<1>1. r \in Responses /\ r.data.key = k
  BY DEF ResolverInv, Hit, EntryOK
<1>2. Remaining(k) \in Nat
  <2>1. Sec \in Nat \ {0} /\ cache[k].ttl \in Nat
    BY HitFacts, CacheAssumption DEF CacheEntry, ResolverInv
  <2>2. Sec * cache[k].ttl \in Nat
    BY <2>1
  <2>3. Sec * cache[k].ttl - Elapsed(k) \in Nat
    BY <2>2, HitFacts DEF ResolverInv
  <2> QED BY <2>1, <2>3 DEF Remaining
<1>3. r \in Body
  BY <1>1, ResponseIsBody
<1> HIDE DEF r
<1>4. Cached(k) = r \/ Cached(k) = [r EXCEPT !.answers = {Remaining(k)}]
  BY DEF Cached, adjust_ttls, r
<1> QED BY <1>1, <1>2, <1>3, <1>4 DEF Body
-----------------------------------------------------------------------------
(* The cache *)

\* A put keeps entries and adds the one it is given.
LEMMA PutEntries ==
  ASSUME NEW k \in Keys, NEW r, NEW at, put(k, r, at)
  PROVE  \A j \in Present' :
           \/ j = k /\ cache'[j] = NewEntry(r, at)
           \/ j \in Present /\ cache'[j] = cache[j]
<1> DEFINE e == NewEntry(r, at)
<1>1. lru_put(k, e)
  BY DEF put
<1> HIDE DEF e
<1>2. CASE cache' = [j \in Present \cup {k} |-> IF j = k THEN e ELSE cache[j]]
  BY <1>2 DEF Present, e
<1>3. ASSUME NEW victim \in Present,
             cache' = [j \in (Present \ {victim}) \cup {k} |->
                         IF j = k THEN e ELSE cache[j]]
      PROVE  \A j \in Present' :
               \/ j = k /\ cache'[j] = e
               \/ j \in Present /\ cache'[j] = cache[j]
  BY <1>3 DEF Present
<1> QED BY <1>1, <1>2, <1>3 DEF lru_put, e

\* A get keeps entries.
LEMMA GetEntries ==
  ASSUME NEW k \in Keys, GetHit(k) \/ GetMiss(k)
  PROVE  now' = now /\ \A j \in Present' : j \in Present /\ cache'[j] = cache[j]
BY DEF GetHit, GetMiss, pop, Present

\* What a step of task q that leaves it as t has to keep.
LEMMA TaskStepInv ==
  ASSUME ResolverInv, NEW q \in Queries, NEW t \in Task,
         task' = [task EXCEPT ![q] = t], TaskOK(q, t, now), now' = now,
         CacheInv', \A k \in Present' : EntryOK(k, cache'[k])
  PROVE  ResolverInv'
<1>1. task' \in [Queries -> Task] /\ task'[q] = t /\ \A p \in Queries \ {q} : task'[p] = task[p]
  BY DEF ResolverInv
<1>2. \A p \in Queries : TaskOK(p, task'[p], now')
  BY <1>1 DEF ResolverInv
<1> QED BY <1>1, <1>2 DEF ResolverInv

\* A step that leaves cache and clock alone.
LEMMA CacheUnchanged ==
  ASSUME ResolverInv, UNCHANGED cacheVars
  PROVE  now' = now /\ CacheInv' /\ \A k \in Present' : EntryOK(k, cache'[k])
BY DEF ResolverInv, cacheVars, CacheInv, CacheTypeOK, CapacityBound, EntriesSound, Present,
       PutPanics, EntryOK
-----------------------------------------------------------------------------
(* Steps of a task *)

\* The fields of a task.
LEMMA TaskFacts ==
  ASSUME ResolverInv, NEW q \in Queries
  PROVE  /\ task \in [Queries -> Task] /\ task[q] \in Task /\ TaskOK(q, task[q], now)
         /\ now \in Nat
BY DEF ResolverInv, CacheInv, CacheTypeOK

\* A query is read from its socket.
LEMMA ReceiveInv ==
  ASSUME ResolverInv, NEW q \in Queries, Receive(q)
  PROVE  ResolverInv'
<1>1. PICK wf \in BOOLEAN, key \in Keys \cup {NoKey} :
        task' = [task EXCEPT ![q].st = "received", ![q].wf = wf, ![q].key = key]
  BY DEF Receive
<1> DEFINE t == [task[q] EXCEPT !.st = "received", !.wf = wf, !.key = key]
<1>2. task' = [task EXCEPT ![q] = t]
  BY <1>1, TaskFacts
<1>3. t \in Task /\ t.st = "received"
  BY TaskFacts DEF Task, Stages
<1> HIDE DEF t
<1>4. TaskOK(q, t, now)
  BY <1>3 DEF TaskOK
<1> QED BY <1>2, <1>3, <1>4, CacheUnchanged, TaskStepInv DEF Receive

\* A query that does not parse.
LEMMA ResolveMalformedInv ==
  ASSUME ResolverInv, NEW q \in Queries, ResolveMalformed(q)
  PROVE  ResolverInv'
<1> DEFINE t == [task[q] EXCEPT !.st = "failed"]
<1>1. task' = [task EXCEPT ![q] = t]
  BY TaskFacts DEF ResolveMalformed
<1>2. t \in Task /\ t.st = "failed"
  BY TaskFacts DEF Task, Stages
<1> HIDE DEF t
<1>3. TaskOK(q, t, now)
  BY <1>2 DEF TaskOK
<1> QED BY <1>1, <1>2, <1>3, CacheUnchanged, TaskStepInv DEF ResolveMalformed

\* A hit is given the ID of the query.
LEMMA ResolveHitInv ==
  ASSUME ResolverInv, NEW q \in Queries, ResolveHit(q)
  PROVE  ResolverInv'
<1> DEFINE k == task[q].key
           b == WithId(Cached(k), q)
           t == [task[q] EXCEPT !.st = "replying", !.kind = "cached", !.body = b]
<1>1. k \in Keys /\ GetHit(k) /\ Hit(k)
  BY DEF ResolveHit, GetHit
<1>2. b \in Body /\ b.data.key = k /\ (b.data.size >= 2 => b.data.id = q)
  <2>1. Cached(k) \in Body /\ Cached(k).data.key = k
    BY <1>1, CachedIs
  <2> HIDE DEF k
  <2> QED BY <2>1, WithIdIs
<1>3. task' = [task EXCEPT ![q].st = "replying", ![q].kind = "cached", ![q].body = b]
  BY DEF ResolveHit
<1> HIDE DEF b
<1>4. task' = [task EXCEPT ![q] = t]
  BY <1>3, TaskFacts
<1>5. t \in Task /\ t.st = "replying" /\ t.body = b /\ t.key = k
  BY <1>2, TaskFacts DEF Task, Stages
<1> HIDE DEF t
<1>6. TaskOK(q, t, now)
  BY <1>2, <1>5 DEF TaskOK
<1>7. CacheInv' /\ now' = now /\ \A j \in Present' : EntryOK(j, cache'[j])
  BY <1>1, HitPreservesInv, GetEntries DEF ResolverInv
<1> QED BY <1>4, <1>5, <1>6, <1>7, TaskStepInv

\* A miss goes upstream.
LEMMA ResolveMissInv ==
  ASSUME ResolverInv, NEW q \in Queries, ResolveMiss(q)
  PROVE  ResolverInv'
<1> DEFINE t == [task[q] EXCEPT !.st = "asked"]
<1>1. task' = [task EXCEPT ![q] = t]
  BY TaskFacts DEF ResolveMiss
<1>2. t \in Task /\ t.st = "asked"
  BY TaskFacts DEF Task, Stages
<1> HIDE DEF t
<1>3. TaskOK(q, t, now)
  BY <1>2 DEF TaskOK
<1>4. CASE UNCHANGED cacheVars
  BY <1>1, <1>2, <1>3, <1>4, CacheUnchanged, TaskStepInv
<1>5. CASE task[q].key \in Keys /\ GetMiss(task[q].key)
  <2>1. CacheInv' /\ now' = now /\ \A j \in Present' : EntryOK(j, cache'[j])
    BY <1>5, MissPreservesInv, GetEntries DEF ResolverInv
  <2> QED BY <1>1, <1>2, <1>3, <2>1, TaskStepInv
<1> QED BY <1>4, <1>5 DEF ResolveMiss

\* The upstream answers the question it was asked.
LEMMA UpstreamAnswerInv ==
  ASSUME ResolverInv, NEW q \in Queries, NEW r \in Responses, UpstreamAnswer(q, r)
  PROVE  ResolverInv'
<1> DEFINE t == [task[q] EXCEPT !.st = "answered", !.body = r]
<1>1. r.data.id = q /\ r.data.key = task[q].key /\ r.data.asOf = now /\ r \in Body
  BY ResponseIsBody DEF UpstreamAnswer
<1>2. task' = [task EXCEPT ![q] = t]
  BY TaskFacts DEF UpstreamAnswer
<1>3. t \in Task /\ t.st = "answered" /\ t.body = r /\ t.key = task[q].key
  BY <1>1, TaskFacts DEF Task, Stages
<1> HIDE DEF t
<1>4. TaskOK(q, t, now)
  BY <1>1, <1>3, TaskFacts, LatIs DEF TaskOK
<1> QED BY <1>2, <1>3, <1>4, CacheUnchanged, TaskStepInv DEF UpstreamAnswer

\* The request fails.
LEMMA UpstreamFailInv ==
  ASSUME ResolverInv, NEW q \in Queries, UpstreamFail(q)
  PROVE  ResolverInv'
<1> DEFINE t == [task[q] EXCEPT !.st = "failed", !.body = NoBody]
<1>1. task' = [task EXCEPT ![q] = t]
  BY TaskFacts DEF UpstreamFail
<1>2. t \in Task /\ t.st = "failed"
  BY TaskFacts DEF Task, Stages
<1> HIDE DEF t
<1>3. TaskOK(q, t, now)
  BY <1>2 DEF TaskOK
<1> QED BY <1>1, <1>2, <1>3, CacheUnchanged, TaskStepInv DEF UpstreamFail

\* A task that ends.
LEMMA EndedIs ==
  ASSUME ResolverInv, NEW q \in Queries, NEW how \in Over
  PROVE  Ended(q, how) \in Task /\ Ended(q, how).st = how /\ TaskOK(q, Ended(q, how), now)
<1>1. Ended(q, how) \in Task /\ Ended(q, how).st = how
  BY TaskFacts DEF Ended, Task, Stages, Over
<1>2. how \notin {"answered", "fetched", "replying", "sending", "prefixed"}
  BY DEF Over
<1> QED BY <1>1, <1>2 DEF TaskOK

\* The body is complete and stamped, at most Lat old.
LEMMA BodyCollectedInv ==
  ASSUME ResolverInv, NEW q \in Queries, BodyCollected(q)
  PROVE  ResolverInv'
<1>0. UNCHANGED cacheVars /\ task[q].st = "answered"
  BY DEF BodyCollected
<1>1. CASE task' = [task EXCEPT ![q] = Ended(q, "panicked")]
  <2>1. "panicked" \in Over
    BY DEF Over
  <2> QED BY <1>0, <1>1, <2>1, EndedIs, CacheUnchanged, TaskStepInv
<1>2. CASE task' = [task EXCEPT ![q].st = "fetched", ![q].at = now]
  <2> DEFINE t == [task[q] EXCEPT !.st = "fetched", !.at = now]
  <2>1. task' = [task EXCEPT ![q] = t]
    BY <1>2, TaskFacts
  <2>2. t \in Task /\ t.st = "fetched" /\ t.body = task[q].body /\ t.key = task[q].key /\ t.at = now
    BY TaskFacts DEF Task, Stages
  <2> HIDE DEF t
  <2>3. TaskOK(q, t, now)
    BY <1>0, <2>2, TaskFacts DEF TaskOK
  <2> QED BY <1>0, <2>1, <2>2, <2>3, CacheUnchanged, TaskStepInv
<1> QED BY <1>1, <1>2 DEF BodyCollected

\* The answer is stored under the key of the query it was asked for.
LEMMA StoreInv ==
  ASSUME ResolverInv, NEW q \in Queries, Store(q)
  PROVE  ResolverInv'
<1> DEFINE r == task[q].body
           b == WithId(r, q)
           t == [task[q] EXCEPT !.st = "replying", !.kind = "upstream", !.body = b, !.at = 0]
<1>1. /\ r \in Responses /\ r \in Body /\ r.data.key = task[q].key
      /\ task[q].at \in Nat /\ task[q].at <= now /\ task[q].at - r.data.asOf <= Lat
  <2>1. r \in Responses
    BY TaskFacts DEF Store, TaskOK
  <2> QED BY <2>1, ResponseIsBody, TaskFacts DEF Store, TaskOK, Task
<1>2. task' = [task EXCEPT ![q].st = "replying", ![q].kind = "upstream",
                           ![q].body = b, ![q].at = 0]
  BY DEF Store
<1>3. \/ UNCHANGED cacheVars
      \/ task[q].key \in Keys /\ put(task[q].key, r, task[q].at)
  BY DEF Store
<1> HIDE DEF r
<1>4. b \in Body /\ b.data.key = task[q].key /\ (b.data.size >= 2 => b.data.id = q)
  BY <1>1, WithIdIs
<1> HIDE DEF b
<1>5. task' = [task EXCEPT ![q] = t]
  BY <1>2, TaskFacts
<1>6. t \in Task /\ t.st = "replying" /\ t.body = b /\ t.key = task[q].key
  BY <1>4, TaskFacts DEF Task, Stages
<1> HIDE DEF t
<1>7. TaskOK(q, t, now)
  BY <1>4, <1>6 DEF TaskOK
<1>8. CASE UNCHANGED cacheVars
  BY <1>5, <1>6, <1>7, <1>8, CacheUnchanged, TaskStepInv
<1>9. CASE task[q].key \in Keys /\ put(task[q].key, r, task[q].at)
  <2>1. task[q].at \in 0..now
    BY <1>1, TaskFacts
  <2>2. CacheInv' /\ now' = now
    BY <1>1, <1>9, <2>1, PutPreservesInv DEF ResolverInv, put
  <2>3. EntryOK(task[q].key, NewEntry(r, task[q].at))
    BY <1>1 DEF EntryOK, NewEntry
  <2>4. \A j \in Present' : EntryOK(j, cache'[j])
    BY <1>9, <2>3, PutEntries DEF ResolverInv
  <2> QED BY <1>5, <1>6, <1>7, <2>2, <2>4, TaskStepInv
<1> QED BY <1>3, <1>8, <1>9

\* A SERVFAIL, the log line and the writes of the reply.
LEMMA AnswerInv ==
  ASSUME ResolverInv, NEW q \in Queries,
         Fail(q) \/ LogLine(q) \/ Send(q) \/ SendError(q) \/ TcpWrite(q)
  PROVE  ResolverInv'
<1>0. UNCHANGED cacheVars
  BY DEF Fail, LogLine, Send, SendError, TcpWrite, WriteLength, WriteReply, WriteError
<1>1. CASE Fail(q) /\ task[q].wf
  <2> DEFINE t == [task[q] EXCEPT !.st = "replying", !.kind = "servfail"]
  <2>1. task' = [task EXCEPT ![q] = t]
    BY <1>1, TaskFacts DEF Fail
  <2>2. t \in Task /\ t.st = "replying" /\ t.kind = "servfail"
    BY TaskFacts DEF Task, Stages
  <2> HIDE DEF t
  <2>3. TaskOK(q, t, now)
    BY <2>2 DEF TaskOK
  <2> QED BY <1>0, <2>1, <2>2, <2>3, CacheUnchanged, TaskStepInv
<1>2. ASSUME NEW to \in {"sending", "prefixed"}, task[q].st \in {"replying", "sending"},
             task' = [task EXCEPT ![q].st = to]
      PROVE  ResolverInv'
  <2> DEFINE t == [task[q] EXCEPT !.st = to]
  <2>1. task' = [task EXCEPT ![q] = t] /\ task[q].st \in {"replying", "sending"}
    BY <1>2, TaskFacts
  <2>2. t \in Task /\ t.st = to /\ t.kind = task[q].kind /\ t.body = task[q].body /\ t.key = task[q].key
    BY TaskFacts DEF Task, Stages
  <2> HIDE DEF t
  <2>3. TaskOK(q, t, now)
    BY <2>1, <2>2, TaskFacts DEF TaskOK
  <2> QED BY <1>0, <2>1, <2>2, <2>3, CacheUnchanged, TaskStepInv
<1>3. ASSUME NEW how \in Over, task' = [task EXCEPT ![q] = Ended(q, how)]
      PROVE  ResolverInv'
  BY <1>0, <1>3, EndedIs, CacheUnchanged, TaskStepInv
<1>4. {"sent", "lost", "dropped"} \subseteq Over
  BY DEF Over
<1>5. CASE LogLine(q) \/ WriteLength(q)
  BY <1>2, <1>5 DEF LogLine, WriteLength
<1> QED BY <1>1, <1>3, <1>4, <1>5 DEF Fail, Send, SendError, TcpWrite, WriteReply, WriteError

\* The clock waits for answers that are on their way.
LEMMA ClockInv ==
  ASSUME ResolverInv, Clock
  PROVE  ResolverInv'
<1>1. Tick /\ task' = task /\ now \in Nat /\ now' = now + 1 /\ UNCHANGED <<cache, older>>
  BY DEF Clock, Tick, ResolverInv, CacheInv, CacheTypeOK
<1>2. CacheInv'
  BY <1>1, TickPreservesInv DEF ResolverInv
<1>3. \A k \in Present' : EntryOK(k, cache'[k])
  BY <1>1 DEF ResolverInv, EntryOK, Present
<1>4. ASSUME NEW q \in Queries PROVE TaskOK(q, task[q], now + 1)
  <2>1. task[q].st = "answered" => now - task[q].body.data.asOf < Lat
    BY DEF Clock
  <2>2. task[q].st \in {"answered", "fetched"} => task[q].body.data.asOf \in Nat
    BY TaskFacts, ResponseIsBody DEF TaskOK, Message
  <2>3. task[q].at \in Nat /\ Lat \in Nat
    BY TaskFacts, LatIs DEF Task
  <2> QED BY <1>1, <2>1, <2>2, <2>3, TaskFacts DEF TaskOK
<1> QED BY <1>1, <1>2, <1>3, <1>4 DEF ResolverInv

\* No query is in flight.
LEMMA StartInv == Init => ResolverInv
<1> SUFFICES ASSUME Init PROVE ResolverInv
  OBVIOUS
<1>1. CacheInv /\ Present = {}
  BY InitInv DEF Init, CacheInit, Present
<1>2. task \in [Queries -> Task] /\ \A q \in Queries : task[q].st = "idle"
  BY DEF Init, Task, Stages
<1> QED BY <1>1, <1>2 DEF ResolverInv, TaskOK

\* Every step of the server keeps the invariant.
LEMMA NextInv == ResolverInv /\ [Next]_vars => ResolverInv'
<1> SUFFICES ASSUME ResolverInv, [Next]_vars PROVE ResolverInv'
  OBVIOUS
<1>1. ASSUME NEW q \in Queries,
             \/ Receive(q) \/ Step(q) \/ TcpWrite(q) \/ UpstreamFail(q) \/ BodyCollected(q)
             \/ \E r \in Responses : UpstreamAnswer(q, r)
      PROVE  ResolverInv'
  BY <1>1, ReceiveInv, ResolveMalformedInv, ResolveHitInv, ResolveMissInv, UpstreamAnswerInv,
     UpstreamFailInv, BodyCollectedInv, StoreInv, AnswerInv DEF Step
<1>2. CASE UNCHANGED <<cacheVars, task>>
  BY <1>2, CacheUnchanged DEF ResolverInv
<1> QED BY <1>1, <1>2, ClockInv DEF Next, ClientClose, ReadEof, vars, cacheVars

\* The invariant behind the results below.
THEOREM ResolverInvariant == Spec => []ResolverInv
BY StartInv, NextInv, PTL DEF Spec
-----------------------------------------------------------------------------
\* Whichever query filled the cache, a reply carries the ID and answers the
\* question of the query it is sent to (doh.rs resolve).
THEOREM RepliesMatch == Spec => []ReplyMatchesQuery
<1>1. ResolverInv => ReplyMatchesQuery
  BY DEF ResolverInv, TaskOK, ReplyMatchesQuery, Replying
<1> QED BY <1>1, ResolverInvariant, PTL

\* A hit is never staler than max_ttl and the way back, in whatever order answers
\* are stored.
THEOREM StalenessBounded == Spec => []BoundedStaleness
<1>1. ResolverInv => BoundedStaleness
  <2> SUFFICES ASSUME ResolverInv, NEW k \in Keys, Hit(k)
               PROVE  now - cache[k].response.data.asOf < Sec * max_ttl + Lat
    BY DEF BoundedStaleness
  <2> DEFINE e == cache[k]
             asOf == e.response.data.asOf
             i == e.inserted_at
  <2>1. CacheInv /\ e \in CacheEntry /\ EntryOK(k, e) /\ now \in Nat
    BY HitFacts DEF ResolverInv, Hit, CacheInv, CacheTypeOK
  <2>2. i \in Nat /\ e.ttl \in Nat /\ asOf \in Nat /\ i - asOf <= Lat /\ Lat \in Nat
    <3>1. i \in Nat /\ e.ttl \in Nat
      BY <2>1 DEF CacheEntry
    <3>2. e.response \in Responses /\ i - asOf <= Lat
      BY <2>1 DEF EntryOK
    <3>3. e.response.data \in Message
      BY <3>2, ResponseIsBody
    <3>4. asOf \in Nat
      BY <3>3, MessageIs
    <3>5. Lat \in Nat
      BY LatIs
    <3> QED BY <3>1, <3>2, <3>4, <3>5
  <2>3. e.ttl <= max_ttl /\ max_ttl \in Nat
    BY <2>1, HitFacts, EntryTtl, CacheAssumption DEF CacheEntry
  <2>4. Sec * e.ttl <= Sec * max_ttl /\ Sec * max_ttl \in Nat /\ Sec * e.ttl \in Nat
    BY <2>2, <2>3, SecMonotone
  <2>5. now - i < Sec * e.ttl
    BY <2>1, HitFacts DEF Elapsed
  <2> HIDE DEF e, asOf, i
  <2>6. now - asOf < Sec * max_ttl + Lat
    BY <2>1, <2>2, <2>4, <2>5
  <2> QED BY <2>6 DEF e, asOf, i
<1> QED BY <1>1, ResolverInvariant, PTL

-----------------------------------------------------------------------------
(* What is written to a TCP connection *)

Before == {"received", "asked", "answered", "fetched", "failed", "replying"}

\* A connection has seen whole frames, and the writes come from its own queries.
WireType ==
  wire \in [Conns -> Seq(Chunk)] /\ conn \in [Conns -> {"open", "eof", "closed"}]

FromItsQueries ==
  \A c \in Conns : \A i \in 1..Len(wire[c]) :
    /\ Via[wire[c][i].of] = c
    /\ task[wire[c][i].of].st \in Over \cup {"prefixed"}

\* The queries of a connection are handled in turn, while it is open.
InTurn ==
  \A p, q \in Queries :
    Via[p] = Via[q] /\ Via[q] # Udp /\ No[p] < No[q] /\ task[q].st # "idle" =>
      task[p].st \in Over

WhileOpen == \A q \in Queries : Via[q] # Udp /\ InProgress(q) => conn[Via[q]] # "closed"

Even(n) == n % 2 = 0

\* Between two replies the number of writes is even; after a length it is odd.
Between(c) ==
  conn[c] # "closed" /\ (\A q \in Queries : Via[q] = c => task[q].st # "prefixed") =>
    Even(Len(wire[c]))

AfterLength(q) ==
  task[q].st = "prefixed" =>
    /\ Via[q] # Udp /\ ~Even(Len(wire[Via[q]]))
    /\ wire[Via[q]][Len(wire[Via[q]])].of = q
    /\ wire[Via[q]][Len(wire[Via[q]])].n = as_u16(ReplySize(q))

WireInv ==
  /\ WireType /\ FramesWhole /\ FromItsQueries /\ InTurn /\ WhileOpen
  /\ \A c \in Conns : Between(c)
  /\ \A q \in Queries : AfterLength(q)

\* What a write puts on a connection.
LEMMA ChunkIs ==
  ASSUME WireInv, NEW c \in Conns, NEW i \in 1..Len(wire[c])
  PROVE  wire[c][i].of \in Queries
<1>1. wire[c] \in Seq(Chunk)
  BY DEF WireInv, WireType
<1>2. wire[c][i] \in Chunk
  BY <1>1
<1> QED BY <1>2 DEF Chunk

\* A step that writes nothing and leaves query p alone.
LEMMA OthersAfterLength ==
  ASSUME WireInv, NEW p \in Queries, task'[p] = task[p], wire' = wire
  PROVE  AfterLength(p)'
<1>1. AfterLength(p)
  BY DEF WireInv
<1>2. ReplySize(p)' = ReplySize(p)
  BY DEF ReplySize
<1> QED BY <1>1, <1>2 DEF AfterLength

\* What the assumption says of connections.
LEMMA ConnFacts ==
  ASSUME NEW q \in Queries, Via[q] # Udp
  PROVE  /\ Via[q] \in Conns /\ No[q] \in Nat
         /\ \A p \in Queries \ {q} : Via[p] = Via[q] => No[p] \in Nat /\ No[p] # No[q]
<1>1. Via \in [Queries -> Conns \cup {Udp}]
  BY ResolverAssumption, Zenon
<1>2. No \in [Queries -> Nat]
  BY ResolverAssumption, Zenon
<1>3. \A p \in Queries \ {q} : Via[p] = Via[q] => No[p] # No[q]
  BY ResolverAssumption, Zenon
<1> QED BY <1>1, <1>2, <1>3

LEMMA UdpIs == Udp \notin Conns
BY ResolverAssumption, Zenon

\* One query of a connection at a time is in progress.
LEMMA OneInProgress ==
  ASSUME ResolverInv, WireInv, NEW q \in Queries, InProgress(q), Via[q] # Udp,
         NEW p \in Queries \ {q}, Via[p] = Via[q]
  PROVE  /\ ~InProgress(p)
         /\ task[p].st # "idle" => No[p] < No[q]
<1>1. No[p] \in Nat /\ No[q] \in Nat /\ No[p] # No[q]
  BY ConnFacts
<1>2. task[q].st # "idle" /\ task[q].st \notin Over
  BY DEF InProgress
<1>3. No[p] < No[q] => task[p].st \in Over
  BY <1>2 DEF WireInv, InTurn
<1>4. No[q] < No[p] /\ task[p].st # "idle" => task[q].st \in Over
  BY DEF WireInv, InTurn
<1> QED BY <1>1, <1>2, <1>3, <1>4 DEF InProgress

\* A step of q before it writes anything.
LEMMA QuietWire ==
  ASSUME ResolverInv, WireInv, NEW q \in Queries, \A p \in Queries \ {q} : task'[p] = task[p],
         InProgress(q), InProgress(q)', task[q].st # "prefixed", task'[q].st # "prefixed",
         conn' = conn, wire' = wire
  PROVE  WireInv'
<1>1. /\ task[q].st \notin Over \cup {"prefixed", "idle"}
      /\ task'[q].st \notin Over \cup {"prefixed", "idle"}
  BY DEF InProgress
<1>2. FromItsQueries'
  BY <1>1, ChunkIs DEF WireInv, FromItsQueries
<1>3. InTurn'
  BY <1>1 DEF WireInv, InTurn
<1>4. WhileOpen'
  BY DEF WireInv, WhileOpen, InProgress
<1>5. \A c \in Conns : Between(c)'
  BY DEF WireInv, Between
<1>6. ASSUME NEW p \in Queries PROVE AfterLength(p)'
  <2>1. CASE p = q
    BY <1>1, <2>1 DEF AfterLength
  <2> QED BY <2>1, OthersAfterLength
<1>7. FramesWhole' /\ WireType'
  BY DEF WireInv, FramesWhole, WireType
<1> QED BY <1>2, <1>3, <1>4, <1>5, <1>6, <1>7 DEF WireInv

\* The next query of a connection is read.
LEMMA ReceiveWire ==
  ASSUME ResolverInv, WireInv, NEW q \in Queries, \A p \in Queries \ {q} : task'[p] = task[p],
         task[q].st = "idle", CanReceive(q), task'[q].st = "received",
         conn' = conn, wire' = wire
  PROVE  WireInv'
<1>1. "idle" \notin Over \cup {"prefixed"} /\ "received" \notin Over \cup {"prefixed", "idle"}
  BY DEF Over
<1>2. FromItsQueries'
  BY <1>1, ChunkIs DEF WireInv, FromItsQueries
<1>3. ASSUME NEW p \in Queries, NEW r \in Queries,
             Via[p] = Via[r], Via[r] # Udp, No[p] < No[r], task'[r].st # "idle"
      PROVE  task'[p].st \in Over
  <2>1. CASE r = q
    <3>1. p # q /\ task'[p] = task[p]
      BY <1>3, <2>1, ConnFacts
    <3> QED BY <1>3, <2>1, <3>1 DEF CanReceive, InProgress
  <2>2. CASE r # q
    <3>1. task[p].st \in Over
      BY <1>3, <2>2 DEF WireInv, InTurn
    <3> QED BY <1>1, <3>1
  <2> QED BY <2>1, <2>2
<1>4. WhileOpen'
  BY DEF WireInv, WhileOpen, InProgress, CanReceive
<1>5. \A c \in Conns : Between(c)'
  BY <1>1 DEF WireInv, Between
<1>6. ASSUME NEW p \in Queries PROVE AfterLength(p)'
  <2>1. CASE p = q
    BY <1>1, <2>1 DEF AfterLength
  <2> QED BY <2>1, OthersAfterLength
<1>7. FramesWhole' /\ WireType'
  BY DEF WireInv, FramesWhole, WireType
<1> QED BY <1>2, <1>3, <1>4, <1>5, <1>6, <1>7 DEF WireInv, InTurn

\* The handling of q ends without a write, and with it its connection unless nothing
\* was written for q.
LEMMA EndWire ==
  ASSUME ResolverInv, WireInv, NEW q \in Queries, \A p \in Queries \ {q} : task'[p] = task[p],
         InProgress(q), task'[q].st \in Over, wire' = wire,
         \/ conn' = conn /\ task[q].st # "prefixed"
         \/ CloseOf(q)
  PROVE  WireInv'
<1>1. /\ "prefixed" \notin Over /\ "idle" \notin Over
      /\ task[q].st # "idle" /\ task[q].st \notin Over
  BY DEF Over, InProgress
<1>2. conn' = conn \/ (Via[q] \in Conns /\ conn' = [conn EXCEPT ![Via[q]] = "closed"])
  BY ConnFacts DEF CloseOf
<1>3. FramesWhole' /\ WireType'
  BY <1>2 DEF WireInv, FramesWhole, WireType
<1>4. FromItsQueries'
  BY ChunkIs DEF WireInv, FromItsQueries
<1>5. InTurn'
  BY <1>1 DEF WireInv, InTurn
<1>6. ASSUME NEW p \in Queries, Via[p] # Udp, InProgress(p)' PROVE conn'[Via[p]] # "closed"
  <2>1. p # q /\ task'[p] = task[p]
    BY <1>6 DEF InProgress
  <2>2. InProgress(p) /\ Via[p] \in Conns
    BY <1>6, <2>1, ConnFacts DEF InProgress
  <2>3. Via[q] # Via[p]
    BY <1>6, <2>1, <2>2, OneInProgress
  <2>4. conn'[Via[p]] = conn[Via[p]]
    BY <1>2, <2>2, <2>3 DEF WireInv, WireType
  <2> QED BY <1>6, <2>2, <2>4 DEF WireInv, WhileOpen
<1>7. ASSUME NEW c \in Conns PROVE Between(c)'
  <2>0. Between(c)
    BY DEF WireInv
  <2>1. CASE conn' = conn /\ task[q].st # "prefixed"
    BY <2>0, <2>1 DEF Between
  <2>2. CASE Via[q] = Udp
    <3>1. conn' = conn /\ c # Via[q]
      BY <2>2, UdpIs DEF CloseOf
    <3> QED BY <2>0, <3>1 DEF Between
  <2>3. CASE Via[q] # Udp /\ CloseOf(q)
    <3>1. conn' = [conn EXCEPT ![Via[q]] = "closed"] /\ Via[q] \in Conns
      BY <2>3, ConnFacts DEF CloseOf
    <3>2. conn' [c] = "closed" \/ (c # Via[q] /\ conn'[c] = conn[c])
      BY <3>1 DEF WireInv, WireType
    <3> QED BY <2>0, <3>2 DEF Between
  <2> QED BY <2>1, <2>2, <2>3
<1>8. ASSUME NEW p \in Queries PROVE AfterLength(p)'
  <2>1. CASE p = q
    BY <1>1, <2>1 DEF AfterLength
  <2> QED BY <2>1, OthersAfterLength
<1> QED BY <1>3, <1>4, <1>5, <1>6, <1>7, <1>8 DEF WireInv, WhileOpen

\* Odd and even numbers alternate.
LEMMA Parity == Even(0) /\ \A n \in Nat : Even(n + 1) <=> ~Even(n)
<1>1. Even(0)
  BY DEF Even
<1>2. \A n \in Nat : Even(n + 1) <=> ~Even(n)
  BY DEF Even
<1> QED BY <1>1, <1>2

\* A sequence and what is appended to it.
LEMMA AppendIs ==
  ASSUME NEW w \in Seq(Chunk), NEW e \in Chunk
  PROVE  /\ Append(w, e) \in Seq(Chunk) /\ Len(w) \in Nat
         /\ DOMAIN w = 1..Len(w) /\ DOMAIN Append(w, e) = 1..(Len(w) + 1)
         /\ Len(Append(w, e)) = Len(w) + 1 /\ Append(w, e)[Len(w) + 1] = e
         /\ \A i \in 1..Len(w) : Append(w, e)[i] = w[i]
OBVIOUS

\* A length after whole frames.
LEMMA FramedLength ==
  ASSUME NEW w \in Seq(Chunk), Framed(w), Even(Len(w)), NEW e \in Chunk, e.part = "length",
         \A i \in 1..Len(w) : No[w[i].of] < No[e.of]
  PROVE  Framed(Append(w, e))
<1> DEFINE v == Append(w, e)
           n == Len(w)
<1>1. /\ n \in Nat /\ DOMAIN w = 1..n /\ DOMAIN v = 1..(n + 1) /\ v[n + 1] = e
      /\ \A i \in 1..n : v[i] = w[i]
  BY AppendIs
<1>2. n % 2 = 0
  BY DEF Even
<1>3. \A i \in 1..n : No[w[i].of] < No[e.of]
  OBVIOUS
<1> HIDE DEF v, n
<1>4. e.part = "length"
  OBVIOUS
<1>5. ASSUME NEW i \in 1..(n + 1)
      PROVE  FramedAt(v, i)
  <2>1. CASE i = n + 1
    <3>1. i % 2 = 1 /\ v[i] = e /\ \A j \in 1..(i - 1) : v[j] = w[j] /\ j \in 1..n
      BY <1>1, <1>2, <2>1
    <3> QED BY <1>3, <1>4, <3>1 DEF FramedAt
  <2>2. CASE i \in 1..n
    <3>1. v[i] = w[i] /\ \A j \in 1..(i - 1) : v[j] = w[j]
      BY <1>1, <2>2
    <3>2. FramedAt(w, i)
      BY <1>1, <2>2 DEF Framed
    <3>3. i % 2 # 1 => i - 1 \in 1..(i - 1)
      <4>1. 1 % 2 = 1
        OBVIOUS
      <4>2. i # 1 => i - 1 \in 1..(i - 1)
        BY <1>1, <2>2
      <4> QED BY <4>1, <4>2
    <3> QED BY <3>1, <3>2, <3>3 DEF FramedAt
  <2> QED BY <1>1, <2>1, <2>2
<1>6. Framed(v)
  BY <1>1, <1>5 DEF Framed
<1> QED BY <1>6 DEF v

\* A reply after its length.
LEMMA FramedReply ==
  ASSUME NEW w \in Seq(Chunk), Framed(w), ~Even(Len(w)), NEW e \in Chunk, e.part = "reply",
         w[Len(w)].of = e.of, w[Len(w)].n = as_u16(e.n)
  PROVE  Framed(Append(w, e))
<1> DEFINE v == Append(w, e)
           n == Len(w)
<1>1. /\ n \in Nat /\ DOMAIN w = 1..n /\ DOMAIN v = 1..(n + 1) /\ v[n + 1] = e
      /\ \A i \in 1..n : v[i] = w[i]
  BY AppendIs
<1>2. n % 2 # 0 /\ n \in 1..n
  BY <1>1 DEF Even
<1>3. e.n \in Nat /\ (e.n < U16 => as_u16(e.n) = e.n)
  <2>1. e.n \in Nat
    BY DEF Chunk
  <2> QED BY <2>1 DEF as_u16, U16
<1>4. w[n].of = e.of /\ w[n].n = as_u16(e.n)
  OBVIOUS
<1>5. e.part = "reply"
  OBVIOUS
<1> HIDE DEF v, n
<1>6. ASSUME NEW i \in 1..(n + 1)
      PROVE  FramedAt(v, i)
  <2>1. CASE i = n + 1
    <3>1. i % 2 # 1 /\ v[i] = e /\ v[i - 1] = w[n]
      BY <1>1, <1>2, <2>1
    <3> QED BY <1>3, <1>4, <1>5, <3>1 DEF FramedAt
  <2>2. CASE i \in 1..n
    <3>1. v[i] = w[i] /\ \A j \in 1..(i - 1) : v[j] = w[j]
      BY <1>1, <2>2
    <3>2. FramedAt(w, i)
      BY <1>1, <2>2 DEF Framed
    <3>3. i % 2 # 1 => i - 1 \in 1..(i - 1)
      <4>1. 1 % 2 = 1
        OBVIOUS
      <4>2. i # 1 => i - 1 \in 1..(i - 1)
        BY <1>1, <2>2
      <4> QED BY <4>1, <4>2
    <3> QED BY <3>1, <3>2, <3>3 DEF FramedAt
  <2> QED BY <1>1, <2>1, <2>2
<1>7. Framed(v)
  BY <1>1, <1>6 DEF Framed
<1> QED BY <1>7 DEF v

\* What q writes to its connection.
LEMMA WriteIs ==
  ASSUME WireInv, NEW q \in Queries, Via[q] # Udp, NEW part \in {"length", "reply"},
         NEW n \in Nat, Write(q, part, n)
  PROVE  /\ Via[q] \in Conns /\ wire[Via[q]] \in Seq(Chunk)
         /\ [part |-> part, of |-> q, n |-> n] \in Chunk
         /\ wire'[Via[q]] = Append(wire[Via[q]], [part |-> part, of |-> q, n |-> n])
         /\ wire' \in [Conns -> Seq(Chunk)]
         /\ \A c \in Conns \ {Via[q]} : wire'[c] = wire[c]
<1> DEFINE e == [part |-> part, of |-> q, n |-> n]
<1>1. e \in Chunk
  BY DEF Chunk
<1>2. Via[q] \in Conns /\ wire \in [Conns -> Seq(Chunk)]
  BY ConnFacts DEF WireInv, WireType
<1>3. wire' = [wire EXCEPT ![Via[q]] = Append(wire[Via[q]], e)]
  BY DEF Write
<1> HIDE DEF e
<1>4. Append(wire[Via[q]], e) \in Seq(Chunk)
  BY <1>1, <1>2, AppendIs
<1> QED BY <1>1, <1>2, <1>3, <1>4 DEF e

\* The length of a reply is a number.
LEMMA ReplySizeIs ==
  ASSUME ResolverInv, NEW q \in Queries, Replying(q)
  PROVE  ReplySize(q) \in Nat /\ as_u16(ReplySize(q)) \in Nat
<1>1. ServfailSize \in Nat
  BY ResolverAssumption, Zenon
<1>2. task[q].kind # "servfail" => task[q].body.data.size \in Nat
  BY TaskFacts DEF TaskOK, Replying, Body, Message
<1>3. ReplySize(q) \in Nat
  BY <1>1, <1>2 DEF ReplySize
<1> QED BY <1>3 DEF as_u16, U16

\* Either write of q: the parts of the invariant that do not count writes.
LEMMA WriteWire ==
  ASSUME ResolverInv, WireInv, NEW q \in Queries, \A p \in Queries \ {q} : task'[p] = task[p],
         InProgress(q), Via[q] # Udp, task'[q].st \in Over \cup {"prefixed"},
         task'[q].st \in Over \/ task[q].st = "sending",
         NEW part \in {"length", "reply"}, NEW n \in Nat, Write(q, part, n), conn' = conn
  PROVE  /\ WireType' /\ FromItsQueries' /\ InTurn' /\ WhileOpen'
         /\ \A c \in Conns \ {Via[q]} : Between(c)'
         /\ \A p \in Queries \ {q} : AfterLength(p)'
<1> DEFINE c == Via[q]
           e == [part |-> part, of |-> q, n |-> n]
<1>0. /\ "prefixed" \notin Over /\ "idle" \notin Over
      /\ task[q].st # "idle" /\ task[q].st \notin Over
  BY DEF Over, InProgress
<1>1. /\ c \in Conns /\ wire[c] \in Seq(Chunk) /\ e \in Chunk /\ wire'[c] = Append(wire[c], e)
      /\ wire' \in [Conns -> Seq(Chunk)] /\ \A d \in Conns \ {c} : wire'[d] = wire[d]
  BY WriteIs
<1>2. e.of = q
  OBVIOUS
<1> HIDE DEF c, e
<1>3. /\ Len(wire'[c]) = Len(wire[c]) + 1 /\ wire'[c][Len(wire[c]) + 1] = e /\ Len(wire[c]) \in Nat
      /\ \A i \in 1..Len(wire[c]) : wire'[c][i] = wire[c][i]
  BY <1>1, AppendIs
<1>4. WireType'
  BY <1>1 DEF WireInv, WireType
<1>5. ASSUME NEW d \in Conns, NEW i \in 1..Len(wire'[d])
      PROVE  Via[wire'[d][i].of] = d /\ task'[wire'[d][i].of].st \in Over \cup {"prefixed"}
  <2>1. CASE d = c /\ i = Len(wire[c]) + 1
    BY <1>2, <1>3, <2>1 DEF c
  <2>2. CASE ~(d = c /\ i = Len(wire[c]) + 1)
    <3>1. i \in 1..Len(wire[d]) /\ wire'[d][i] = wire[d][i]
      BY <1>1, <1>3, <2>2
    <3>2. wire[d][i].of \in Queries
      BY <3>1, ChunkIs
    <3> QED BY <3>1, <3>2 DEF WireInv, FromItsQueries
  <2> QED BY <2>1, <2>2
<1>6. InTurn'
  BY <1>0 DEF WireInv, InTurn
<1>7. WhileOpen'
  <2>1. conn[c] # "closed"
    BY DEF WireInv, WhileOpen, c
  <2> QED BY <2>1 DEF WireInv, WhileOpen, InProgress, c
<1>8. ASSUME NEW d \in Conns \ {c} PROVE Between(d)'
  BY <1>1, <1>8 DEF WireInv, Between, c
<1>9. ASSUME NEW p \in Queries \ {q} PROVE AfterLength(p)'
  <2>1. AfterLength(p) /\ task'[p] = task[p]
    BY DEF WireInv
  <2>2. CASE task[p].st # "prefixed"
    BY <2>1, <2>2 DEF AfterLength
  <2>3. CASE task[p].st = "prefixed"
    <3>1. InProgress(p) /\ Via[p] # Udp /\ Via[p] \in Conns
      BY <1>0, <2>1, <2>3, ConnFacts DEF InProgress, AfterLength
    <3>2. Via[p] # c
      BY <3>1, OneInProgress DEF c
    <3>3. wire'[Via[p]] = wire[Via[p]] /\ ReplySize(p)' = ReplySize(p)
      BY <1>1, <2>1, <3>1, <3>2 DEF ReplySize
    <3> QED BY <2>1, <3>3 DEF AfterLength
  <2> QED BY <2>2, <2>3
<1> QED BY <1>4, <1>5, <1>6, <1>7, <1>8, <1>9 DEF FromItsQueries, c

\* The length of a reply is written between two replies.
LEMMA WriteLengthWire ==
  ASSUME ResolverInv, WireInv, NEW q \in Queries, WriteLength(q)
  PROVE  WireInv'
<1> DEFINE c == Via[q]
           n == as_u16(ReplySize(q))
           e == [part |-> "length", of |-> q, n |-> n]
<1>1. /\ task[q].st = "sending" /\ c # Udp /\ Write(q, "length", n) /\ conn' = conn
      /\ task' = [task EXCEPT ![q].st = "prefixed"]
  BY DEF WriteLength
<1>2. /\ \A p \in Queries \ {q} : task'[p] = task[p]
      /\ task'[q].st = "prefixed" /\ ReplySize(q)' = ReplySize(q)
  BY <1>1, TaskFacts DEF Task, ReplySize
<1>3. InProgress(q) /\ "prefixed" \notin Over
  BY <1>1 DEF InProgress, Over
<1>4. n \in Nat
  BY <1>1, ReplySizeIs DEF Replying
<1> HIDE DEF n
<1>5. /\ WireType' /\ FromItsQueries' /\ InTurn' /\ WhileOpen'
      /\ \A d \in Conns \ {c} : Between(d)'
      /\ \A p \in Queries \ {q} : AfterLength(p)'
  BY <1>1, <1>2, <1>3, <1>4, WriteWire
<1>6. /\ c \in Conns /\ wire[c] \in Seq(Chunk) /\ e \in Chunk /\ wire'[c] = Append(wire[c], e)
      /\ \A d \in Conns \ {c} : wire'[d] = wire[d]
  BY <1>1, <1>4, WriteIs
<1>7. e.part = "length" /\ e.of = q /\ e.n = n
  OBVIOUS
<1> HIDE DEF e
<1>8. /\ Len(wire'[c]) = Len(wire[c]) + 1 /\ wire'[c][Len(wire[c]) + 1] = e /\ Len(wire[c]) \in Nat
  BY <1>6, AppendIs
<1>9. Even(Len(wire[c]))
  <2>1. conn[c] # "closed"
    BY <1>1, <1>3 DEF WireInv, WhileOpen
  <2>2. ASSUME NEW p \in Queries, Via[p] = c PROVE task[p].st # "prefixed"
    <3>1. CASE p = q
      BY <1>1, <3>1
    <3>2. CASE p # q
      <4>1. ~InProgress(p)
        BY <1>1, <1>3, <2>2, <3>2, OneInProgress
      <4> QED BY <1>3, <4>1 DEF InProgress
    <3> QED BY <3>1, <3>2
  <2> QED BY <1>6, <2>1, <2>2 DEF WireInv, Between
<1>10. ~Even(Len(wire'[c]))
  BY <1>8, <1>9, Parity
<1>11. \A i \in 1..Len(wire[c]) : No[wire[c][i].of] < No[e.of]
  <2> TAKE i \in 1..Len(wire[c])
  <2> DEFINE p == wire[c][i].of
  <2>1. p \in Queries /\ Via[p] = c /\ task[p].st \in Over \cup {"prefixed"}
    BY <1>6, ChunkIs DEF WireInv, FromItsQueries
  <2>2. p # q /\ task[p].st # "idle"
    BY <1>1, <2>1 DEF Over
  <2> HIDE DEF p
  <2>3. No[p] < No[q]
    BY <1>1, <1>3, <2>1, <2>2, OneInProgress
  <2> QED BY <1>7, <2>3 DEF p
<1>12. Framed(wire'[c])
  <2>1. Framed(wire[c])
    BY <1>6 DEF WireInv, FramesWhole
  <2> QED BY <1>6, <1>7, <1>9, <1>11, <2>1, FramedLength
<1>13. FramesWhole'
  BY <1>6, <1>12 DEF WireInv, FramesWhole
<1>14. Between(c)'
  BY <1>2 DEF Between
<1>15. AfterLength(q)'
  BY <1>1, <1>2, <1>7, <1>8, <1>10 DEF AfterLength, n
<1> QED BY <1>5, <1>13, <1>14, <1>15 DEF WireInv

\* The reply is written after its length.
LEMMA WriteReplyWire ==
  ASSUME ResolverInv, WireInv, NEW q \in Queries, WriteReply(q)
  PROVE  WireInv'
<1> DEFINE c == Via[q]
           n == ReplySize(q)
           e == [part |-> "reply", of |-> q, n |-> n]
<1>1. /\ task[q].st = "prefixed" /\ Write(q, "reply", n) /\ conn' = conn
      /\ task' = [task EXCEPT ![q] = Ended(q, "sent")]
  BY DEF WriteReply
<1>2. /\ \A p \in Queries \ {q} : task'[p] = task[p]
      /\ task'[q].st = "sent" /\ "sent" \in Over
  <2>1. Ended(q, "sent").st = "sent"
    BY EndedIs DEF Over
  <2> QED BY <1>1, <2>1, TaskFacts DEF Over
<1>3. InProgress(q) /\ "prefixed" \notin Over
  BY <1>1 DEF InProgress, Over
<1>4. /\ c # Udp /\ ~Even(Len(wire[c])) /\ wire[c][Len(wire[c])].of = q
      /\ wire[c][Len(wire[c])].n = as_u16(n)
  BY <1>1 DEF WireInv, AfterLength
<1>5. n \in Nat
  BY <1>1, ReplySizeIs DEF Replying
<1> HIDE DEF n
<1>6. /\ WireType' /\ FromItsQueries' /\ InTurn' /\ WhileOpen'
      /\ \A d \in Conns \ {c} : Between(d)'
      /\ \A p \in Queries \ {q} : AfterLength(p)'
  BY <1>1, <1>2, <1>3, <1>4, <1>5, WriteWire
<1>7. /\ c \in Conns /\ wire[c] \in Seq(Chunk) /\ e \in Chunk /\ wire'[c] = Append(wire[c], e)
      /\ \A d \in Conns \ {c} : wire'[d] = wire[d]
  BY <1>1, <1>4, <1>5, WriteIs
<1>8. e.part = "reply" /\ e.of = q /\ e.n = n
  OBVIOUS
<1> HIDE DEF e
<1>9. Len(wire'[c]) = Len(wire[c]) + 1 /\ Len(wire[c]) \in Nat
  BY <1>7, AppendIs
<1>10. Even(Len(wire'[c]))
  BY <1>4, <1>9, Parity
<1>11. Framed(wire'[c])
  <2>1. Framed(wire[c])
    BY <1>7 DEF WireInv, FramesWhole
  <2> QED BY <1>4, <1>7, <1>8, <2>1, FramedReply
<1>12. FramesWhole'
  BY <1>7, <1>11 DEF WireInv, FramesWhole
<1>13. Between(c)'
  BY <1>10 DEF Between
<1>14. AfterLength(q)'
  BY <1>2, <1>3 DEF AfterLength
<1> QED BY <1>6, <1>12, <1>13, <1>14 DEF WireInv

\* A connection is closed by its client, or left when nothing is in progress on it.
LEMMA CloseWire ==
  ASSUME ResolverInv, WireInv, NEW c \in Conns, ClientClose(c) \/ ReadEof(c)
  PROVE  WireInv'
<1>1. /\ task' = task /\ wire' = wire
      /\ \/ conn[c] = "open" /\ conn' = [conn EXCEPT ![c] = "eof"]
         \/ /\ conn' = [conn EXCEPT ![c] = "closed"]
            /\ \A q \in Queries : Via[q] = c => ~InProgress(q)
  BY DEF ClientClose, ReadEof, outVars
<1>2. WireType'
  BY <1>1 DEF WireInv, WireType
<1>3. \A d \in Conns \ {c} : conn'[d] = conn[d]
  BY <1>1 DEF WireInv, WireType
<1>4. conn'[c] = "closed" \/ (conn[c] # "closed" /\ conn'[c] # "closed")
  BY <1>1 DEF WireInv, WireType
<1>5. WhileOpen'
  <2> SUFFICES ASSUME NEW q \in Queries, Via[q] # Udp, InProgress(q)
               PROVE  conn'[Via[q]] # "closed"
    BY <1>1 DEF WhileOpen, InProgress
  <2>1. Via[q] \in Conns /\ conn[Via[q]] # "closed"
    BY ConnFacts DEF WireInv, WhileOpen
  <2> QED BY <1>1, <1>3, <2>1 DEF WireInv, WireType
<1>6. ASSUME NEW d \in Conns PROVE Between(d)'
  BY <1>1, <1>3, <1>4 DEF WireInv, Between
<1>7. \A p \in Queries : AfterLength(p)'
  BY <1>1, OthersAfterLength
<1> QED BY <1>1, <1>2, <1>5, <1>6, <1>7 DEF WireInv, FramesWhole, FromItsQueries, InTurn

\* Every step of the server keeps its connections framed.
LEMMA NextWire ==
  ASSUME ResolverInv, ResolverInv', WireInv, [Next]_vars
  PROVE  WireInv'
<1>1. ASSUME NEW q \in Queries, Receive(q)
      PROVE  WireInv'
  <2>1. PICK wf \in BOOLEAN, key \in Keys \cup {NoKey} :
          task' = [task EXCEPT ![q].st = "received", ![q].wf = wf, ![q].key = key]
    BY <1>1 DEF Receive
  <2>2. (\A p \in Queries \ {q} : task'[p] = task[p]) /\ task'[q].st = "received"
    BY <2>1, TaskFacts DEF Task
  <2> QED BY <1>1, <2>2, ReceiveWire DEF Receive, outVars
<1>2. ASSUME NEW q \in Queries,
             \/ ResolveMalformed(q) \/ ResolveHit(q) \/ ResolveMiss(q) \/ Store(q) \/ LogLine(q)
             \/ UpstreamFail(q) \/ \E r \in Responses : UpstreamAnswer(q, r)
      PROVE  WireInv'
  <2>1. \A p \in Queries \ {q} : task'[p] = task[p]
    BY <1>2, TaskFacts DEF ResolveMalformed, ResolveHit, ResolveMiss, Store, LogLine,
                           UpstreamFail, UpstreamAnswer
  <2>2. /\ task[q].st \in Before /\ task'[q].st \in Before \cup {"sending"}
        /\ conn' = conn /\ wire' = wire
    BY <1>2, TaskFacts DEF ResolveMalformed, ResolveHit, ResolveMiss, Store, LogLine,
                           UpstreamFail, UpstreamAnswer, Task, Before, outVars
  <2>3. InProgress(q) /\ InProgress(q)' /\ task[q].st # "prefixed" /\ task'[q].st # "prefixed"
    BY <2>2 DEF InProgress, Before, Over
  <2> QED BY <2>1, <2>2, <2>3, QuietWire
<1>3. ASSUME NEW q \in Queries, BodyCollected(q) \/ Fail(q)
      PROVE  WireInv'
  <2>1. task[q].st \in {"answered", "failed"} /\ wire' = wire
    BY <1>3 DEF BodyCollected, Fail, outVars
  <2>2. InProgress(q) /\ task[q].st # "prefixed"
    BY <2>1 DEF InProgress, Over
  <2>3. ASSUME NEW to \in {"fetched", "replying"}, conn' = conn, task'[q].st = to,
               \A p \in Queries \ {q} : task'[p] = task[p]
        PROVE  WireInv'
    <3>1. InProgress(q)' /\ task'[q].st # "prefixed"
      BY <2>3 DEF InProgress, Over
    <3> QED BY <2>1, <2>2, <2>3, <3>1, QuietWire
  <2>4. ASSUME NEW how \in {"panicked", "dropped"}, CloseOf(q),
               task' = [task EXCEPT ![q] = Ended(q, how)]
        PROVE  WireInv'
    <3>1. how \in Over
      BY DEF Over
    <3>2. task'[q].st \in Over /\ \A p \in Queries \ {q} : task'[p] = task[p]
      BY <2>4, <3>1, EndedIs, TaskFacts
    <3> QED BY <2>1, <2>2, <2>4, <3>2, EndWire
  <2>5. CASE conn' = conn /\ task' = [task EXCEPT ![q].st = "fetched", ![q].at = now]
    <3>1. task'[q].st = "fetched" /\ \A p \in Queries \ {q} : task'[p] = task[p]
      BY <2>5, TaskFacts DEF Task
    <3> QED BY <2>3, <2>5, <3>1
  <2>6. CASE conn' = conn /\ task' = [task EXCEPT ![q].st = "replying", ![q].kind = "servfail"]
    <3>1. task'[q].st = "replying" /\ \A p \in Queries \ {q} : task'[p] = task[p]
      BY <2>6, TaskFacts DEF Task
    <3> QED BY <2>3, <2>6, <3>1
  <2> QED BY <1>3, <2>4, <2>5, <2>6 DEF BodyCollected, Fail
<1>4. ASSUME NEW q \in Queries, Send(q) \/ SendError(q) \/ WriteError(q)
      PROVE  WireInv'
  <2>1. /\ task[q].st \in {"sending", "prefixed"} /\ wire' = wire
        /\ (conn' = conn /\ task[q].st # "prefixed") \/ CloseOf(q)
        /\ \E how \in {"sent", "lost"} : task' = [task EXCEPT ![q] = Ended(q, how)]
    BY <1>4 DEF Send, SendError, WriteError, outVars
  <2>2. {"sent", "lost"} \subseteq Over /\ InProgress(q)
    BY <2>1 DEF InProgress, Over
  <2>3. task'[q].st \in Over /\ \A p \in Queries \ {q} : task'[p] = task[p]
    BY <2>1, <2>2, EndedIs, TaskFacts
  <2> QED BY <2>1, <2>2, <2>3, EndWire
<1>5. CASE UNCHANGED <<task, conn, wire>>
  <2>1. \A p \in Queries : AfterLength(p)'
    BY <1>5, OthersAfterLength
  <2> QED BY <1>5, <2>1 DEF WireInv, WireType, FramesWhole, FromItsQueries, InTurn, WhileOpen,
                            InProgress, Between
<1> QED BY <1>1, <1>2, <1>3, <1>4, <1>5, WriteLengthWire, WriteReplyWire, CloseWire
        DEF Next, Step, TcpWrite, Clock, vars, outVars

\* A TCP client can cut what it reads into replies (server.rs:278-280): for any number
\* of connections and queries, and wherever a client closes or a write fails.
THEOREM FramesAreWhole == Spec => []FramesWhole
<1>1. Init => WireInv
  <2> SUFFICES ASSUME Init PROVE WireInv
    OBVIOUS
  <2>1. \A c \in Conns : wire[c] = <<>> /\ Len(wire[c]) = 0 /\ conn[c] = "open"
    BY DEF Init
  <2>2. \A q \in Queries : task[q].st = "idle"
    BY DEF Init
  <2>3. WireType
    BY DEF Init, WireType
  <2>4. FramesWhole
    BY <2>1 DEF FramesWhole, Framed
  <2>5. \A c \in Conns : Between(c)
    BY <2>1, Parity DEF Between
  <2> QED BY <2>1, <2>2, <2>3, <2>4, <2>5
          DEF WireInv, FromItsQueries, InTurn, WhileOpen, InProgress, AfterLength
<1>2. ResolverInv /\ ResolverInv' /\ WireInv /\ [Next]_vars => WireInv'
  BY NextWire
<1>3. WireInv => FramesWhole
  BY DEF WireInv
<1> QED BY <1>1, <1>2, <1>3, ResolverInvariant, PTL DEF Spec
-----------------------------------------------------------------------------
(* The service, when min_ttl <= max_ttl: no task panics *)

Out == {"sending", "prefixed", "sent", "lost"}

\* A task t with n lines in the query log: logged once at most and only on the way
\* out, and only a query that does not parse is dropped.
ServiceOK(t, n) ==
  /\ n \in {0, 1} /\ (t.st \notin Out => n = 0)
  /\ t.st \in {"asked", "answered", "fetched", "replying"} \cup Out => t.wf
  /\ t.st = "dropped" => ~t.wf
  /\ t.st # "panicked"

ServiceInv ==
  /\ task \in [Queries -> Task] /\ log \in [Queries -> Nat]
  /\ \A q \in Queries : ServiceOK(task[q], log[q])

\* What is seen of such a task.
SeenOf(t) ==
  CASE t.st = "idle" -> "idle"
    [] t.st \in Before -> IF t.wf THEN "pending" ELSE "bad"
    [] t.st \in {"sending", "prefixed"} -> "ready"
    [] t.st = "sent" -> "replied"
    [] t.st = "lost" -> "lost"
    [] t.st = "dropped" -> "ignored"

\* How DnsService sees the queries ...
LEMMA SeenIs ==
  ASSUME ServiceInv, NEW q \in Queries
  PROVE  Seen(q) = SeenOf(task[q])
BY DEF ServiceInv, ServiceOK, Task, Stages, Before, Out, Over, InProgress, Seen, SeenOf

\* ... and after a step.
LEMMA SeenIsNext ==
  ASSUME ServiceInv', NEW q \in Queries
  PROVE  Seen(q)' = SeenOf(task'[q])
BY DEF ServiceInv, ServiceOK, Task, Stages, Before, Out, Over, InProgress, Seen, SeenOf

Moves ==
  { <<"idle", "pending">>, <<"idle", "bad">>,
    <<"ready", "replied">>, <<"ready", "lost">>, <<"bad", "ignored">> }

seen == [q \in Queries |-> Seen(q)]

\* A step of task q that leaves the others alone.
LEMMA ServiceStep ==
  ASSUME ServiceInv, NEW q \in Queries, task' \in [Queries -> Task], log' \in [Queries -> Nat],
         \A p \in Queries \ {q} : task'[p] = task[p] /\ log'[p] = log[p],
         ServiceOK(task'[q], log'[q]),
         \/ log' = log /\ SeenOf(task[q]) = SeenOf(task'[q])
         \/ log' = log /\ <<SeenOf(task[q]), SeenOf(task'[q])>> \in Moves
         \/ /\ log' = log \/ log' = [log EXCEPT ![q] = 1]
            /\ SeenOf(task[q]) = "pending" /\ SeenOf(task'[q]) = "ready"
  PROVE  ServiceInv' /\ [Service!Next]_<<seen, log>>
<1> DEFINE t == task'[q]
<1>1. \A p \in Queries \ {q} : task'[p] = task[p]
  OBVIOUS
<1>2. ServiceInv'
  BY <1>1 DEF ServiceInv
<1>3. \A p \in Queries : Seen(p) = SeenOf(task[p]) /\ Seen(p)' = SeenOf(task'[p])
  BY <1>2, SeenIs, SeenIsNext
<1>4. seen' = [seen EXCEPT ![q] = SeenOf(t)] /\ seen[q] = SeenOf(task[q])
  <2>1. \A p \in Queries \ {q} : Seen(p)' = Seen(p)
    BY <1>1, <1>3
  <2>2. Seen(q)' = SeenOf(t) /\ Seen(q) = SeenOf(task[q])
    BY <1>3
  <2> QED BY <2>1, <2>2 DEF seen
<1>5. CASE log' = log /\ SeenOf(task[q]) = SeenOf(t)
  <2>1. \A p \in Queries : Seen(p)' = Seen(p)
    BY <1>1, <1>3, <1>5
  <2>2. seen' = seen
    BY <2>1 DEF seen
  <2> QED BY <1>2, <1>5, <2>2
<1>6. CASE log' = log /\ <<SeenOf(task[q]), SeenOf(t)>> \in Moves
  <2> DEFINE a == SeenOf(task[q])
             b == SeenOf(t)
  <2>1. Service!Move(q, a, b)
    BY <1>4 DEF Service!Move, seen
  <2>2. \/ a = "idle" /\ b \in {"pending", "bad"}
        \/ a = "ready" /\ b \in {"replied", "lost"}
        \/ a = "bad" /\ b = "ignored"
    BY <1>6 DEF Moves
  <2> HIDE DEF a, b
  <2>3. \/ Service!Take(q) \/ Service!TakeBad(q)
        \/ Service!Reply(q) \/ Service!Lose(q) \/ Service!Ignore(q)
    BY <1>6, <2>1, <2>2 DEF Service!Quiet, Service!Take, Service!TakeBad, Service!Reply,
                            Service!Lose, Service!Ignore
  <2> QED BY <1>2, <2>3 DEF Service!Next
<1>7. CASE /\ log' = log \/ log' = [log EXCEPT ![q] = 1]
           /\ SeenOf(task[q]) = "pending" /\ SeenOf(t) = "ready"
  <2>1. Service!Move(q, "pending", "ready")
    BY <1>4, <1>7 DEF Service!Move, seen
  <2>2. Service!Ready(q)
    BY <1>7, <2>1 DEF Service!Ready
  <2> QED BY <1>2, <2>2 DEF Service!Next
<1> QED BY <1>2, <1>5, <1>6, <1>7

\* A step of task q that its client cannot see.
LEMMA QuietStep ==
  ASSUME ServiceInv, NEW q \in Queries, task' \in [Queries -> Task], log' = log,
         \A p \in Queries \ {q} : task'[p] = task[p],
         task[q].st \in Before, task'[q].st \in Before, task'[q].wf = task[q].wf,
         task'[q].st \in {"received", "failed"} \/ task[q].wf
  PROVE  ServiceInv' /\ [Service!Next]_<<seen, log>>
<1>1. ServiceOK(task[q], log[q]) /\ log \in [Queries -> Nat]
  BY DEF ServiceInv
<1>2. ServiceOK(task'[q], log'[q])
  BY <1>1 DEF ServiceOK, Before, Out
<1>3. SeenOf(task[q]) = SeenOf(task'[q])
  BY DEF SeenOf, Before
<1> QED BY <1>1, <1>2, <1>3, ServiceStep

\* Every step of a task is one of the service, or none.
LEMMA TaskServes ==
  ASSUME ~PutPanics, ResolverInv, ResolverInv', ServiceInv, NEW q \in Queries,
         \/ Receive(q) \/ Step(q) \/ TcpWrite(q) \/ UpstreamFail(q) \/ BodyCollected(q)
         \/ \E r \in Responses : UpstreamAnswer(q, r)
  PROVE  ServiceInv' /\ [Service!Next]_<<seen, log>>
<1>1. task \in [Queries -> Task] /\ task' \in [Queries -> Task] /\ task[q] \in Task
  BY DEF ResolverInv
<1>2. \A p \in Queries \ {q} : task'[p] = task[p]
  <2>1. CASE Receive(q) \/ UpstreamFail(q) \/ BodyCollected(q)
             \/ \E r \in Responses : UpstreamAnswer(q, r)
    BY <1>1, <2>1 DEF Receive, UpstreamFail, BodyCollected, UpstreamAnswer
  <2>2. CASE Step(q)
    BY <1>1, <2>2 DEF Step, ResolveMalformed, ResolveHit, ResolveMiss, Store, Fail, LogLine,
                      Send, SendError
  <2>3. CASE TcpWrite(q)
    BY <1>1, <2>3 DEF TcpWrite, WriteLength, WriteReply, WriteError
  <2> QED BY <2>1, <2>2, <2>3
<1>3. ServiceOK(task[q], log[q]) /\ log \in [Queries -> Nat]
  BY DEF ServiceInv
<1>4. CASE Receive(q)
  <2>1. task[q].st = "idle" /\ task'[q].st = "received" /\ task'[q].wf \in BOOLEAN /\ log' = log
    <3>1. task[q].st = "idle" /\ log' = log
      BY <1>4 DEF Receive, outVars
    <3>2. task'[q].st = "received"
      <4>1. PICK wf \in BOOLEAN, key \in Keys \cup {NoKey} :
              task' = [task EXCEPT ![q].st = "received", ![q].wf = wf, ![q].key = key]
        BY <1>4 DEF Receive
      <4> QED BY <1>1, <4>1 DEF Task
    <3>3. task'[q].wf \in BOOLEAN
      BY <1>1 DEF Task
    <3> QED BY <3>1, <3>2, <3>3
  <2>2. ServiceOK(task'[q], log'[q])
    BY <1>3, <2>1 DEF ServiceOK, Out
  <2>3. SeenOf(task[q]) = "idle" /\ SeenOf(task'[q]) \in {"pending", "bad"}
    BY <2>1 DEF SeenOf, Before
  <2>4. <<SeenOf(task[q]), SeenOf(task'[q])>> \in Moves
    BY <2>3 DEF Moves
  <2> QED BY <1>1, <1>2, <1>3, <2>1, <2>2, <2>4, ServiceStep
<1>5. CASE ResolveMalformed(q) \/ ResolveHit(q) \/ ResolveMiss(q) \/ Store(q) \/ UpstreamFail(q)
           \/ \E r \in Responses : UpstreamAnswer(q, r)
  <2>1. task[q].st \in Before /\ task'[q].st \in Before /\ task'[q].wf = task[q].wf /\ log' = log
    BY <1>1, <1>5 DEF ResolveMalformed, ResolveHit, ResolveMiss, Store, UpstreamFail,
                      UpstreamAnswer, Task, Before, outVars
  <2>2. task'[q].st = "failed" \/ task[q].wf
    BY <1>1, <1>3, <1>5 DEF ResolveMalformed, ResolveHit, ResolveMiss, Store, UpstreamFail,
                      UpstreamAnswer, Task, ServiceOK
  <2> QED BY <1>1, <1>2, <2>1, <2>2, QuietStep
<1>6. CASE BodyCollected(q)
  <2>1. /\ task[q].st = "answered" /\ task'[q].st = "fetched" /\ task'[q].wf = task[q].wf
        /\ log' = log
    BY <1>1, <1>6 DEF BodyCollected, Task, outVars
  <2>2. task[q].wf
    BY <1>3, <2>1 DEF ServiceOK
  <2> QED BY <1>1, <1>2, <2>1, <2>2, QuietStep DEF Before
<1>7. CASE Fail(q) /\ task[q].wf
  <2>1. /\ task[q].st = "failed" /\ task'[q].st = "replying" /\ task'[q].wf = task[q].wf
        /\ log' = log
    <3>1. task[q].st = "failed" /\ log' = log
          /\ task' = [task EXCEPT ![q].st = "replying", ![q].kind = "servfail"]
      BY <1>7 DEF Fail, outVars
    <3> QED BY <1>1, <3>1 DEF Task
  <2> QED BY <1>1, <1>2, <1>7, <2>1, QuietStep DEF Before
<1>8. CASE Fail(q) /\ ~task[q].wf
  <2>1. /\ task[q].st = "failed" /\ task'[q].st = "dropped" /\ task'[q].wf = task[q].wf
        /\ log' = log
    <3>1. task[q].st = "failed" /\ log' = log /\ task' = [task EXCEPT ![q] = Ended(q, "dropped")]
      BY <1>8 DEF Fail, outVars
    <3> QED BY <1>1, <3>1 DEF Task, Ended
  <2>2. ServiceOK(task'[q], log'[q])
    BY <1>3, <1>8, <2>1 DEF ServiceOK, Out
  <2>3. SeenOf(task[q]) = "bad" /\ SeenOf(task'[q]) = "ignored"
    BY <1>8, <2>1 DEF SeenOf, Before
  <2>4. <<SeenOf(task[q]), SeenOf(task'[q])>> \in Moves
    BY <2>3 DEF Moves
  <2> QED BY <1>1, <1>2, <1>3, <2>1, <2>2, <2>4, ServiceStep
<1>9. CASE LogLine(q)
  <2>1. /\ task[q].st = "replying" /\ task'[q].st = "sending" /\ task'[q].wf = task[q].wf
    BY <1>1, <1>9 DEF LogLine, Task
  <2>2. log[q] = 0 /\ task[q].wf
    BY <1>3, <2>1 DEF ServiceOK, Out
  <2>3. log' = log \/ log' = [log EXCEPT ![q] = 1]
    BY <1>9, <2>2 DEF LogLine
  <2>4. /\ log' \in [Queries -> Nat] /\ log'[q] \in {0, 1}
        /\ \A p \in Queries \ {q} : log'[p] = log[p]
    BY <1>3, <2>2, <2>3
  <2>5. ServiceOK(task'[q], log'[q])
    BY <2>1, <2>2, <2>4 DEF ServiceOK, Out
  <2>6. SeenOf(task[q]) = "pending" /\ SeenOf(task'[q]) = "ready"
    BY <2>1, <2>2 DEF SeenOf, Before
  <2> QED BY <1>1, <1>2, <2>3, <2>4, <2>5, <2>6, ServiceStep
<1>10. CASE Send(q) \/ SendError(q) \/ WriteReply(q) \/ WriteError(q)
  <2>1. /\ task[q].st \in {"sending", "prefixed"} /\ task'[q].st \in {"sent", "lost"}
        /\ task'[q].wf = task[q].wf /\ log' = log
    <3>1. /\ task[q].st \in {"sending", "prefixed"} /\ log' = log
          /\ \E how \in {"sent", "lost"} : task' = [task EXCEPT ![q] = Ended(q, how)]
      BY <1>10 DEF Send, SendError, WriteReply, WriteError, outVars
    <3> QED BY <1>1, <3>1 DEF Task, Ended
  <2>2. ServiceOK(task'[q], log'[q])
    BY <1>3, <2>1 DEF ServiceOK, Out
  <2>3. SeenOf(task[q]) = "ready" /\ SeenOf(task'[q]) \in {"replied", "lost"}
    BY <2>1 DEF SeenOf, Before
  <2>4. <<SeenOf(task[q]), SeenOf(task'[q])>> \in Moves
    BY <2>3 DEF Moves
  <2> QED BY <1>1, <1>2, <1>3, <2>1, <2>2, <2>4, ServiceStep
<1>11. CASE WriteLength(q)
  <2>1. /\ task[q].st = "sending" /\ task'[q].st = "prefixed"
        /\ task'[q].wf = task[q].wf /\ log' = log
    BY <1>1, <1>11 DEF WriteLength, Task
  <2>2. ServiceOK(task'[q], log'[q])
    BY <1>3, <2>1 DEF ServiceOK, Out
  <2>3. SeenOf(task[q]) = "ready" /\ SeenOf(task'[q]) = "ready"
    BY <2>1 DEF SeenOf, Before
  <2> QED BY <1>1, <1>2, <1>3, <2>1, <2>2, <2>3, ServiceStep
<1> QED BY <1>4, <1>5, <1>6, <1>7, <1>8, <1>9, <1>10, <1>11 DEF Step, TcpWrite

\* What every client can rely on, unless puts panic (server.rs, doh.rs): a query that
\* parses is taken once, has at most one line in the log, written before any of its
\* reply, and is answered or lost with its client; one that does not parse is ignored.
THEOREM ServerImplementsService ==
  ASSUME ~PutPanics
  PROVE  Spec => ImplementsService
<1>1. Init => ServiceInv /\ Service!Init
  <2> SUFFICES ASSUME Init PROVE ServiceInv /\ Service!Init
    OBVIOUS
  <2>1. \A q \in Queries : task[q].st = "idle" /\ log[q] = 0
    BY DEF Init
  <2>2. ServiceInv
    BY <2>1, StartInv DEF Init, ResolverInv, ServiceInv, ServiceOK, Out
  <2>3. \A q \in Queries : Seen(q) = "idle"
    BY <2>1, <2>2, SeenIs DEF SeenOf, Before
  <2> QED BY <2>2, <2>3 DEF Init, Service!Init
<1>2. ResolverInv /\ ResolverInv' /\ ServiceInv /\ [Next]_vars
        => ServiceInv' /\ [Service!Next]_<<seen, log>>
  <2> SUFFICES ASSUME ResolverInv, ResolverInv', ServiceInv, [Next]_vars
               PROVE  ServiceInv' /\ [Service!Next]_<<seen, log>>
    OBVIOUS
  <2>1. CASE UNCHANGED <<task, log>>
    <3>1. ServiceInv'
      BY <2>1 DEF ServiceInv
    <3>2. \A p \in Queries : Seen(p)' = Seen(p)
      BY <2>1 DEF Seen, InProgress
    <3>3. seen' = seen
      BY <3>2 DEF seen
    <3> QED BY <2>1, <3>1, <3>3
  <2> QED BY <2>1, TaskServes DEF Next, Clock, ClientClose, ReadEof, vars, outVars
<1> QED BY <1>1, <1>2, ResolverInvariant, PTL
        DEF Spec, ImplementsService, Service!Spec, Service!svars, seen
=============================================================================
