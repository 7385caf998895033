---------------------------- MODULE DnsCacheUse ----------------------------
(***************************************************************************)
(* DnsCache with a history of uses, to state what "least recently used"    *)
(* promises a name without looking at the order the cache keeps.           *)
(***************************************************************************)
EXTENDS DnsCache

VARIABLES
  stored,  \* keys stored and not yet found expired
  since    \* since[k]: the other keys used since k was last used

useVars == <<cache, older, now, stored, since>>

Use(k) == since' = [j \in Keys |-> IF j = k THEN {} ELSE since[j] \cup {k}]

UseHit(k) == GetHit(k) /\ Use(k) /\ UNCHANGED stored

UseMiss(k) == GetMiss(k) /\ stored' = stored \ {k} /\ UNCHANGED since

UsePut(k, r, at) == put(k, r, at) /\ Use(k) /\ stored' = stored \cup {k}

UseTick == Tick /\ UNCHANGED <<stored, since>>

UseInit ==
  /\ CacheInit
  /\ stored = {}
  /\ since = [k \in Keys |-> {}]

UseNext ==
  \/ \E k \in Keys : UseHit(k) \/ UseMiss(k)
  \/ \E k \in Keys, r \in Responses, at \in 0..now : UsePut(k, r, at)
  \/ UseTick

UseSpec == UseInit /\ [][UseNext]_useVars
-----------------------------------------------------------------------------
\* A stored answer that was not found expired is still cached as long as fewer
\* other names than the capacity were used since its own last use (cache.rs get
\* and put both make the entry the most recent one).
RecentlyUsedKept ==
  \A k \in stored : Cardinality(since[k]) < Cap => k \in Present
=============================================================================
