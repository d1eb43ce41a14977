----------------------------- MODULE ResultCache -----------------------------
(***************************************************************************)
(* ResultCacheManager (src/app/services/result_cache_manager.py): results  *)
(* of completed jobs, with a time to live and a size limit.  Like the job  *)
(* manager, its methods hold a lock over code that never awaits, so each   *)
(* is an operator on the cache, a function from the cached identifiers to  *)
(* [results, cached_at].                                                   *)
(***************************************************************************)
EXTENDS Integers, FiniteSets, Functions

CONSTANTS CacheTTL,   \* async_batch_cache_ttl_seconds
          CacheMax    \* async_batch_result_cache_max_size

ASSUME CacheAssumption == CacheTTL \in Nat \ {0} /\ CacheMax \in Nat \ {0}

EmptyCache == [j \in {} |-> 0]

\* An entry lives for strictly less than the TTL.
Fresh(cache, now) == {j \in DOMAIN cache : now - cache[j].cached_at < CacheTTL}

\* Fault: the limit is enforced without room for the entry to come.
OldestNoRoom(cache, kept) ==
    {old \in SUBSET kept :
        /\ Cardinality(old) = IF Cardinality(kept) <= CacheMax THEN 0
                              ELSE Cardinality(kept) - CacheMax
        /\ \A i \in old, k \in kept \ old : cache[i].cached_at <= cache[k].cached_at}

\* The sets _enforce_cache_size_limit may remove among the identifiers `kept`: as
\* many of the oldest as make room for one more.  Entries of the same age are
\* removed in insertion order by the code, in any order here.
Oldest(cache, kept) ==
    LET surplus == IF Cardinality(kept) < CacheMax THEN 0
                   ELSE Cardinality(kept) - CacheMax + 1
    IN  {old \in SUBSET kept :
            /\ Cardinality(old) = surplus
            /\ \A i \in old, k \in kept \ old : cache[i].cached_at <= cache[k].cached_at}

\* cache_result: drop the expired, make room, and only then look whether the job
\* is cached already.
CacheResult(cache, j, results, now) ==
    {LET room == Restrict(cache, Fresh(cache, now) \ old)
     IN  IF j \in DOMAIN room THEN room
         ELSE [k \in DOMAIN room \cup {j} |->
                 IF k = j THEN [results |-> results, cached_at |-> now] ELSE room[k]]
     : old \in Oldest(cache, Fresh(cache, now))}

\* get_cached_result: what it returns a hit for, and the entry it deletes.
CacheHit(cache, j, now) == j \in Fresh(cache, now)

AfterLookup(cache, j, now) ==
    IF j \in DOMAIN cache /\ ~CacheHit(cache, j, now)
    THEN Restrict(cache, DOMAIN cache \ {j})
    ELSE cache
=============================================================================
