----------------------------- MODULE SieveCache -----------------------------
(***************************************************************************)
(* The token cache as a state machine: any sequence of gets and puts, one  *)
(* at a time as jwtCache.mu makes them.                                    *)
(***************************************************************************)
EXTENDS SieveOps

CONSTANTS Keys, Values, Capacity

ASSUME SieveAssumption == Nil \notin Keys /\ Capacity \in Int

VARIABLE cache

Init      == cache = EmptyCache
Get(k)    == cache' = GetOp(cache, k)
Put(k, v) == cache' = PutOp(cache, k, v, Capacity)
Next == \E k \in Keys : Get(k) \/ \E v \in Values : Put(k, v)
Spec == Init /\ [][Next]_cache

-----------------------------------------------------------------------------
\* The structure never breaks, whatever sequence of gets and puts: the hand
\* survives the removal of its own entry and the size keeps to the capacity.
CacheInv == WellFormed(cache, Keys, Values, Capacity)

\* Eviction spares what was used: an entry that carries its visited bit is
\* evicted only when every entry does ("A hit sets the entry's visited bit ...
\* removes the first unvisited entry it finds").
VisitedSpared ==
    [][\A k \in KeysOf(cache) \ KeysOf(cache') :
          k \in cache.visited => KeysOf(cache) = cache.visited]_cache

\* A put makes room for exactly one ("evicting one entry first when the cache
\* is full"): nothing is evicted while there is room, and never two entries.
OneEvictionAtATime ==
    [][LET gone == KeysOf(cache) \ KeysOf(cache') IN
       gone # {} => /\ Len(cache.order) = Capacity /\ Len(cache'.order) = Capacity
                    /\ \E e \in Keys : gone = {e}]_cache
=============================================================================
