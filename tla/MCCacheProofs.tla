--------------------------- MODULE MCCacheProofs ----------------------------
(***************************************************************************)
(* The token cache's guarantees, for every capacity, set of keys and       *)
(* history: first for its closed form, then for the linked list of         *)
(* auth/cache.go, with its sweep loop, which implements the closed form.   *)
(***************************************************************************)
EXTENDS MCCache, SieveOpsProofs, FiniteSetTheorems

\* One get or put keeps the cache well formed.
LEMMA StepKeepsCache == CacheInv /\ [Next]_cache => CacheInv'
<1> SUFFICES ASSUME CacheInv, [Next]_cache PROVE CacheInv'
  OBVIOUS
<1> USE SieveAssumption
<1>1. ASSUME NEW k \in Keys, Get(k) PROVE CacheInv'
  BY <1>1, GetWellFormed DEF Get, CacheInv
<1>2. ASSUME NEW k \in Keys, NEW v \in Values, Put(k, v) PROVE CacheInv'
  BY <1>2, PutWellFormed DEF Put, CacheInv
<1>3. CASE UNCHANGED cache
  BY <1>3 DEF CacheInv
<1> QED
  BY <1>1, <1>2, <1>3 DEF Next

\* For every capacity and key set, no sequence of gets and puts breaks the
\* queue, the index, the visited bits or the hand, or exceeds the capacity
\* (jwtCache.get, put, evict, remove).
THEOREM CacheStaysWellFormed == Spec => []CacheInv
<1>1. Init => CacheInv
  BY EmptyWellFormed, SieveAssumption DEF Init, CacheInv
<1> QED
  BY <1>1, StepKeepsCache, PTL DEF Spec

\* What one step may evict.
LEMMA StepEvicts ==
    ASSUME CacheInv, [Next]_cache
    PROVE  \/ KeysOf(cache) \subseteq KeysOf(cache')
           \/ /\ Len(cache.order) = Capacity /\ Len(cache'.order) = Capacity
              /\ \E e \in KeysOf(cache) : /\ KeysOf(cache) \ KeysOf(cache') = {e}
                                          /\ e \in cache.visited => cache.visited = KeysOf(cache)
<1> USE SieveAssumption
<1>1. ASSUME NEW k \in Keys, Get(k) PROVE KeysOf(cache) \subseteq KeysOf(cache')
  BY <1>1, GetWellFormed DEF Get, CacheInv
<1>2. ASSUME NEW k \in Keys, NEW v \in Values, Put(k, v)
      PROVE  PutEffect(cache, cache', k, v, Capacity)
  BY <1>2, PutWellFormed DEF Put, CacheInv
<1>3. CASE UNCHANGED cache
  BY <1>3
<1>4. CASE \E k \in Keys : Get(k)
  BY <1>1, <1>4
<1>5. CASE \E k \in Keys, v \in Values : Put(k, v)
  BY <1>2, <1>5 DEF PutEffect
<1> QED
  BY <1>3, <1>4, <1>5 DEF Next

\* Eviction never takes an entry that was used since the hand last passed it
\* while an unused one is left (evict's loop over the visited bits).
THEOREM UsedEntriesSpared == Spec => VisitedSpared
<1>1. CacheInv /\ [Next]_cache =>
         [\A k \in KeysOf(cache) \ KeysOf(cache') :
             k \in cache.visited => KeysOf(cache) = cache.visited]_cache
  BY StepEvicts
<1> QED
  BY <1>1, CacheStaysWellFormed, PTL DEF Spec, VisitedSpared

\* A put evicts at most one entry, and only when the cache is full.
THEOREM EvictsOnlyForRoom == Spec => OneEvictionAtATime
<1>1. ASSUME CacheInv, [Next]_cache
      PROVE  LET gone == KeysOf(cache) \ KeysOf(cache') IN
             gone # {} => /\ Len(cache.order) = Capacity /\ Len(cache'.order) = Capacity
                          /\ \E e \in Keys : gone = {e}
  <2>1. KeysOf(cache) \subseteq Keys
    BY <1>1, ElementOfSeq DEF CacheInv, WellFormed, KeysOf
  <2> QED
    BY <1>1, <2>1, StepEvicts
<1> QED
  BY <1>1, CacheStaysWellFormed, PTL DEF Spec, OneEvictionAtATime

-----------------------------------------------------------------------------

(***************************************************************************)
(* The simulation.  The pointers spell the abstract queue, the index, the  *)
(* hand and the claims are the abstract ones, and a sweep under way has    *)
(* visited the first j positions of the closed form, all of them marked,   *)
(* and cleared exactly those.                                              *)
(***************************************************************************)
Chain(s, h, t, p, n) ==
    /\ h = IF Len(s) = 0 THEN Nil ELSE s[1]
    /\ t = IF Len(s) = 0 THEN Nil ELSE s[Len(s)]
    /\ \A i \in 1 .. Len(s) : n[s[i]] = IF i = Len(s) THEN Nil ELSE s[i + 1]
    /\ \A i \in 1 .. Len(s) : p[s[i]] = IF i = 1 THEN Nil ELSE s[i - 1]

\* The entry the closed form's sweep reaches after i moves.
At(i) == cache.order[SweepPos(cache, i)]

SweptTo(j) ==
    /\ obj = At(j)
    /\ \A i \in 0 .. j - 1 : At(i) \in cache.visited
    /\ visited = cache.visited \ {At(i) : i \in 0 .. j - 1}

Evicting ==
    /\ op.key \in Keys \ items /\ op.val \in Values /\ op.before = cache.visited
    /\ Capacity > 0 /\ Len(cache.order) >= Capacity
    /\ \E j \in 0 .. Len(cache.order) : SweptTo(j)

Agrees ==
    /\ items = KeysOf(cache) /\ hand = cache.hand
    /\ \A k \in items : claims[k] = cache.items[k]
    /\ Chain(cache.order, head, tail, prev, next)

FieldsOK ==
    /\ prev \in [Keys -> Keys \cup {Nil}] /\ next \in [Keys -> Keys \cup {Nil}]
    /\ claims \in [Keys -> Values \cup {Nil}]

IInv ==
    /\ CacheInv /\ FieldsOK /\ Agrees
    /\ IF List!Idle THEN visited = cache.visited ELSE Evicting

-----------------------------------------------------------------------------
(* The pointers.                                                           *)

\* Linking a new entry in front of the list puts it at the head of the queue (the end
\* of put).
LEMMA ChainFront ==
    ASSUME NEW s \in Seq(Keys), NEW k \in Keys, \A i \in 1 .. Len(s) : s[i] # k,
           NEW h, NEW t, NEW p \in [Keys -> Keys \cup {Nil}], NEW n \in [Keys -> Keys \cup {Nil}],
           Chain(s, h, t, p, n)
    PROVE  LET n2 == [n EXCEPT ![k] = h]
               p2 == [e \in Keys |-> IF e = k THEN Nil ELSE IF e = h THEN k ELSE p[e]]
           IN  /\ Chain(<<k>> \o s, k, IF t = Nil THEN k ELSE t, p2, n2)
               /\ n2 \in [Keys -> Keys \cup {Nil}] /\ p2 \in [Keys -> Keys \cup {Nil}]
<1> DEFINE n2 == [n EXCEPT ![k] = h]
           p2 == [e \in Keys |-> IF e = k THEN Nil ELSE IF e = h THEN k ELSE p[e]]
           L == Len(s)
<1> PICK w : w = <<k>> \o s
  OBVIOUS
<1>1. L \in Nat /\ DOMAIN s = 1 .. L /\ \A i \in 1 .. L : s[i] \in Keys
  BY LenProperties, ElementOfSeq
<1>2. Len(w) = L + 1 /\ w[1] = k /\ \A i \in 2 .. L + 1 : w[i] = s[i - 1]
  <2>1. <<k>> \in Seq(Keys) /\ Len(<<k>>) = 1 /\ <<k>>[1] = k
    OBVIOUS
  <2>2. /\ Len(w) = Len(<<k>>) + Len(s)
        /\ \A i \in 1 .. Len(<<k>>) + Len(s) : w[i] = IF i <= Len(<<k>>) THEN <<k>>[i] ELSE s[i - Len(<<k>>)]
    BY <2>1, ConcatProperties
  <2> QED
    BY <1>1, <2>1, <2>2
<1>3. h = IF L = 0 THEN Nil ELSE s[1]
  BY DEF Chain
<1>4. t = IF L = 0 THEN Nil ELSE s[L]
  BY DEF Chain
<1>5. h \in Keys \cup {Nil}
  BY <1>1, <1>3
<1>6. (IF t = Nil THEN k ELSE t) = w[L + 1]
  <2>1. CASE L = 0
    BY <1>2, <1>4, <2>1
  <2>2. CASE L # 0
    <3>1. s[L] \in Keys /\ w[L + 1] = s[L]
      BY <1>1, <1>2, <2>2
    <3> QED
      BY <1>4, <2>2, <3>1, SieveAssumption
  <2> QED
    BY <2>1, <2>2
<1>7. ASSUME NEW i \in 1 .. L + 1 PROVE n2[w[i]] = IF i = L + 1 THEN Nil ELSE w[i + 1]
  <2>1. CASE i = 1
    <3>1. n2[w[i]] = h
      BY <1>2, <2>1
    <3>2. L # 0 => w[2] = s[1]
      BY <1>1, <1>2
    <3> QED
      BY <1>1, <1>3, <2>1, <3>1, <3>2
  <2>2. CASE i # 1
    <3>1. i - 1 \in 1 .. L /\ w[i] = s[i - 1] /\ s[i - 1] \in Keys
      BY <1>1, <1>2, <2>2
    <3>2. n2[w[i]] = n[s[i - 1]]
      BY <3>1
    <3>3. n[s[i - 1]] = IF i - 1 = L THEN Nil ELSE s[(i - 1) + 1]
      BY <3>1 DEF Chain
    <3>4. i # L + 1 => w[i + 1] = s[i]
      BY <1>1, <1>2, <2>2
    <3> QED
      BY <1>1, <3>2, <3>3, <3>4
  <2> QED
    BY <2>1, <2>2
<1>8. ASSUME NEW i \in 1 .. L + 1 PROVE p2[w[i]] = IF i = 1 THEN Nil ELSE w[i - 1]
  <2>1. CASE i = 1
    BY <1>2, <2>1
  <2>2. CASE i # 1
    <3>1. i - 1 \in 1 .. L /\ w[i] = s[i - 1] /\ s[i - 1] \in Keys /\ s[i - 1] # k
      BY <1>1, <1>2, <2>2
    <3>2. p[s[i - 1]] = IF i - 1 = 1 THEN Nil ELSE s[(i - 1) - 1]
      BY <3>1 DEF Chain
    <3>3. p2[w[i]] = IF s[i - 1] = h THEN k ELSE p[s[i - 1]]
      BY <3>1
    <3>4. CASE i = 2
      BY <1>2, <1>3, <3>1, <3>3, <3>4
    <3>5. CASE i # 2
      <4>1. i - 2 \in 1 .. L /\ w[i - 1] = s[i - 2] /\ s[i - 2] \in Keys
        BY <1>1, <1>2, <2>2, <3>5
      <4>2. p[s[i - 1]] = s[i - 2]
        BY <1>1, <2>2, <3>2, <3>5
      <4>0. L # 0 /\ 1 \in 1 .. L
        BY <1>1, <3>1
      <4>3. p[s[1]] = Nil /\ h = s[1]
        BY <1>3, <4>0 DEF Chain
      <4>4. s[i - 1] # h
        BY <4>1, <4>2, <4>3, SieveAssumption
      <4> QED
        BY <2>2, <3>3, <4>1, <4>2, <4>4
    <3> QED
      BY <3>4, <3>5
  <2> QED
    BY <2>1, <2>2
<1>9. n2 \in [Keys -> Keys \cup {Nil}] /\ p2 \in [Keys -> Keys \cup {Nil}]
  BY <1>5
<1> HIDE DEF n2, p2
<1>10. Chain(w, k, IF t = Nil THEN k ELSE t, p2, n2)
  <2>1. k = IF Len(w) = 0 THEN Nil ELSE w[1]
    BY <1>1, <1>2
  <2>2. (IF t = Nil THEN k ELSE t) = IF Len(w) = 0 THEN Nil ELSE w[Len(w)]
    BY <1>1, <1>2, <1>6
  <2>3. \A i \in 1 .. Len(w) : n2[w[i]] = IF i = Len(w) THEN Nil ELSE w[i + 1]
    BY <1>1, <1>2, <1>7
  <2>4. \A i \in 1 .. Len(w) : p2[w[i]] = IF i = 1 THEN Nil ELSE w[i - 1]
    BY <1>1, <1>2, <1>8
  <2> QED
    BY <2>1, <2>2, <2>3, <2>4 DEF Chain
<1> QED
  BY <1>9, <1>10 DEF n2, p2

Distinct(s) == \A i, j \in 1 .. Len(s) : i # j => s[i] # s[j]

\* w is s without its q-th entry.
Without(w, s, q) ==
    /\ Len(w) = Len(s) - 1
    /\ \A i \in 1 .. Len(s) - 1 : w[i] = IF i < q THEN s[i] ELSE s[i + 1]

\* A neighbour's link, where there is a neighbour, skips the entry.
Patched(f, x, y) == IF x # Nil THEN [f EXCEPT ![x] = y] ELSE f

\* Unlinking the q-th entry leaves the pointers of the queue without it (remove).
LEMMA ChainWithout ==
    ASSUME NEW s \in Seq(Keys), Distinct(s), NEW q \in 1 .. Len(s), NEW w, Without(w, s, q),
           NEW h, NEW t, NEW p \in [Keys -> Keys \cup {Nil}], NEW n \in [Keys -> Keys \cup {Nil}],
           Chain(s, h, t, p, n), NEW e, e = s[q],
           NEW p2, p2 = Patched(p, n[e], p[e]), NEW n2, n2 = Patched(n, p[e], n[e])
    PROVE  /\ Chain(w, IF p[e] = Nil THEN n[e] ELSE h, IF n[e] = Nil THEN p[e] ELSE t, p2, n2)
           /\ n2 \in [Keys -> Keys \cup {Nil}] /\ p2 \in [Keys -> Keys \cup {Nil}]
<1> DEFINE L == Len(s)
<1> USE DEF Distinct, Without, Patched
<1>1. L \in Nat \ {0} /\ \A i \in 1 .. L : s[i] \in Keys /\ s[i] # Nil
  BY LenProperties, ElementOfSeq, SieveAssumption
<1>2. e \in Keys
  BY <1>1
<1>3. n[e] = IF q = L THEN Nil ELSE s[q + 1]
  BY DEF Chain
<1>4. p[e] = IF q = 1 THEN Nil ELSE s[q - 1]
  BY DEF Chain
<1>5. h = s[1] /\ t = s[L]
  BY <1>1 DEF Chain
<1>6. q # L => q + 1 \in 1 .. L /\ s[q + 1] \in Keys /\ s[q + 1] # Nil
  BY <1>1
<1>7. q # 1 => q - 1 \in 1 .. L /\ s[q - 1] \in Keys /\ s[q - 1] # Nil
  BY <1>1
<1>8. (IF p[e] = Nil THEN n[e] ELSE h) = IF Len(w) = 0 THEN Nil ELSE w[1]
  <2>1. CASE q = 1
    <3>1. p[e] = Nil
      BY <1>4, <2>1
    <3>2. L # 1 => w[1] = s[2]
      BY <1>1, <2>1
    <3> QED
      BY <1>1, <1>3, <2>1, <3>1, <3>2
  <2>2. CASE q # 1
    <3>1. w[1] = s[1] /\ Len(w) # 0
      BY <1>1, <2>2
    <3> QED
      BY <1>4, <1>5, <1>7, <2>2, <3>1
  <2> QED
    BY <2>1, <2>2
<1>9. (IF n[e] = Nil THEN p[e] ELSE t) = IF Len(w) = 0 THEN Nil ELSE w[Len(w)]
  <2>1. CASE q = L
    <3>1. n[e] = Nil
      BY <1>3, <2>1
    <3>2. L # 1 => w[L - 1] = s[L - 1]
      BY <1>1, <2>1
    <3> QED
      BY <1>1, <1>4, <2>1, <3>1, <3>2
  <2>2. CASE q # L
    <3>1. w[L - 1] = s[L] /\ Len(w) # 0
      BY <1>1, <2>2
    <3> QED
      BY <1>3, <1>5, <1>6, <2>2, <3>1
  <2> QED
    BY <2>1, <2>2
<1>10. ASSUME NEW i \in 1 .. L - 1 PROVE n2[w[i]] = IF i = L - 1 THEN Nil ELSE w[i + 1]
  <2>1. CASE i = q - 1
    <3>1. q # 1 /\ w[i] = s[q - 1] /\ p[e] = s[q - 1]
      BY <1>1, <1>4, <2>1
    <3>2. n2 = [n EXCEPT ![s[q - 1]] = n[e]]
      BY <1>7, <3>1
    <3>3. n2[w[i]] = n[e]
      BY <1>7, <3>1, <3>2
    <3>4. i # L - 1 => w[i + 1] = s[q + 1]
      BY <1>1, <2>1
    <3> QED
      BY <1>1, <1>3, <2>1, <3>3, <3>4
  <2>2. CASE i # q - 1
    <3>1. PICK x : x = IF i < q THEN i ELSE i + 1
      OBVIOUS
    <3>2. x \in 1 .. L /\ x # q - 1 /\ w[i] = s[x]
      BY <1>1, <2>2, <3>1
    <3>3. n2[w[i]] = n[s[x]]
      <4>1. q # 1 => s[x] # s[q - 1]
        BY <1>7, <3>2
      <4>2. CASE q = 1
        BY <1>4, <3>2, <4>2
      <4>3. CASE q # 1
        BY <1>1, <1>4, <1>7, <3>2, <4>1, <4>3
      <4> QED
        BY <4>2, <4>3
    <3>4. n[s[x]] = IF x = L THEN Nil ELSE s[x + 1]
      BY <3>2 DEF Chain
    <3>5. x = L <=> i = L - 1
      BY <1>1, <2>2, <3>1
    <3>6. i # L - 1 => w[i + 1] = s[x + 1]
      <4>1. CASE i < q
        BY <1>1, <2>2, <3>1, <4>1
      <4>2. CASE ~(i < q)
        <5>1. i # L - 1 => i + 1 \in 1 .. L - 1 /\ ~(i + 1 < q) /\ x + 1 = (i + 1) + 1
          BY <1>1, <3>1, <4>2
        <5> QED
          BY <5>1
      <4> QED
        BY <4>1, <4>2
    <3> QED
      BY <3>3, <3>4, <3>5, <3>6
  <2> QED
    BY <2>1, <2>2
<1>11. ASSUME NEW i \in 1 .. L - 1 PROVE p2[w[i]] = IF i = 1 THEN Nil ELSE w[i - 1]
  <2>1. CASE i = q
    <3>1. q # L /\ w[i] = s[q + 1] /\ n[e] = s[q + 1]
      BY <1>1, <1>3, <2>1
    <3>2. p2 = [p EXCEPT ![s[q + 1]] = p[e]]
      BY <1>6, <3>1
    <3>3. p2[w[i]] = p[e]
      BY <1>6, <3>1, <3>2
    <3>4. i # 1 => w[i - 1] = s[q - 1]
      BY <1>1, <2>1
    <3> QED
      BY <1>1, <1>4, <2>1, <3>3, <3>4
  <2>2. CASE i # q
    <3>1. PICK x : x = IF i < q THEN i ELSE i + 1
      OBVIOUS
    <3>2. x \in 1 .. L /\ x # q + 1 /\ w[i] = s[x]
      BY <1>1, <2>2, <3>1
    <3>3. p2[w[i]] = p[s[x]]
      <4>1. q # L => s[x] # s[q + 1]
        BY <1>6, <3>2
      <4>2. CASE q = L
        BY <1>3, <3>2, <4>2
      <4>3. CASE q # L
        BY <1>1, <1>3, <1>6, <3>2, <4>1, <4>3
      <4> QED
        BY <4>2, <4>3
    <3>4. p[s[x]] = IF x = 1 THEN Nil ELSE s[x - 1]
      BY <3>2 DEF Chain
    <3>5. x = 1 <=> i = 1
      BY <1>1, <2>2, <3>1
    <3>6. i # 1 => w[i - 1] = s[x - 1]
      <4>1. CASE i < q
        BY <1>1, <2>2, <3>1, <4>1
      <4>2. CASE ~(i < q)
        BY <1>1, <2>2, <3>1, <4>2
      <4> QED
        BY <4>1, <4>2
    <3> QED
      BY <3>3, <3>4, <3>5, <3>6
  <2> QED
    BY <2>1, <2>2
<1>12. n2 \in [Keys -> Keys \cup {Nil}] /\ p2 \in [Keys -> Keys \cup {Nil}]
  BY <1>2
<1>13. \A i \in 1 .. Len(w) : n2[w[i]] = IF i = Len(w) THEN Nil ELSE w[i + 1]
  BY <1>1, <1>10
<1>14. \A i \in 1 .. Len(w) : p2[w[i]] = IF i = 1 THEN Nil ELSE w[i - 1]
  BY <1>1, <1>11
<1> QED
  BY <1>8, <1>9, <1>12, <1>13, <1>14 DEF Chain

\* A queue without repetitions has as many entries as it has keys.
LEMMA QueueCounts ==
    ASSUME NEW s \in Seq(Keys), \A i, j \in 1 .. Len(s) : i # j => s[i] # s[j]
    PROVE  LET S == {s[i] : i \in 1 .. Len(s)} IN IsFiniteSet(S) /\ Cardinality(S) = Len(s)
<1> DEFINE S == {s[i] : i \in 1 .. Len(s)}
<1>1. Len(s) \in Nat /\ DOMAIN s = 1 .. Len(s) /\ s = [i \in 1 .. Len(s) |-> s[i]]
  BY LenProperties, SeqDef
<1>2. IsFiniteSet(1 .. Len(s)) /\ Cardinality(1 .. Len(s)) = Len(s)
  <2>1. 1 \in Int /\ Len(s) \in Int /\ (1 > Len(s) => Len(s) = 0) /\ Len(s) - 1 + 1 = Len(s)
    BY <1>1
  <2> QED
    BY <2>1, FS_Interval
<1>3. s \in [1 .. Len(s) -> S]
  BY <1>1
<1>4. s \in Injection(1 .. Len(s), S)
  BY <1>3 DEF Injection, IsInjective
<1>5. s \in Surjection(1 .. Len(s), S)
  BY <1>3 DEF Surjection
<1>6. s \in Bijection(1 .. Len(s), S)
  BY <1>4, <1>5 DEF Bijection
<1>7. ExistsBijection(1 .. Len(s), S)
  BY <1>6 DEF ExistsBijection
<1> HIDE DEF S
<1>8. IsFiniteSet(S) /\ Cardinality(S) = Len(s)
  BY <1>2, <1>7, FS_Bijection
<1> QED
  BY <1>8 DEF S

\* The list counts as the closed form does.
LEMMA SameCardinality == ASSUME NEW S PROVE List!Cardinality(S) = Cardinality(S)
BY DEF List!Cardinality, Cardinality

\* Following the next pointers from the head reads the queue they spell.
LEMMA OrderRead ==
    ASSUME NEW s \in Seq(Keys), \A i, j \in 1 .. Len(s) : i # j => s[i] # s[j],
           items = {s[i] : i \in 1 .. Len(s)}, Chain(s, head, tail, prev, next)
    PROVE  List!Order = s /\ Cardinality(items) = Len(s)
<1> DEFINE L == Len(s)
           D == 1 .. Cardinality(items) + 1
           Walk(f) == [i \in D |-> IF i = 1 THEN head
                                  ELSE IF f[i - 1] = Nil THEN Nil ELSE next[f[i - 1]]]
           g == CHOOSE f : f = Walk(f)
<1>1. L \in Nat /\ Cardinality(items) = L
  BY QueueCounts, LenProperties
<1>2. D = 1 .. L + 1
  BY <1>1
<1>3. \A i \in 1 .. L : s[i] \in Keys /\ s[i] # Nil
  BY ElementOfSeq, SieveAssumption
<1>4. head = IF L = 0 THEN Nil ELSE s[1]
  BY DEF Chain
<1>5. \A i \in 1 .. L : next[s[i]] = IF i = L THEN Nil ELSE s[i + 1]
  BY DEF Chain
<1>6. PICK f : f = [i \in 1 .. L + 1 |-> IF i <= L THEN s[i] ELSE Nil]
  OBVIOUS
<1>20. \A i \in 1 .. L + 1 : f[i] = IF i <= L THEN s[i] ELSE Nil
  BY <1>6
<1> HIDE DEF L, D
<1>7. f = Walk(f)
  <2>1. ASSUME NEW i \in 1 .. L + 1
        PROVE  f[i] = IF i = 1 THEN head ELSE IF f[i - 1] = Nil THEN Nil ELSE next[f[i - 1]]
    <3>1. CASE i = 1
      BY <1>1, <1>4, <1>6, <3>1
    <3>2. CASE i # 1
      <4>1. i - 1 \in 1 .. L /\ f[i - 1] = s[i - 1] /\ f[i - 1] # Nil
        BY <1>1, <1>3, <1>6, <3>2
      <4>2. next[s[i - 1]] = IF i - 1 = L THEN Nil ELSE s[(i - 1) + 1]
        BY <1>5, <4>1
      <4>3. f[i] = IF i - 1 = L THEN Nil ELSE s[i]
        BY <1>1, <1>6, <3>2
      <4> QED
        BY <1>1, <3>2, <4>1, <4>2, <4>3
    <3> QED
      BY <3>1, <3>2
  <2> QED
    BY <1>2, <1>6, <2>1
<1>8. g = Walk(g)
  <2>1. \E x : x = Walk(x)
    BY <1>7
  <2> HIDE DEF Walk
  <2> QED
    BY <2>1, Zenon
<1>9. List!Nth = g
  BY SameCardinality DEF List!Nth, D
<1> HIDE DEF g
<1>10. g = [i \in 1 .. L + 1 |-> IF i = 1 THEN head
                                ELSE IF g[i - 1] = Nil THEN Nil ELSE next[g[i - 1]]]
  BY <1>2, <1>8
<1> HIDE DEF Walk
<1>11. DOMAIN g = 1 .. L + 1
  BY <1>10
<1>12. ASSUME NEW i \in 1 .. L + 1
       PROVE  g[i] = IF i = 1 THEN head ELSE IF g[i - 1] = Nil THEN Nil ELSE next[g[i - 1]]
  <2> DEFINE E(x) == IF x = 1 THEN head ELSE IF g[x - 1] = Nil THEN Nil ELSE next[g[x - 1]]
  <2>1. g = [x \in 1 .. L + 1 |-> E(x)]
    BY <1>10
  <2> HIDE DEF E
  <2>2. g[i] = E(i)
    BY <2>1
  <2> QED
    BY <2>2 DEF E
<1> DEFINE Bad == {m \in Nat : m \in 1 .. L + 1 /\ g[m] # f[m]}
<1>13. Bad = {}
  <2> SUFFICES ASSUME Bad # {} PROVE FALSE
    OBVIOUS
  <2>1. PICK m \in Bad : \A k \in Bad : m <= k
    <3> HIDE DEF Bad
    <3>1. Bad \in SUBSET Nat
      BY DEF Bad
    <3> QED
      BY <3>1, LeastNatural
  <2>2. m # 1
    BY <1>1, <1>4, <1>20, <1>12, <2>1
  <2>3. m - 1 \in 1 .. L /\ m - 1 \notin Bad
    BY <1>1, <2>1, <2>2
  <2>4. g[m - 1] = s[m - 1] /\ s[m - 1] # Nil
    <3>1. m - 1 \in 1 .. L + 1 /\ g[m - 1] = f[m - 1]
      BY <1>1, <2>3
    <3>2. f[m - 1] = s[m - 1]
      BY <1>1, <1>20, <2>3, <3>1
    <3> QED
      BY <1>3, <2>3, <3>1, <3>2
  <2>5. g[m] = next[s[m - 1]]
    BY <1>12, <2>1, <2>2, <2>4
  <2>6. next[s[m - 1]] = IF m - 1 = L THEN Nil ELSE s[(m - 1) + 1]
    BY <1>5, <2>3
  <2>7. f[m] = IF m - 1 = L THEN Nil ELSE s[m]
    BY <1>1, <1>20, <2>1
  <2> QED
    BY <1>1, <2>1, <2>5, <2>6, <2>7
<1>14. \A i \in 1 .. L + 1 : g[i] = IF i <= L THEN s[i] ELSE Nil
  BY <1>1, <1>20, <1>13
<1>15. {j \in DOMAIN g : g[j] # Nil} = 1 .. L
  BY <1>1, <1>3, <1>11, <1>14
<1>16. Cardinality(1 .. L) = L
  <2>1. 1 \in Int /\ L \in Int /\ (1 > L => L = 0) /\ L - 1 + 1 = L
    BY <1>1
  <2> QED
    BY <2>1, FS_Interval
<1>17. List!Order = [i \in 1 .. L |-> g[i]]
  BY <1>9, <1>15, <1>16, SameCardinality DEF List!Order
<1>18. \A i \in 1 .. L : g[i] = s[i]
  BY <1>1, <1>14
<1>19. s = [i \in 1 .. L |-> s[i]]
  BY LenProperties, SeqDef DEF L
<1> QED
  BY <1>1, <1>17, <1>18, <1>19 DEF L

-----------------------------------------------------------------------------
(* The sweep.                                                              *)

\* The closed form's positions are the ones the loop visits: from the start one newer
\* at each move, from the newest to the oldest, each once until it is back.
LEMMA SweepWalks ==
    ASSUME NEW c, WellFormed(c, Keys, Values, Capacity), c.order # <<>>
    PROVE  LET L == Len(c.order) IN
           /\ L \in Nat \ {0} /\ Start(c) \in 1 .. L
           /\ SweepPos(c, 0) = Start(c) /\ SweepPos(c, L) = Start(c)
           /\ \A i \in 0 .. L : SweepPos(c, i) \in 1 .. L
           /\ \A i \in 0 .. L - 1 :
                SweepPos(c, i + 1) = IF SweepPos(c, i) = 1 THEN L ELSE SweepPos(c, i) - 1
           /\ \A i, j \in 0 .. L - 1 : SweepPos(c, i) = SweepPos(c, j) => i = j
           /\ \A q \in 1 .. L : \E i \in 0 .. L - 1 : SweepPos(c, i) = q
<1> DEFINE L == Len(c.order)
<1>1. L \in Nat \ {0}
  BY EmptySeq, LenProperties DEF WellFormed
<1>2. PICK S : S = Start(c)
  OBVIOUS
<1>3. S \in 1 .. L
  BY <1>2, StartInQueue, SieveAssumption
<1>4. \A i : SweepPos(c, i) = IF i < S THEN S - i ELSE S - i + L
  BY <1>2 DEF SweepPos
<1> HIDE DEF L
<1>5. SweepPos(c, 0) = S /\ SweepPos(c, L) = S
  BY <1>1, <1>3, <1>4
<1>6. \A i \in 0 .. L : SweepPos(c, i) \in 1 .. L
  BY <1>1, <1>3, <1>4
<1>7. \A i \in 0 .. L - 1 :
        SweepPos(c, i + 1) = IF SweepPos(c, i) = 1 THEN L ELSE SweepPos(c, i) - 1
  BY <1>1, <1>3, <1>4
<1>8. \A i, j \in 0 .. L - 1 : SweepPos(c, i) = SweepPos(c, j) => i = j
  BY <1>1, <1>3, <1>4
<1>9. ASSUME NEW q \in 1 .. L PROVE \E i \in 0 .. L - 1 : SweepPos(c, i) = q
  <2>1. CASE q <= S
    <3>1. S - q \in 0 .. L - 1 /\ SweepPos(c, S - q) = q
      BY <1>1, <1>3, <1>4, <2>1
    <3> QED
      BY <3>1
  <2>2. CASE ~(q <= S)
    <3>1. S - q + L \in 0 .. L - 1 /\ SweepPos(c, S - q + L) = q
      BY <1>1, <1>3, <1>4, <2>2
    <3> QED
      BY <3>1
  <2> QED
    BY <2>1, <2>2
<1> QED
  BY <1>1, <1>2, <1>3, <1>5, <1>6, <1>7, <1>8, <1>9 DEF L

\* A loop that cleared the bits it passed and stops at an entry without one has found the
\* closed form's victim and cleared the closed form's bits (evict).
LEMMA VictimFound ==
    ASSUME NEW c, WellFormed(c, Keys, Values, Capacity), c.order # <<>>,
           NEW j \in 0 .. Len(c.order), NEW bits,
           \A i \in 0 .. j - 1 : c.order[SweepPos(c, i)] \in c.visited,
           bits = c.visited \ {c.order[SweepPos(c, i)] : i \in 0 .. j - 1},
           c.order[SweepPos(c, j)] \notin bits
    PROVE  SweepPos(c, Moves(c)) = SweepPos(c, j) /\ bits = c.visited \ Passed(c)
<1> DEFINE L == Len(c.order)
           T(i) == c.order[SweepPos(c, i)]
<1>1. /\ L \in Nat \ {0}
      /\ SweepPos(c, 0) = SweepPos(c, L)
      /\ \A i \in 0 .. L : SweepPos(c, i) \in 1 .. L
      /\ \A i, k \in 0 .. L - 1 : SweepPos(c, i) = SweepPos(c, k) => i = k
      /\ \A q \in 1 .. L : \E i \in 0 .. L - 1 : SweepPos(c, i) = q
  BY SweepWalks
<1>2. /\ \A i, k \in 1 .. L : i # k => c.order[i] # c.order[k]
      /\ KeysOf(c) = {c.order[i] : i \in 1 .. L} /\ c.visited \subseteq KeysOf(c)
  BY LenProperties DEF WellFormed, KeysOf
<1>3. Unvisited(c) = {i \in 0 .. L - 1 : T(i) \notin c.visited}
  BY DEF Unvisited
<1>4. /\ \A i \in 0 .. j - 1 : T(i) \in c.visited
      /\ bits = c.visited \ {T(i) : i \in 0 .. j - 1}
      /\ T(j) \notin bits
  OBVIOUS
<1> HIDE DEF L, T
<1>5. ASSUME NEW i \in 0 .. L - 1, NEW k \in 0 .. L - 1, T(i) = T(k) PROVE i = k
  <2>1. SweepPos(c, i) \in 1 .. L /\ SweepPos(c, k) \in 1 .. L
    <3>1. i \in 0 .. L /\ k \in 0 .. L
      BY <1>1
    <3> QED
      BY <1>1, <3>1
  <2>2. SweepPos(c, i) = SweepPos(c, k)
    BY <1>2, <1>5, <2>1 DEF T
  <2> QED
    BY <1>1, <2>2
<1>6. j \in 0 .. L
  BY DEF L
<1>7. CASE j = L
  <2>1. Unvisited(c) = {}
    BY <1>1, <1>3, <1>4, <1>7
  <2>2. Moves(c) = 0 /\ Passed(c) = KeysOf(c)
    BY <2>1 DEF Moves, Passed
  <2>3. ASSUME NEW x \in KeysOf(c) PROVE \E i \in 0 .. j - 1 : x = T(i)
    <3>1. PICK q \in 1 .. L : x = c.order[q]
      BY <1>2
    <3>2. PICK i \in 0 .. L - 1 : SweepPos(c, i) = q
      BY <1>1
    <3> QED
      BY <1>7, <3>1, <3>2 DEF T
  <2>4. bits = c.visited \ KeysOf(c)
    BY <1>2, <1>4, <2>3
  <2> QED
    BY <1>1, <1>7, <2>2, <2>4
<1>8. CASE j # L
  <2>1. j \in 0 .. L - 1
    BY <1>1, <1>6, <1>8
  <2>2. ASSUME NEW i \in 0 .. j - 1 PROVE T(i) # T(j)
    BY <1>1, <1>5, <2>1
  <2>3. T(j) \notin c.visited
    BY <1>4, <2>2
  <2>4. j \in Unvisited(c)
    BY <1>3, <2>1, <2>3
  <2>5. \A i \in Unvisited(c) : j <= i
    <3> SUFFICES ASSUME NEW i \in Unvisited(c), ~(j <= i) PROVE FALSE
      OBVIOUS
    <3>1. i \in 0 .. L - 1 /\ T(i) \notin c.visited
      BY <1>3
    <3>2. i \in 0 .. j - 1
      BY <1>1, <2>1, <3>1
    <3> QED
      BY <1>4, <3>1, <3>2
  <2>6. \A i \in Unvisited(c) : (\A k \in Unvisited(c) : i <= k) => i = j
    <3>1. \A i \in Unvisited(c) : i \in Int
      BY <1>1, <1>3
    <3> QED
      BY <2>1, <2>4, <2>5, <3>1
  <2>7. Moves(c) = j
    BY <2>4, <2>5, <2>6 DEF Moves
  <2>8. Passed(c) = {T(i) : i \in 0 .. j - 1}
    BY <2>4, <2>7 DEF Passed, T
  <2> QED
    BY <1>4, <2>7, <2>8
<1> QED
  BY <1>7, <1>8

-----------------------------------------------------------------------------
(* The operations.                                                         *)

\* What the invariant says of the queue and of the list that spells it.
LEMMA Known ==
    ASSUME IInv
    PROVE  /\ WellFormed(cache, Keys, Values, Capacity)
           /\ cache.order \in Seq(Keys) /\ Len(cache.order) \in Nat
           /\ DOMAIN cache.order = 1 .. Len(cache.order)
           /\ \A i, j \in 1 .. Len(cache.order) : i # j => cache.order[i] # cache.order[j]
           /\ items = KeysOf(cache) /\ items = {cache.order[i] : i \in 1 .. Len(cache.order)}
           /\ items \subseteq Keys /\ cache.visited \subseteq items
           /\ List!Order = cache.order /\ Cardinality(items) = Len(cache.order)
           /\ (cache.order = <<>> <=> Len(cache.order) = 0)
<1>1. WellFormed(cache, Keys, Values, Capacity) /\ Agrees
  BY DEF IInv, CacheInv
<1>2. /\ cache.order \in Seq(Keys) /\ Len(cache.order) \in Nat
      /\ DOMAIN cache.order = 1 .. Len(cache.order)
  BY <1>1, LenProperties DEF WellFormed
<1>3. \A i, j \in 1 .. Len(cache.order) : i # j => cache.order[i] # cache.order[j]
  BY <1>1, <1>2 DEF WellFormed
<1>4. items = KeysOf(cache) /\ items = {cache.order[i] : i \in 1 .. Len(cache.order)}
  BY <1>1, <1>2 DEF Agrees, KeysOf
<1>5. items \subseteq Keys /\ cache.visited \subseteq items
  BY <1>1, <1>2, <1>4, ElementOfSeq DEF WellFormed
<1>6. Chain(cache.order, head, tail, prev, next)
  BY <1>1 DEF Agrees
<1>7. List!Order = cache.order /\ Cardinality(items) = Len(cache.order)
  BY <1>2, <1>3, <1>4, <1>6, OrderRead
<1>8. cache.order = <<>> <=> Len(cache.order) = 0
  BY <1>2, EmptySeq
<1> QED
  BY <1>1, <1>2, <1>3, <1>4, <1>5, <1>7, <1>8

\* A step that leaves the list's links and the closed form alone keeps their agreement.
LEMMA AgreementKept ==
    ASSUME IInv, UNCHANGED <<items, head, tail, hand, prev, next, claims, cache>>
    PROVE  CacheInv' /\ FieldsOK' /\ Agrees'
<1>1. CacheInv'
  BY DEF IInv, CacheInv
<1>2. FieldsOK'
  BY DEF IInv, FieldsOK
<1>3. items' = KeysOf(cache') /\ hand' = cache'.hand
  BY DEF IInv, Agrees
<1>4. \A k \in items' : claims'[k] = cache'.items[k]
  BY DEF IInv, Agrees
<1>5. Chain(cache'.order, head', tail', prev', next')
  BY DEF IInv, Agrees
<1> QED
  BY <1>1, <1>2, <1>3, <1>4, <1>5 DEF Agrees

\* get marks the same entry in the list and in the closed form.
LEMMA GetKeeps ==
    ASSUME IInv, NEW k \in Keys, GetBoth(k)
    PROVE  IInv'
<1>1. WellFormed(cache, Keys, Values, Capacity) /\ items = KeysOf(cache)
  BY Known
<1>2. cache' = GetOp(cache, k)
  BY DEF GetBoth, Get
<1>3. /\ WellFormed(cache', Keys, Values, Capacity)
      /\ cache'.order = cache.order /\ cache'.items = cache.items /\ KeysOf(cache') = KeysOf(cache)
  BY <1>1, <1>2, GetWellFormed, SieveAssumption
<1>4. /\ cache'.hand = cache.hand
      /\ cache'.visited = IF k \in items THEN cache.visited \cup {k} ELSE cache.visited
  BY <1>1, <1>2 DEF GetOp, Hit, WellFormed
<1>5. /\ List!Idle /\ UNCHANGED <<items, head, tail, hand, prev, next, claims, op, obj>>
      /\ visited' = IF k \in items THEN visited \cup {k} ELSE visited
  BY DEF GetBoth, List!Get
<1>6. CacheInv' /\ FieldsOK'
  BY <1>3, <1>5 DEF CacheInv, IInv, FieldsOK
<1>7. Agrees'
  <2>1. items' = KeysOf(cache') /\ hand' = cache'.hand
    BY <1>1, <1>3, <1>4, <1>5 DEF IInv, Agrees
  <2>2. \A x \in items' : claims'[x] = cache'.items[x]
    BY <1>3, <1>5 DEF IInv, Agrees
  <2>3. Chain(cache'.order, head', tail', prev', next')
    BY <1>3, <1>5 DEF IInv, Agrees
  <2> QED
    BY <2>1, <2>2, <2>3 DEF Agrees
<1>8. List!Idle' /\ visited' = cache'.visited
  BY <1>4, <1>5 DEF List!Idle, List!NoOp, IInv
<1> QED
  BY <1>6, <1>7, <1>8 DEF IInv

\* put of a cached key refreshes and marks the same entry.
LEMMA RefreshKeeps ==
    ASSUME IInv, NEW k \in Keys, NEW v \in Values, List!Refresh(k, v), Put(k, v)
    PROVE  IInv'
<1>1. WellFormed(cache, Keys, Values, Capacity) /\ items = KeysOf(cache)
  BY Known
<1>2. cache' = PutOp(cache, k, v, Capacity)
  BY DEF Put
<1>3. /\ List!Idle /\ Capacity > 0 /\ k \in items
      /\ UNCHANGED <<items, head, tail, hand, prev, next, op, obj>>
      /\ claims' = [claims EXCEPT ![k] = v] /\ visited' = visited \cup {k}
  BY DEF List!Refresh
<1>4. cache' = Refresh(cache, k, v)
  BY <1>1, <1>2, <1>3, SieveAssumption DEF PutOp, Hit
<1>5. /\ cache'.order = cache.order /\ cache'.hand = cache.hand
      /\ cache'.visited = cache.visited \cup {k} /\ cache'.items = [cache.items EXCEPT ![k] = v]
  BY <1>4 DEF Refresh
<1>6. WellFormed(cache', Keys, Values, Capacity)
  BY <1>1, <1>2, PutWellFormed, SieveAssumption
<1>7. KeysOf(cache') = KeysOf(cache)
  BY <1>5 DEF KeysOf
<1>8. CacheInv' /\ FieldsOK'
  BY <1>3, <1>6 DEF CacheInv, IInv, FieldsOK
<1>9. ASSUME NEW x \in items PROVE claims'[x] = cache'.items[x]
  <2>1. claims[x] = cache.items[x] /\ claims \in [Keys -> Values \cup {Nil}] /\ x \in Keys
    BY Known DEF IInv, Agrees, FieldsOK
  <2>2. cache.items \in [items -> Values]
    BY <1>1 DEF WellFormed
  <2> QED
    BY <1>3, <1>5, <2>1, <2>2
<1>10. Chain(cache.order, head, tail, prev, next)
  BY DEF IInv, Agrees
<1>11. Agrees'
  <2>1. items' = KeysOf(cache') /\ hand' = cache'.hand
    BY <1>1, <1>3, <1>5, <1>7 DEF IInv, Agrees
  <2>2. Chain(cache'.order, head', tail', prev', next')
    BY <1>3, <1>5, <1>10
  <2> QED
    BY <1>3, <1>9, <2>1, <2>2 DEF Agrees
<1>12. List!Idle' /\ visited' = cache'.visited
  BY <1>3, <1>5 DEF List!Idle, List!NoOp, IInv
<1> QED
  BY <1>8, <1>11, <1>12 DEF IInv

\* Linking the new entry in front of a list that spells a queue spells the queue with the
\* new key in front (the end of put, with or without an eviction before it).
LEMMA LinkAgrees ==
    ASSUME NEW d, WellFormed(d, Keys, Values, Capacity), NEW k \in Keys, k \notin KeysOf(d),
           NEW v \in Values, NEW h, NEW t,
           NEW p \in [Keys -> Keys \cup {Nil}], NEW n \in [Keys -> Keys \cup {Nil}],
           Chain(d.order, h, t, p, n), List!LinkFront(k, v, h, t, p, n),
           claims \in [Keys -> Values \cup {Nil}],
           \A x \in KeysOf(d) : claims[x] = d.items[x],
           cache' = Insert(d, k, v), items' = KeysOf(d) \cup {k}, hand' = d.hand
    PROVE  Agrees' /\ FieldsOK'
<1>1. /\ d.order \in Seq(Keys) /\ DOMAIN d.order = 1 .. Len(d.order)
      /\ KeysOf(d) = {d.order[i] : i \in 1 .. Len(d.order)}
  BY LenProperties DEF WellFormed, KeysOf
<1>2. \A i \in 1 .. Len(d.order) : d.order[i] # k /\ d.order[i] \in Keys
  BY <1>1, ElementOfSeq
<1>3. /\ cache'.order = <<k>> \o d.order /\ cache'.hand = d.hand
      /\ cache'.items = [x \in KeysOf(d) \cup {k} |-> IF x = k THEN v ELSE d.items[x]]
  BY DEF Insert
<1>4. /\ next' = [n EXCEPT ![k] = h]
      /\ prev' = [e \in Keys |-> IF e = k THEN Nil ELSE IF e = h THEN k ELSE p[e]]
      /\ head' = k /\ tail' = IF t = Nil THEN k ELSE t
      /\ claims' = [claims EXCEPT ![k] = v]
  BY DEF List!LinkFront
<1>5. /\ Chain(<<k>> \o d.order, head', tail', prev', next')
      /\ next' \in [Keys -> Keys \cup {Nil}] /\ prev' \in [Keys -> Keys \cup {Nil}]
  <2> DEFINE n2 == [n EXCEPT ![k] = h]
             p2 == [e \in Keys |-> IF e = k THEN Nil ELSE IF e = h THEN k ELSE p[e]]
  <2>1. PICK s \in Seq(Keys) : s = d.order
    BY <1>1
  <2>2. \A i \in 1 .. Len(s) : s[i] # k
    BY <1>2, <2>1
  <2>3. Chain(s, h, t, p, n)
    BY <2>1
  <2>4. /\ Chain(<<k>> \o s, k, IF t = Nil THEN k ELSE t, p2, n2)
        /\ n2 \in [Keys -> Keys \cup {Nil}] /\ p2 \in [Keys -> Keys \cup {Nil}]
    BY <2>2, <2>3, ChainFront
  <2>5. next' = n2 /\ prev' = p2
    BY <1>4
  <2> HIDE DEF n2, p2
  <2> QED
    BY <1>4, <2>1, <2>4, <2>5
<1>6. claims' \in [Keys -> Values \cup {Nil}]
  BY <1>4
<1>7. KeysOf(cache') = KeysOf(d) \cup {k}
  <2>1. <<k>> \in Seq(Keys) /\ Len(<<k>>) = 1 /\ <<k>>[1] = k /\ Len(d.order) \in Nat
    BY <1>1, LenProperties
  <2>2. PICK w : w = <<k>> \o d.order
    OBVIOUS
  <2>3. /\ w \in Seq(Keys) /\ Len(w) = Len(<<k>>) + Len(d.order)
        /\ \A i \in 1 .. Len(<<k>>) + Len(d.order) :
             w[i] = IF i <= Len(<<k>>) THEN <<k>>[i] ELSE d.order[i - Len(<<k>>)]
    BY <1>1, <2>1, <2>2, ConcatProperties
  <2>4. DOMAIN w = 1 .. Len(d.order) + 1 /\ w[1] = k
        /\ \A i \in 2 .. Len(d.order) + 1 : w[i] = d.order[i - 1]
    BY <2>1, <2>3, LenProperties
  <2>5. ASSUME NEW x PROVE x \in {w[i] : i \in DOMAIN w} <=> x \in KeysOf(d) \cup {k}
    <3>1. ASSUME NEW i \in DOMAIN w PROVE w[i] \in KeysOf(d) \cup {k}
      <4>1. CASE i = 1
        BY <2>4, <4>1
      <4>2. CASE i # 1
        <5>1. i - 1 \in 1 .. Len(d.order) /\ w[i] = d.order[i - 1]
          BY <2>1, <2>4, <4>2
        <5> QED
          BY <1>1, <5>1
      <4> QED
        BY <4>1, <4>2
    <3>2. ASSUME NEW i \in 1 .. Len(d.order) PROVE d.order[i] \in {w[x1] : x1 \in DOMAIN w}
      <4>1. i + 1 \in DOMAIN w /\ w[i + 1] = d.order[i]
        <5>1. i + 1 \in 2 .. Len(d.order) + 1 /\ (i + 1) - 1 = i
          BY <2>1
        <5> QED
          BY <2>1, <2>4, <5>1
      <4> QED
        BY <4>1
    <3>3. k \in {w[i] : i \in DOMAIN w}
      <4>1. 1 \in DOMAIN w
        BY <2>1, <2>4
      <4> QED
        BY <2>4, <4>1
    <3> QED
      BY <1>1, <3>1, <3>2, <3>3
  <2>6. KeysOf(cache') = {w[i] : i \in DOMAIN w}
    BY <1>3, <2>2 DEF KeysOf
  <2> QED
    BY <2>5, <2>6
<1>8. ASSUME NEW x \in items' PROVE claims'[x] = cache'.items[x]
  <2>1. x = k \/ x \in KeysOf(d)
    OBVIOUS
  <2>2. x \in Keys /\ cache'.items[x] = IF x = k THEN v ELSE d.items[x]
    BY <1>1, <1>2, <1>3
  <2>3. claims'[x] = IF x = k THEN v ELSE claims[x]
    BY <1>4, <2>2
  <2> QED
    BY <2>1, <2>2, <2>3
<1> QED
  BY <1>3, <1>5, <1>6, <1>7, <1>8 DEF Agrees, FieldsOK

\* put of a new key while there is room.
LEMMA InsertKeeps ==
    ASSUME IInv, NEW k \in Keys, NEW v \in Values, List!Insert(k, v), Put(k, v)
    PROVE  IInv'
<1>1. /\ WellFormed(cache, Keys, Values, Capacity) /\ items = KeysOf(cache)
      /\ Cardinality(items) = Len(cache.order) /\ cache.visited \subseteq items
      /\ Len(cache.order) \in Nat
  BY Known
<1>2. cache' = PutOp(cache, k, v, Capacity)
  BY DEF Put
<1>3. /\ List!Idle /\ Capacity > 0 /\ k \notin items /\ Cardinality(items) < Capacity
      /\ items' = items \cup {k} /\ UNCHANGED <<hand, op, obj>>
      /\ List!LinkFront(k, v, head, tail, prev, next)
  BY SameCardinality DEF List!Insert
<1>4. cache' = Insert(cache, k, v)
  BY <1>1, <1>2, <1>3, SieveAssumption DEF PutOp, Hit, Full
<1>5. CacheInv'
  BY <1>1, <1>2, PutWellFormed, SieveAssumption DEF CacheInv
<1>6. /\ Chain(cache.order, head, tail, prev, next) /\ hand = cache.hand
      /\ \A x \in items : claims[x] = cache.items[x]
      /\ prev \in [Keys -> Keys \cup {Nil}] /\ next \in [Keys -> Keys \cup {Nil}]
      /\ claims \in [Keys -> Values \cup {Nil}] /\ visited = cache.visited
  BY <1>3 DEF IInv, Agrees, FieldsOK
<1>7. Agrees' /\ FieldsOK'
  BY <1>1, <1>3, <1>4, <1>6, LinkAgrees
<1>8. cache'.visited = cache.visited
  BY <1>4 DEF Insert
<1>9. visited' = visited
  BY <1>1, <1>3, <1>6 DEF List!LinkFront
<1>10. List!Idle'
  BY <1>3 DEF List!Idle, List!NoOp
<1> QED
  BY <1>5, <1>6, <1>7, <1>8, <1>9, <1>10 DEF IInv

\* A put that finds the cache full starts its sweep where the closed form does.
LEMMA BeginEvictKeeps ==
    ASSUME IInv, NEW k \in Keys, NEW v \in Values, BeginEvict(k, v)
    PROVE  IInv'
<1>1. /\ WellFormed(cache, Keys, Values, Capacity) /\ cache.order \in Seq(Keys)
      /\ Cardinality(items) = Len(cache.order) /\ Len(cache.order) \in Nat
      /\ DOMAIN cache.order = 1 .. Len(cache.order)
      /\ (cache.order = <<>> <=> Len(cache.order) = 0)
  BY Known
<1>2. /\ List!Idle /\ Capacity > 0 /\ k \notin items /\ Cardinality(items) >= Capacity
      /\ op' = [key |-> k, val |-> v, before |-> visited]
      /\ obj' = IF hand = Nil THEN tail ELSE hand
      /\ UNCHANGED <<items, head, tail, hand, prev, next, visited, claims, cache>>
  BY SameCardinality DEF BeginEvict, List!BeginEvict, List!list
<1>3. cache.order # <<>> /\ Len(cache.order) # 0
  BY <1>1, <1>2, SieveAssumption
<1>4. CacheInv' /\ FieldsOK' /\ Agrees'
  BY <1>2, AgreementKept
<1>5. ~List!Idle'
  <2>1. op'.key = k /\ k # Nil
    BY <1>2, SieveAssumption
  <2> QED
    BY <2>1 DEF List!Idle, List!NoOp
<1>6. /\ SweepPos(cache, 0) = Start(cache) /\ Start(cache) \in 1 .. Len(cache.order)
  BY <1>1, <1>3, SweepWalks
<1>7. obj' = cache.order[Start(cache)]
  <2>1. hand = cache.hand /\ tail = cache.order[Len(cache.order)]
    BY <1>3 DEF IInv, Agrees, Chain
  <2>2. CASE hand = Nil
    BY <1>2, <2>1, <2>2 DEF Start
  <2>3. CASE hand # Nil
    <3>1. cache.hand \in KeysOf(cache)
      BY <1>1, <2>1, <2>3 DEF WellFormed
    <3>2. \E i \in DOMAIN cache.order : cache.order[i] = cache.hand
      BY <3>1 DEF KeysOf
    <3>3. cache.order[Start(cache)] = cache.hand
      BY <2>1, <2>3, <3>2 DEF Start
    <3> QED
      BY <1>2, <2>1, <2>3, <3>3
  <2> QED
    BY <2>2, <2>3
<1>8. visited = cache.visited
  BY <1>2 DEF IInv
<1>9. SweptTo(0)'
  <2>1. At(0)' = cache.order[SweepPos(cache, 0)]
    BY <1>2 DEF At, SweepPos, Start
  <2>2. obj' = At(0)'
    BY <1>6, <1>7, <2>1
  <2>3. 0 .. 0 - 1 = {}
    OBVIOUS
  <2> QED
    BY <1>2, <1>8, <2>2, <2>3 DEF SweptTo
<1>10. 0 \in 0 .. Len(cache.order)
  BY <1>1
<1>11. Evicting'
  <2>1. op'.key \in Keys \ items' /\ op'.val \in Values /\ op'.before = cache'.visited
    BY <1>2, <1>8
  <2>2. Capacity > 0 /\ Len(cache'.order) >= Capacity
    BY <1>1, <1>2
  <2>3. \E j \in 0 .. Len(cache'.order) : SweptTo(j)'
    BY <1>2, <1>9, <1>10
  <2> QED
    BY <2>1, <2>2, <2>3 DEF Evicting
<1> QED
  BY <1>4, <1>5, <1>11 DEF IInv

\* A turn of the loop clears the next bit of the closed form's sweep (evict's loop).
LEMMA SweepKeeps ==
    ASSUME IInv, Sweep
    PROVE  IInv'
<1> DEFINE L == Len(cache.order)
<1>1. /\ ~List!Idle /\ obj \in visited /\ visited' = visited \ {obj}
      /\ obj' = IF prev[obj] = Nil THEN tail ELSE prev[obj]
      /\ UNCHANGED <<items, head, tail, hand, prev, next, claims, op, cache>>
  BY DEF Sweep, List!Sweep
<1>2. Evicting
  BY <1>1 DEF IInv
<1>3. PICK j \in 0 .. L : SweptTo(j)
  BY <1>2 DEF Evicting
<1>4. /\ WellFormed(cache, Keys, Values, Capacity) /\ cache.order \in Seq(Keys) /\ L \in Nat
      /\ \A i, m \in 1 .. L : i # m => cache.order[i] # cache.order[m]
      /\ (cache.order = <<>> <=> L = 0)
      /\ items = {cache.order[i] : i \in 1 .. L} /\ cache.visited \subseteq items
  BY Known
<1>5. cache.order # <<>> /\ L # 0
  BY <1>2, <1>4, SieveAssumption DEF Evicting
<1>6. /\ \A i \in 0 .. L : SweepPos(cache, i) \in 1 .. L
      /\ \A i \in 0 .. L - 1 :
           SweepPos(cache, i + 1) = IF SweepPos(cache, i) = 1 THEN L ELSE SweepPos(cache, i) - 1
      /\ \A q \in 1 .. L : \E i \in 0 .. L - 1 : SweepPos(cache, i) = q
  BY <1>4, <1>5, SweepWalks
<1> HIDE DEF L
<1>7. /\ obj = At(j) /\ \A i \in 0 .. j - 1 : At(i) \in cache.visited
      /\ visited = cache.visited \ {At(i) : i \in 0 .. j - 1}
  BY <1>3 DEF SweptTo
<1>8. j # L
  <2> SUFFICES ASSUME j = L PROVE FALSE
    OBVIOUS
  <2>1. PICK q \in 1 .. L : obj = cache.order[q]
    BY <1>1, <1>4, <1>7
  <2>2. PICK i \in 0 .. L - 1 : SweepPos(cache, i) = q
    BY <1>6
  <2>3. obj = At(i)
    BY <2>1, <2>2 DEF At
  <2> QED
    BY <1>1, <1>7, <2>2, <2>3
<1>9. j \in 0 .. L - 1 /\ j + 1 \in 0 .. L
  BY <1>4, <1>8
<1>10. PICK q : q = SweepPos(cache, j)
  OBVIOUS
<1>11. q \in 1 .. L /\ obj = cache.order[q]
  BY <1>6, <1>7, <1>10 DEF At
<1>12. SweepPos(cache, j + 1) = IF q = 1 THEN L ELSE q - 1
  BY <1>6, <1>9, <1>10
<1>13. prev[obj] = (IF q = 1 THEN Nil ELSE cache.order[q - 1]) /\ tail = cache.order[L]
  BY <1>5, <1>11 DEF IInv, Agrees, Chain, L
<1>14. obj' = cache.order[SweepPos(cache, j + 1)]
  <2>1. CASE q = 1
    BY <1>1, <1>12, <1>13, <2>1
  <2>2. CASE q # 1
    <3>1. q - 1 \in 1 .. Len(cache.order)
      BY <1>4, <1>11, <2>2 DEF L
    <3>2. cache.order[q - 1] \in Keys
      BY <1>4, <3>1, ElementOfSeq
    <3> QED
      BY <1>1, <1>12, <1>13, <2>2, <3>2, SieveAssumption
  <2> QED
    BY <2>1, <2>2
<1>15. \A i : At(i)' = At(i)
  BY <1>1 DEF At, SweepPos, Start
<1>16. SweptTo(j + 1)'
  <2>1. obj' = At(j + 1)'
    BY <1>14, <1>15 DEF At
  <2>2. ASSUME NEW i \in 0 .. (j + 1) - 1 PROVE At(i) \in cache.visited
    <3>1. i \in 0 .. j - 1 \/ i = j
      BY <1>9
    <3> QED
      BY <1>1, <1>7, <3>1
  <2>3. {At(i) : i \in 0 .. (j + 1) - 1} = {At(i) : i \in 0 .. j - 1} \cup {At(j)}
    <3>1. 0 .. (j + 1) - 1 = (0 .. j - 1) \cup {j}
      BY <1>9
    <3> QED
      BY <3>1
  <2>4. visited' = cache.visited \ {At(i) : i \in 0 .. (j + 1) - 1}
    BY <1>1, <1>7, <2>3
  <2>5. \A i \in 0 .. (j + 1) - 1 : At(i)' \in cache'.visited
    BY <1>1, <1>15, <2>2
  <2>6. {At(i)' : i \in 0 .. (j + 1) - 1} = {At(i) : i \in 0 .. (j + 1) - 1}
    BY <1>15
  <2>7. visited' = cache'.visited \ {At(i)' : i \in 0 .. (j + 1) - 1}
    BY <1>1, <2>4, <2>6
  <2> QED
    BY <2>1, <2>5, <2>7 DEF SweptTo
<1>17. CacheInv' /\ FieldsOK' /\ Agrees'
  BY <1>1, AgreementKept
<1>18. ~List!Idle'
  BY <1>1 DEF List!Idle, List!NoOp
<1>19. Evicting'
  <2>1. \E i \in 0 .. Len(cache'.order) : SweptTo(i)'
    BY <1>1, <1>9, <1>16 DEF L
  <2>2. /\ op'.key \in Keys \ items' /\ op'.val \in Values /\ op'.before = cache'.visited
        /\ Capacity > 0 /\ Len(cache'.order) >= Capacity
    BY <1>1, <1>2 DEF Evicting
  <2> QED
    BY <2>1, <2>2 DEF Evicting
<1> QED
  BY <1>17, <1>18, <1>19 DEF IInv

\* The put that evicts ends as the closed form's one step: the same entry goes, the same
\* bits are cleared, the hand stops at the same place and the new key is in front (evict,
\* remove and the end of put).
LEMMA EndEvictKeeps ==
    ASSUME IInv, EndEvict
    PROVE  IInv'
<1> DEFINE L == Len(cache.order)
           c == EvictOp(cache)
<1>1. /\ ~List!Idle /\ obj # Nil /\ obj \notin visited
      /\ hand' = prev[obj] /\ items' = (items \ {obj}) \cup {op.key} /\ op' = List!NoOp
      /\ List!LinkFront(op.key, op.val, List!HeadWithout(obj), List!TailWithout(obj),
                        List!PrevWithout(obj), List!NextWithout(obj))
      /\ cache' = PutOp(cache, op.key, op.val, Capacity)
  BY DEF EndEvict, List!EvictAndInsert, Put
<1>2. Evicting
  BY <1>1 DEF IInv
<1>3. PICK j \in 0 .. L : SweptTo(j)
  BY <1>2 DEF Evicting
<1>4. /\ WellFormed(cache, Keys, Values, Capacity) /\ cache.order \in Seq(Keys) /\ L \in Nat
      /\ \A i, m \in 1 .. L : i # m => cache.order[i] # cache.order[m]
      /\ (cache.order = <<>> <=> L = 0) /\ items = KeysOf(cache)
      /\ items = {cache.order[i] : i \in 1 .. L} /\ cache.visited \subseteq items
  BY Known
<1>5. cache.order # <<>> /\ L # 0
  BY <1>2, <1>4, SieveAssumption DEF Evicting
<1>6. PICK q \in 1 .. L : q = SweepPos(cache, j)
  BY <1>4, <1>5, SweepWalks
<1>7. /\ obj = cache.order[q] /\ SweepPos(cache, Moves(cache)) = q
      /\ visited = cache.visited \ Passed(cache)
  BY <1>1, <1>3, <1>4, <1>5, <1>6, VictimFound DEF SweptTo, At
<1>8. /\ op.key \in Keys /\ op.key \notin items /\ op.val \in Values
      /\ Capacity > 0 /\ L >= Capacity
  BY <1>2 DEF Evicting
<1>9. cache' = Insert(c, op.key, op.val)
  BY <1>1, <1>4, <1>8, SieveAssumption DEF PutOp, Hit, Full
<1>10. PICK w : w = SubSeq(cache.order, 1, q - 1) \o SubSeq(cache.order, q + 1, L)
  OBVIOUS
<1>11. /\ w \in Seq(Keys) /\ Len(w) = L - 1
       /\ \A i \in 1 .. L - 1 : w[i] = IF i < q THEN cache.order[i] ELSE cache.order[i + 1]
  <2>1. PICK s \in Seq(Keys) : s = cache.order
    BY <1>4
  <2>2. q \in 1 .. Len(s) /\ w = SubSeq(s, 1, q - 1) \o SubSeq(s, q + 1, Len(s))
    BY <1>6, <1>10, <2>1
  <2>3. /\ w \in Seq(Keys) /\ Len(w) = Len(s) - 1
        /\ \A i \in 1 .. Len(s) - 1 : w[i] = IF i < q THEN s[i] ELSE s[i + 1]
    BY <2>2, RemoveAt
  <2> QED
    BY <2>1, <2>3
<1>12. /\ c.order = w /\ c.visited = visited
       /\ c.hand = (IF q = 1 THEN Nil ELSE cache.order[q - 1])
       /\ c.items = [k \in KeysOf(cache) \ {obj} |-> cache.items[k]]
  BY <1>7, <1>10 DEF EvictOp
<1>13. WellFormed(c, Keys, Values, Capacity)
  BY <1>4, <1>5, EvictWellFormed, SieveAssumption
<1> HIDE DEF L, c
<1>14. /\ Chain(cache.order, head, tail, prev, next)
       /\ \A k \in items : claims[k] = cache.items[k]
       /\ prev \in [Keys -> Keys \cup {Nil}] /\ next \in [Keys -> Keys \cup {Nil}]
       /\ claims \in [Keys -> Values \cup {Nil}]
  BY DEF IInv, Agrees, FieldsOK
<1>15. /\ Chain(c.order, List!HeadWithout(obj), List!TailWithout(obj),
                List!PrevWithout(obj), List!NextWithout(obj))
       /\ List!NextWithout(obj) \in [Keys -> Keys \cup {Nil}]
       /\ List!PrevWithout(obj) \in [Keys -> Keys \cup {Nil}]
  <2>1. PICK s \in Seq(Keys) : s = cache.order
    BY <1>4
  <2>2. Len(s) = L
    BY <2>1 DEF L
  <2>3. /\ Chain(w, IF prev[obj] = Nil THEN next[obj] ELSE head,
                 IF next[obj] = Nil THEN prev[obj] ELSE tail,
                 List!PrevWithout(obj), List!NextWithout(obj))
        /\ List!NextWithout(obj) \in [Keys -> Keys \cup {Nil}]
        /\ List!PrevWithout(obj) \in [Keys -> Keys \cup {Nil}]
    <3>1. List!NextWithout(obj) = IF prev[obj] # Nil THEN [next EXCEPT ![prev[obj]] = next[obj]]
                                  ELSE next
      BY DEF List!NextWithout
    <3>2. List!PrevWithout(obj) = IF next[obj] # Nil THEN [prev EXCEPT ![next[obj]] = prev[obj]]
                                  ELSE prev
      BY DEF List!PrevWithout
    <3>3. \A i, m \in 1 .. Len(s) : i # m => s[i] # s[m]
      BY <1>4, <2>1, <2>2
    <3>4. q \in 1 .. Len(s) /\ obj = s[q] /\ Len(w) = Len(s) - 1
      BY <1>6, <1>7, <1>11, <2>1, <2>2
    <3>5. \A i \in 1 .. Len(s) - 1 : w[i] = IF i < q THEN s[i] ELSE s[i + 1]
      BY <1>11, <2>1, <2>2
    <3>6. Chain(s, head, tail, prev, next)
      BY <1>14, <2>1
    <3> QED
      <4>1. PICK p \in [Keys -> Keys \cup {Nil}], n \in [Keys -> Keys \cup {Nil}] :
              p = prev /\ n = next
        BY <1>14
      <4>2. PICK h, t, e, p2, n2 :
              /\ h = head /\ t = tail /\ e = obj
              /\ p2 = List!PrevWithout(obj) /\ n2 = List!NextWithout(obj)
        OBVIOUS
      <4>3. Chain(s, h, t, p, n) /\ e = s[q]
        BY <3>4, <3>6, <4>1, <4>2
      <4>4. n2 = Patched(n, p[e], n[e]) /\ p2 = Patched(p, n[e], p[e])
        BY <3>1, <3>2, <4>1, <4>2 DEF Patched
      <4>0. Distinct(s) /\ Without(w, s, q)
        BY <3>3, <3>4, <3>5 DEF Distinct, Without
      <4>5. /\ Chain(w, IF p[e] = Nil THEN n[e] ELSE h, IF n[e] = Nil THEN p[e] ELSE t, p2, n2)
            /\ n2 \in [Keys -> Keys \cup {Nil}] /\ p2 \in [Keys -> Keys \cup {Nil}]
        BY <3>4, <4>0, <4>3, <4>4, ChainWithout
      <4> QED
        BY <4>1, <4>2, <4>5
  <2> QED
    BY <1>12, <2>3 DEF List!HeadWithout, List!TailWithout
<1>16. KeysOf(c) = items \ {obj}
  <2>1. DOMAIN c.items = KeysOf(c)
    BY <1>13 DEF WellFormed
  <2> QED
    BY <1>4, <1>12, <2>1
<1>17. hand' = c.hand
  <2>1. prev[obj] = IF q = 1 THEN Nil ELSE cache.order[q - 1]
    BY <1>7, <1>14 DEF Chain, L
  <2> QED
    BY <1>1, <1>12, <2>1
<1>18. \A x \in KeysOf(c) : claims[x] = c.items[x]
  BY <1>4, <1>12, <1>14, <1>16
<1>19. items' = KeysOf(c) \cup {op.key} /\ op.key \notin KeysOf(c)
  BY <1>1, <1>8, <1>16
<1>20. Agrees' /\ FieldsOK'
  BY <1>1, <1>8, <1>9, <1>13, <1>14, <1>15, <1>17, <1>18, <1>19, LinkAgrees
<1>21. CacheInv'
  BY <1>1, <1>4, <1>8, PutWellFormed, SieveAssumption DEF CacheInv
<1>22. visited' = cache'.visited
  <2>1. cache'.visited = c.visited
    BY <1>9 DEF Insert
  <2>2. visited' = visited \ {op.key}
    BY <1>1 DEF List!LinkFront
  <2>3. op.key \notin visited
    BY <1>4, <1>7, <1>8
  <2> QED
    BY <1>12, <2>1, <2>2, <2>3
<1>23. List!Idle'
  BY <1>1 DEF List!Idle, List!NoOp
<1> QED
  BY <1>20, <1>21, <1>22, <1>23 DEF IInv

-----------------------------------------------------------------------------
(* The theorems.                                                           *)

\* An empty list is an empty cache.
LEMMA InitAgrees == BothInit => IInv
<1> SUFFICES ASSUME BothInit PROVE IInv
  OBVIOUS
<1>1. /\ items = {} /\ head = Nil /\ tail = Nil /\ hand = Nil
      /\ prev = [k \in Keys |-> Nil] /\ next = [k \in Keys |-> Nil]
      /\ visited = {} /\ claims = [k \in Keys |-> Nil] /\ op = List!NoOp /\ obj = Nil
  BY DEF BothInit, List!Init
<1>2. cache = EmptyCache
  BY DEF BothInit, Init
<1>3. CacheInv /\ KeysOf(cache) = {}
  BY <1>2, EmptyWellFormed, SieveAssumption DEF CacheInv
<1>4. cache.order = <<>> /\ Len(cache.order) = 0 /\ cache.hand = Nil /\ cache.visited = {}
  BY <1>2 DEF EmptyCache
<1>5. Chain(cache.order, head, tail, prev, next)
  BY <1>1, <1>4 DEF Chain
<1>6. FieldsOK
  BY <1>1 DEF FieldsOK
<1>7. Agrees
  BY <1>1, <1>3, <1>4, <1>5 DEF Agrees
<1>8. List!Idle /\ visited = cache.visited
  BY <1>1, <1>4 DEF List!Idle
<1> QED
  BY <1>3, <1>6, <1>7, <1>8 DEF IInv

\* Every step of the list keeps the agreement with the closed form.
LEMMA NextAgrees == IInv /\ [BothNext]_vars => IInv'
<1> SUFFICES ASSUME IInv, [BothNext]_vars PROVE IInv'
  OBVIOUS
<1>1. ASSUME NEW k \in Keys, GetBoth(k) PROVE IInv'
  BY <1>1, GetKeeps
<1>2. ASSUME NEW k \in Keys, NEW v \in Values, PutBoth(k, v) PROVE IInv'
  BY <1>2, RefreshKeeps, InsertKeeps DEF PutBoth
<1>3. ASSUME NEW k \in Keys, NEW v \in Values, BeginEvict(k, v) PROVE IInv'
  BY <1>3, BeginEvictKeeps
<1>4. CASE Sweep
  BY <1>4, SweepKeeps
<1>5. CASE EndEvict
  BY <1>5, EndEvictKeeps
<1>6. CASE UNCHANGED vars
  <2>1. UNCHANGED <<items, head, tail, hand, prev, next, visited, claims, op, obj, cache>>
    BY <1>6 DEF vars, List!vars, List!list
  <2>2. CacheInv' /\ FieldsOK' /\ Agrees'
    BY <2>1, AgreementKept
  <2>3. List!Idle' <=> List!Idle
    BY <2>1 DEF List!Idle, List!NoOp
  <2>4. Evicting => Evicting'
    <3> SUFFICES ASSUME Evicting PROVE Evicting'
      OBVIOUS
    <3>1. PICK j \in 0 .. Len(cache.order) : SweptTo(j)
      BY DEF Evicting
    <3>2. \A i : At(i)' = At(i)
      BY <2>1 DEF At, SweepPos, Start
    <3>3. {At(i)' : i \in 0 .. j - 1} = {At(i) : i \in 0 .. j - 1}
      BY <3>2
    <3>4. SweptTo(j)'
      BY <2>1, <3>1, <3>2, <3>3 DEF SweptTo
    <3>5. \E i \in 0 .. Len(cache'.order) : SweptTo(i)'
      BY <2>1, <3>4
    <3>6. /\ op'.key \in Keys \ items' /\ op'.val \in Values /\ op'.before = cache'.visited
          /\ Capacity > 0 /\ Len(cache'.order) >= Capacity
      BY <2>1 DEF Evicting
    <3> QED
      BY <3>5, <3>6 DEF Evicting
  <2> QED
    BY <2>1, <2>2, <2>3, <2>4 DEF IInv
<1> QED
  BY <1>1, <1>2, <1>3, <1>4, <1>5, <1>6 DEF BothNext

\* The list and the closed form agree whatever the requests do.
THEOREM ListAgrees == BothSpec => []IInv
BY InitAgrees, NextAgrees, PTL DEF BothSpec

\* The list is well formed between and during operations, for every capacity and set of
\* keys: the pointers spell each indexed entry once, the hand is on an entry or nowhere and
\* a sweep always has an entry to look at, so evict never returns empty-handed.
THEOREM ListStaysWellFormed == BothSpec => []ListOK
<1>1. IInv => ListOK
  <2> SUFFICES ASSUME IInv PROVE ListOK
    OBVIOUS
  <2>1. PICK s : s = cache.order
    OBVIOUS
  <2>2. /\ WellFormed(cache, Keys, Values, Capacity) /\ List!Order = s
        /\ Cardinality(items) = Len(s) /\ items = {s[i] : i \in 1 .. Len(s)}
        /\ cache.visited \subseteq items /\ Len(s) \in Nat /\ items = KeysOf(cache)
        /\ (s = <<>> <=> Len(s) = 0)
    BY <2>1, Known
  <2>3. tail = IF Len(s) = 0 THEN Nil ELSE s[Len(s)]
    BY <2>1 DEF IInv, Agrees, Chain
  <2>4. \A i \in 1 .. Len(s) : prev[s[i]] = IF i = 1 THEN Nil ELSE s[i - 1]
    BY <2>1 DEF IInv, Agrees, Chain
  <2>5. hand \in items \cup {Nil}
    BY <2>2 DEF IInv, Agrees, WellFormed
  <2>6. visited \subseteq items
    BY <2>2 DEF IInv, Evicting, SweptTo
  <2>7. ~List!Idle => obj \in items
    <3> SUFFICES ASSUME ~List!Idle PROVE obj \in items
      OBVIOUS
    <3>1. Evicting
      BY DEF IInv
    <3>2. s # <<>>
      BY <2>1, <2>2, <3>1, SieveAssumption DEF Evicting
    <3>3. PICK j \in 0 .. Len(s) : obj = s[SweepPos(cache, j)]
      BY <2>1, <3>1 DEF Evicting, SweptTo, At
    <3>4. SweepPos(cache, j) \in 1 .. Len(s)
      BY <2>1, <2>2, <3>2, SweepWalks
    <3> QED
      BY <2>2, <3>3, <3>4
  <2> QED
    <3> DEFINE w == List!Order
    <3>1. Len(w) = List!Cardinality(items) /\ items = {w[i] : i \in 1 .. Len(w)}
      BY <2>2, SameCardinality
    <3>2. tail = IF Len(w) = 0 THEN Nil ELSE w[Len(w)]
      BY <2>2, <2>3
    <3>3. \A i \in 1 .. Len(w) : prev[w[i]] = IF i = 1 THEN Nil ELSE w[i - 1]
      BY <2>2, <2>4
    <3> QED
      BY <2>5, <2>6, <2>7, <3>1, <3>2, <3>3 DEF ListOK, List!ListOK
<1> QED
  BY <1>1, ListAgrees, PTL

\* The abstract cache that a state of the list stands for.
Abs == [order |-> List!Order, visited |-> IF List!Idle THEN visited ELSE op.before,
        hand |-> hand, items |-> [k \in items |-> claims[k]]]

\* It is the closed form's.
LEMMA AbsIsCache == IInv => Abs = cache
<1> SUFFICES ASSUME IInv PROVE Abs = cache
  OBVIOUS
<1>1. /\ WellFormed(cache, Keys, Values, Capacity) /\ List!Order = cache.order
      /\ items = KeysOf(cache)
  BY Known
<1>2. (IF List!Idle THEN visited ELSE op.before) = cache.visited
  BY DEF IInv, Evicting
<1>3. hand = cache.hand
  BY DEF IInv, Agrees
<1>4. [k \in items |-> claims[k]] = cache.items
  <2>1. cache.items \in [items -> Values]
    BY <1>1 DEF WellFormed
  <2>2. \A k \in items : claims[k] = cache.items[k]
    BY DEF IInv, Agrees
  <2> QED
    BY <2>1, <2>2
<1>5. cache = [order |-> cache.order, visited |-> cache.visited, hand |-> cache.hand,
               items |-> cache.items]
  BY <1>1 DEF WellFormed
<1> QED
  BY <1>1, <1>2, <1>3, <1>4, <1>5 DEF Abs

\* The closed form inside the refinement is the one above.
LEMMA SameOps ==
    ASSUME NEW c, NEW k, NEW v, NEW n
    PROVE  /\ List!Abstract!EmptyCache = EmptyCache
           /\ List!Abstract!GetOp(c, k) = GetOp(c, k)
           /\ List!Abstract!PutOp(c, k, v, n) = PutOp(c, k, v, n)
<1>1. List!Abstract!EmptyCache = EmptyCache
  BY DEF List!Abstract!EmptyCache, EmptyCache
<1>2. List!Abstract!KeysOf(c) = KeysOf(c) /\ (List!Abstract!Hit(c, k) <=> Hit(c, k))
  BY DEF List!Abstract!KeysOf, KeysOf, List!Abstract!Hit, Hit
<1>3. List!Abstract!GetOp(c, k) = GetOp(c, k)
  BY <1>2 DEF List!Abstract!GetOp, GetOp
<1>4. List!Abstract!Start(c) = Start(c)
  BY DEF List!Abstract!Start, Start
<1>5. \A i : List!Abstract!SweepPos(c, i) = SweepPos(c, i)
  BY <1>4 DEF List!Abstract!SweepPos, SweepPos
<1>6. List!Abstract!Unvisited(c) = Unvisited(c)
  BY <1>5 DEF List!Abstract!Unvisited, Unvisited
<1>7. List!Abstract!Moves(c) = Moves(c)
  BY <1>6 DEF List!Abstract!Moves, Moves
<1>8. List!Abstract!Passed(c) = Passed(c)
  BY <1>2, <1>5, <1>6, <1>7 DEF List!Abstract!Passed, Passed
<1>9. List!Abstract!EvictOp(c) = EvictOp(c)
  BY <1>2, <1>5, <1>7, <1>8 DEF List!Abstract!EvictOp, EvictOp
<1>10. List!Abstract!Refresh(c, k, v) = Refresh(c, k, v)
  BY DEF List!Abstract!Refresh, Refresh
<1>11. \A d : List!Abstract!Insert(d, k, v) = Insert(d, k, v)
  BY DEF List!Abstract!Insert, Insert, List!Abstract!KeysOf, KeysOf
<1>12. List!Abstract!PutOp(c, k, v, n) = PutOp(c, k, v, n)
  BY <1>2, <1>9, <1>10, <1>11 DEF List!Abstract!PutOp, PutOp, List!Abstract!Full, Full
<1> QED
  BY <1>1, <1>3, <1>12

\* Every step of the pair is a step of the closed form or leaves it alone.
LEMMA StepIsAbstract == IInv /\ [BothNext]_vars => [Next]_cache
<1> SUFFICES ASSUME IInv, [BothNext]_vars PROVE [Next]_cache
  OBVIOUS
<1>1. ASSUME NEW k \in Keys, GetBoth(k) PROVE Next
  BY <1>1 DEF GetBoth, Next
<1>2. ASSUME NEW k \in Keys, NEW v \in Values, PutBoth(k, v) PROVE Next
  BY <1>2 DEF PutBoth, Next
<1>3. ASSUME NEW k \in Keys, NEW v \in Values, BeginEvict(k, v) PROVE UNCHANGED cache
  BY <1>3 DEF BeginEvict
<1>4. CASE Sweep
  BY <1>4 DEF Sweep
<1>5. CASE EndEvict
  <2>1. op.key \in Keys /\ op.val \in Values
    BY <1>5 DEF IInv, Evicting, EndEvict, List!EvictAndInsert
  <2>2. Put(op.key, op.val)
    BY <1>5 DEF EndEvict
  <2> QED
    BY <2>1, <2>2 DEF Next
<1>6. CASE UNCHANGED vars
  BY <1>6 DEF vars
<1> QED
  BY <1>1, <1>2, <1>3, <1>4, <1>5, <1>6 DEF BothNext

\* The pointers and the sweep loop implement the closed form, for every capacity and set of
\* keys: a put that evicts is one abstract step however far its hand travels.
THEOREM ListImplements == BothSpec => Implements
<1>1. BothInit => List!Abstract!Init
  <2> SUFFICES ASSUME BothInit PROVE List!Abstract!Init
    OBVIOUS
  <2>1. Abs = cache
    BY InitAgrees, AbsIsCache
  <2>2. cache = List!Abstract!EmptyCache
    BY SameOps DEF BothInit, Init
  <2> QED
    BY <2>1, <2>2 DEF List!Abstract!Init, Abs
<1>2. IInv /\ IInv' /\ [BothNext]_vars => [List!Abstract!Next]_Abs
  <2> SUFFICES ASSUME IInv, IInv', [BothNext]_vars PROVE [List!Abstract!Next]_Abs
    OBVIOUS
  <2>1. Abs = cache
    BY AbsIsCache
  <2>2. Abs' = cache'
    <3>1. (IInv => Abs = cache)'
      BY AbsIsCache, PTL
    <3> QED
      BY <3>1
  <2>3. [Next]_cache
    BY StepIsAbstract
  <2>4. ASSUME NEW k \in Keys, Get(k) PROVE List!Abstract!Get(k)
    <3>1. Abs' = List!Abstract!GetOp(Abs, k)
      BY <2>1, <2>2, <2>4, SameOps DEF Get
    <3> QED
      BY <3>1 DEF List!Abstract!Get, Abs
  <2>5. ASSUME NEW k \in Keys, NEW v \in Values, Put(k, v) PROVE List!Abstract!Put(k, v)
    <3>1. Abs' = List!Abstract!PutOp(Abs, k, v, Capacity)
      BY <2>1, <2>2, <2>5, SameOps DEF Put
    <3> QED
      BY <3>1 DEF List!Abstract!Put, Abs
  <2> QED
    BY <2>1, <2>2, <2>3, <2>4, <2>5 DEF Next, List!Abstract!Next
<1> QED
  BY <1>1, <1>2, ListAgrees, PTL
     DEF BothSpec, Implements, List!Implements, List!Abstract!Spec, Abs

\* What the list itself may drop, in its own variables: only the entry under the cursor when
\* a sweep ends, only from a full index that is full again afterwards, and a marked entry
\* only if every entry carried its mark when evict was called, however many marks the sweep
\* has cleared since (put, evict, remove).
ListEviction ==
    [][LET gone == items \ items' IN
       gone # {} =>
         /\ gone = {obj} /\ Cardinality(items) = Capacity /\ Cardinality(items') = Capacity
         /\ obj \in op.before => op.before = items]_(List!vars)

\* The index has the closed form's keys, each once.
LEMMA IndexSize == IInv => items = KeysOf(cache) /\ Cardinality(items) = Len(cache.order)
<1> QED
  BY Known

\* The pointers and the marks keep the eviction promise at every step of every operation.
THEOREM ListEvictsAsPromised == BothSpec => ListEviction
<1>1. IInv /\ IInv' /\ [BothNext]_vars =>
         [LET gone == items \ items' IN
          gone # {} =>
            /\ gone = {obj} /\ Cardinality(items) = Capacity /\ Cardinality(items') = Capacity
            /\ obj \in op.before => op.before = items]_(List!vars)
  <2> SUFFICES ASSUME IInv, IInv', [BothNext]_vars, items \ items' # {}
               PROVE  /\ items \ items' = {obj}
                      /\ Cardinality(items) = Capacity /\ Cardinality(items') = Capacity
                      /\ obj \in op.before => op.before = items
    OBVIOUS
  <2>1. /\ items = KeysOf(cache) /\ Cardinality(items) = Len(cache.order)
        /\ items' = KeysOf(cache') /\ Cardinality(items') = Len(cache'.order)
    <3>1. (IInv => items = KeysOf(cache) /\ Cardinality(items) = Len(cache.order))'
      BY IndexSize, PTL
    <3> QED
      BY <3>1, IndexSize
  <2>2. EndEvict
    <3>1. ASSUME NEW k \in Keys, GetBoth(k) PROVE items' = items
      BY <3>1 DEF GetBoth, List!Get
    <3>2. ASSUME NEW k \in Keys, NEW v \in Values, PutBoth(k, v) PROVE items \subseteq items'
      BY <3>2 DEF PutBoth, List!Refresh, List!Insert
    <3>3. ASSUME NEW k \in Keys, NEW v \in Values, BeginEvict(k, v) PROVE items' = items
      BY <3>3 DEF BeginEvict, List!BeginEvict, List!list
    <3>4. Sweep \/ UNCHANGED vars => items' = items
      BY DEF Sweep, List!Sweep, vars, List!vars, List!list
    <3> QED
      BY <3>1, <3>2, <3>3, <3>4 DEF BothNext
  <2>3. Evicting /\ items' = (items \ {obj}) \cup {op.key}
    BY <2>2 DEF EndEvict, List!EvictAndInsert, IInv
  <2>4. CacheInv /\ [Next]_cache
    BY StepIsAbstract DEF IInv
  <2>5. /\ Len(cache.order) = Capacity /\ Len(cache'.order) = Capacity
        /\ \E e \in items : /\ items \ items' = {e}
                            /\ e \in cache.visited => cache.visited = items
    BY <2>1, <2>4, StepEvicts
  <2>6. items \ items' = {obj} /\ (obj \in cache.visited => cache.visited = items)
    BY <2>3, <2>5
  <2> QED
    BY <2>1, <2>3, <2>5, <2>6 DEF Evicting
<1> QED
  BY <1>1, ListAgrees, PTL DEF BothSpec, ListEviction

=============================================================================
