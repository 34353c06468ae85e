--------------------------- MODULE SieveOpsProofs ---------------------------
(***************************************************************************)
(* What the cache operations do to any well formed cache, for any keys,    *)
(* values and capacity.                                                    *)
(***************************************************************************)
EXTENDS SieveOps, WellFoundedInduction, SequenceTheorems, TLAPS

\* The least-number principle, for a set.
LEMMA LeastNatural ==
    ASSUME NEW S \in SUBSET Nat, S # {}
    PROVE  \E i \in S : \A j \in S : i <= j
<1> DEFINE R == OpToRel(<, Nat)
<1>1. PICK x \in S : \A y \in S : ~(<<y, x>> \in R)
  <2>1. IsWellFoundedOn(R, Nat)
    BY NatLessThanWellFounded
  <2> HIDE DEF R
  <2> QED
    BY <2>1, WFMin, Zenon
<1>2. ASSUME NEW j \in S PROVE x <= j
  <2>1. ~(j < x)
    BY <1>1 DEF OpToRel
  <2> QED
    BY <2>1
<1> QED
  BY <1>2

\* The sweep starts on a queued entry.
LEMMA StartInQueue ==
    ASSUME NEW K, NEW V, NEW n \in Int, NEW c, WellFormed(c, K, V, n), c.order # <<>>
    PROVE  Start(c) \in 1 .. Len(c.order)
<1>1. c.order \in Seq(K) /\ DOMAIN c.order = 1 .. Len(c.order) /\ Len(c.order) \in Nat \ {0}
  BY EmptySeq DEF WellFormed
<1>2. CASE c.hand = Nil
  BY <1>1, <1>2 DEF Start
<1>3. CASE c.hand # Nil
  <2>1. \E i \in DOMAIN c.order : c.order[i] = c.hand
    BY <1>3 DEF WellFormed, KeysOf
  <2> QED
    BY <1>1, <1>3, <2>1 DEF Start
<1> QED
  BY <1>2, <1>3

\* Every position of the sweep is in the queue.
LEMMA SweepInQueue ==
    ASSUME NEW K, NEW V, NEW n \in Int, NEW c, WellFormed(c, K, V, n), c.order # <<>>,
           NEW i \in 0 .. Len(c.order) - 1
    PROVE  SweepPos(c, i) \in 1 .. Len(c.order)
<1>1. Start(c) \in 1 .. Len(c.order) /\ Len(c.order) \in Nat
  BY StartInQueue, LenProperties DEF WellFormed
<1> QED
  BY <1>1 DEF SweepPos

\* The sweep stops within one round, on an unvisited entry if there is one.
LEMMA SweepStops ==
    ASSUME NEW K, NEW V, NEW n \in Int, NEW c, WellFormed(c, K, V, n), c.order # <<>>
    PROVE  /\ Moves(c) \in 0 .. Len(c.order) - 1
           /\ Unvisited(c) # {} => Moves(c) \in Unvisited(c)
<1>1. Len(c.order) \in Nat \ {0}
  BY EmptySeq, LenProperties DEF WellFormed
<1>2. CASE Unvisited(c) = {}
  BY <1>1, <1>2 DEF Moves
<1>3. CASE Unvisited(c) # {}
  <2>1. Unvisited(c) \subseteq 0 .. Len(c.order) - 1
    BY DEF Unvisited
  <2>2. Unvisited(c) \in SUBSET Nat
    BY <2>1, <1>1
  <2>3. \E i \in Unvisited(c) : \A j \in Unvisited(c) : i <= j
    BY <1>3, <2>2, LeastNatural
  <2>4. Moves(c) \in Unvisited(c)
    BY <1>3, <2>3 DEF Moves
  <2> QED
    BY <2>1, <2>4
<1> QED
  BY <1>2, <1>3

\* The sequence without its p-th element.
LEMMA RemoveAt ==
    ASSUME NEW K, NEW s \in Seq(K), NEW p \in 1 .. Len(s)
    PROVE  LET w == SubSeq(s, 1, p - 1) \o SubSeq(s, p + 1, Len(s)) IN
           /\ w \in Seq(K)
           /\ Len(w) = Len(s) - 1
           /\ \A i \in 1 .. Len(s) - 1 : w[i] = IF i < p THEN s[i] ELSE s[i + 1]
<1> DEFINE a == SubSeq(s, 1, p - 1)
           b == SubSeq(s, p + 1, Len(s))
<1>0. Len(s) \in Nat
  BY LenProperties
<1>1. a \in Seq(K) /\ Len(a) = p - 1 /\ \A i \in 1 .. p - 1 : a[i] = s[i]
  BY <1>0, SubSeqProperties
<1>2. b \in Seq(K) /\ Len(b) = Len(s) - p /\ \A i \in 1 .. Len(s) - p : b[i] = s[p + i]
  BY <1>0, SubSeqProperties
<1> HIDE DEF a, b
<1>3. /\ a \o b \in Seq(K)
      /\ Len(a \o b) = Len(a) + Len(b)
      /\ \A i \in 1 .. Len(a) + Len(b) : (a \o b)[i] = IF i <= Len(a) THEN a[i] ELSE b[i - Len(a)]
  BY <1>1, <1>2, ConcatProperties
<1>4. Len(a \o b) = Len(s) - 1
  BY <1>0, <1>1, <1>2, <1>3
<1>5. ASSUME NEW i \in 1 .. Len(s) - 1 PROVE (a \o b)[i] = IF i < p THEN s[i] ELSE s[i + 1]
  <2>1. CASE i < p
    BY <1>0, <1>1, <1>2, <1>3, <2>1
  <2>2. CASE i >= p
    <3>1. i - (p - 1) \in 1 .. Len(s) - p /\ p + (i - (p - 1)) = i + 1
      BY <1>0, <2>2
    <3>2. (a \o b)[i] = b[i - (p - 1)]
      BY <1>0, <1>1, <1>2, <1>3, <2>2
    <3> QED
      BY <1>2, <2>2, <3>1, <3>2
  <2>3. i < p \/ i >= p
    BY <1>0
  <2> QED
    BY <2>1, <2>2, <2>3
<1> QED
  BY <1>3, <1>4, <1>5 DEF a, b

\* What eviction leaves of c: one entry is gone, a visited one only if all were.
OneGone(c, e) ==
    /\ Len(e.order) = Len(c.order) - 1
    /\ \E k \in KeysOf(c) : /\ KeysOf(e) = KeysOf(c) \ {k}
                            /\ k \in c.visited => c.visited = KeysOf(c)
    /\ \A k \in KeysOf(e) : e.items[k] = c.items[k]

\* Eviction removes one queued entry and breaks nothing.
LEMMA EvictWellFormed ==
    ASSUME NEW K, NEW V, NEW n \in Int, NEW c, WellFormed(c, K, V, n), c.order # <<>>
    PROVE  WellFormed(EvictOp(c), K, V, n) /\ OneGone(c, EvictOp(c))
<1> DEFINE p == SweepPos(c, Moves(c))
           w == SubSeq(c.order, 1, p - 1) \o SubSeq(c.order, p + 1, Len(c.order))
           e == EvictOp(c)
           L == Len(c.order)
<1>1. c.order \in Seq(K) /\ L \in Nat \ {0} /\ DOMAIN c.order = 1 .. L
  BY EmptySeq, LenProperties DEF WellFormed
<1>2. p \in 1 .. L
  BY SweepStops, SweepInQueue
<1>3. c.order[p] \notin c.visited \/ (Unvisited(c) = {} /\ c.visited = KeysOf(c) /\ Passed(c) = KeysOf(c))
  <2>1. CASE Unvisited(c) # {}
    BY <2>1, SweepStops DEF Unvisited
  <2>2. CASE Unvisited(c) = {}
    <3>1. ASSUME NEW j \in 1 .. L PROVE c.order[j] \in c.visited
      <4> DEFINE S == Start(c)
                 i == IF j <= S THEN S - j ELSE S - j + L
      <4>1. S \in 1 .. L
        BY StartInQueue
      <4>2. i \in 0 .. L - 1 /\ SweepPos(c, i) = j
        BY <1>1, <4>1 DEF SweepPos
      <4> QED
        BY <2>2, <4>2 DEF Unvisited
    <3>2. KeysOf(c) \subseteq c.visited
      BY <1>1, <3>1 DEF KeysOf
    <3> QED
      BY <2>2, <3>2 DEF Passed, WellFormed
  <2> QED
    BY <2>1, <2>2
<1>4. /\ w \in Seq(K)
      /\ Len(w) = L - 1
      /\ \A i \in 1 .. L - 1 : w[i] = IF i < p THEN c.order[i] ELSE c.order[i + 1]
  BY <1>1, <1>2, RemoveAt
<1>5. /\ e.order = w
      /\ e.visited = c.visited \ Passed(c)
      /\ e.hand = IF p = 1 THEN Nil ELSE c.order[p - 1]
      /\ e.items = [k \in KeysOf(c) \ {c.order[p]} |-> c.items[k]]
      /\ e = [order |-> e.order, visited |-> e.visited, hand |-> e.hand, items |-> e.items]
  BY DEF EvictOp
<1> HIDE DEF e, w, p
<1>6. \A i, j \in 1 .. L : i # j => c.order[i] # c.order[j]
  BY <1>1 DEF WellFormed
<1>7. DOMAIN w = 1 .. L - 1
  BY <1>4
<1>8. KeysOf(e) = KeysOf(c) \ {c.order[p]}
  <2>1. ASSUME NEW i \in 1 .. L - 1 PROVE w[i] \in KeysOf(c) \ {c.order[p]}
    <3> DEFINE j == IF i < p THEN i ELSE i + 1
    <3>1. j \in 1 .. L /\ j # p
      BY <1>1, <1>2
    <3>2. w[i] = c.order[j]
      BY <1>4
    <3> HIDE DEF j
    <3>3. c.order[j] # c.order[p] /\ c.order[j] \in KeysOf(c)
      BY <1>1, <1>2, <1>6, <3>1 DEF KeysOf
    <3> QED
      BY <3>2, <3>3
  <2>2. ASSUME NEW j \in 1 .. L, j # p PROVE \E i \in 1 .. L - 1 : w[i] = c.order[j]
    <3>1. CASE j < p
      BY <1>1, <1>2, <1>4, <3>1
    <3>2. CASE j > p
      <4>1. j - 1 \in 1 .. L - 1 /\ w[j - 1] = c.order[(j - 1) + 1]
        BY <1>1, <1>2, <1>4, <3>2
      <4>2. (j - 1) + 1 = j
        OBVIOUS
      <4> QED
        BY <4>1, <4>2
    <3> QED
      BY <1>1, <1>2, <2>2, <3>1, <3>2
  <2>3. KeysOf(e) = {w[i] : i \in 1 .. L - 1} /\ KeysOf(c) = {c.order[i] : i \in 1 .. L}
    BY <1>1, <1>5, <1>7 DEF KeysOf
  <2>4. KeysOf(e) \subseteq KeysOf(c) \ {c.order[p]}
    BY <2>1, <2>3
  <2>5. ASSUME NEW x \in KeysOf(c) \ {c.order[p]} PROVE x \in KeysOf(e)
    <3>1. PICK j \in 1 .. L : x = c.order[j]
      BY <2>3
    <3>2. j # p
      BY <3>1
    <3> QED
      BY <2>2, <2>3, <3>1, <3>2
  <2> QED
    BY <2>4, <2>5
<1>9. \A i, j \in 1 .. L - 1 : i # j => w[i] # w[j]
  <2> SUFFICES ASSUME NEW i \in 1 .. L - 1, NEW j \in 1 .. L - 1, i # j PROVE w[i] # w[j]
    OBVIOUS
  <2> DEFINE f(x) == IF x < p THEN x ELSE x + 1
  <2>1. f(i) \in 1 .. L /\ f(j) \in 1 .. L /\ f(i) # f(j)
    BY <1>1, <1>2
  <2>2. w[i] = c.order[f(i)] /\ w[j] = c.order[f(j)]
    BY <1>4
  <2> QED
    BY <1>6, <2>1, <2>2
<1>10. e.visited \subseteq KeysOf(e)
  <2>1. c.visited \subseteq KeysOf(c)
    BY DEF WellFormed
  <2> QED
    BY <1>3, <1>5, <1>8, <2>1
<1>11. e.hand \in KeysOf(e) \cup {Nil}
  <2>1. CASE p = 1
    BY <1>5, <2>1
  <2>2. CASE p # 1
    <3>1. p - 1 \in 1 .. L /\ p - 1 # p
      BY <1>1, <1>2, <2>2
    <3>2. c.order[p - 1] \in KeysOf(c) /\ c.order[p - 1] # c.order[p]
      BY <1>1, <1>2, <1>6, <3>1 DEF KeysOf
    <3> QED
      BY <1>5, <1>8, <2>2, <3>2
  <2> QED
    BY <2>1, <2>2
<1>12. c.items \in [KeysOf(c) -> V]
  BY DEF WellFormed
<1>13. e.items \in [KeysOf(e) -> V] /\ \A k \in KeysOf(e) : e.items[k] = c.items[k]
  BY <1>5, <1>8, <1>12
<1>14. n > 0 => Len(w) <= n
  BY <1>1, <1>4 DEF WellFormed
<1>15. WellFormed(e, K, V, n)
  BY <1>4, <1>5, <1>7, <1>9, <1>10, <1>11, <1>13, <1>14 DEF WellFormed
<1>16. c.order[p] \in KeysOf(c)
  BY <1>1, <1>2 DEF KeysOf
<1>17. OneGone(c, e)
  BY <1>3, <1>4, <1>5, <1>8, <1>13, <1>16 DEF OneGone
<1> QED
  BY <1>15, <1>17 DEF e

\* get changes visited bits only.
LEMMA GetWellFormed ==
    ASSUME NEW K, NEW V, NEW n \in Int, NEW c, WellFormed(c, K, V, n), NEW k
    PROVE  /\ WellFormed(GetOp(c, k), K, V, n)
           /\ GetOp(c, k).order = c.order
           /\ GetOp(c, k).items = c.items
           /\ KeysOf(GetOp(c, k)) = KeysOf(c)
<1>1. CASE Hit(c, k)
  <2> DEFINE g == [order |-> c.order, visited |-> c.visited \cup {k}, hand |-> c.hand,
                   items |-> c.items]
  <2>1. GetOp(c, k) = g
    BY <1>1 DEF GetOp, WellFormed
  <2>2. KeysOf(g) = KeysOf(c) /\ k \in KeysOf(c)
    BY <1>1 DEF KeysOf, Hit
  <2>3. WellFormed(g, K, V, n)
    BY <2>2 DEF WellFormed
  <2> QED
    BY <2>1, <2>2, <2>3
<1>2. CASE ~Hit(c, k)
  BY <1>2 DEF GetOp
<1> QED
  BY <1>1, <1>2

\* A new entry at the front of a cache that has room.
LEMMA InsertWellFormed ==
    ASSUME NEW K, NEW V, NEW n \in Int, NEW c, WellFormed(c, K, V, n),
           NEW k \in K, k \notin KeysOf(c), NEW v \in V, n > 0 => Len(c.order) < n
    PROVE  /\ WellFormed(Insert(c, k, v), K, V, n)
           /\ Len(Insert(c, k, v).order) = Len(c.order) + 1
           /\ KeysOf(Insert(c, k, v)) = KeysOf(c) \cup {k}
           /\ Insert(c, k, v).items[k] = v
           /\ \A x \in KeysOf(c) : Insert(c, k, v).items[x] = c.items[x]
<1> DEFINE L == Len(c.order)
           w == <<k>> \o c.order
           its == [x \in KeysOf(c) \cup {k} |-> IF x = k THEN v ELSE c.items[x]]
           d == [order |-> w, visited |-> c.visited, hand |-> c.hand, items |-> its]
<1>1. c.order \in Seq(K) /\ L \in Nat /\ DOMAIN c.order = 1 .. L
  BY LenProperties DEF WellFormed
<1>2. <<k>> \in Seq(K) /\ Len(<<k>>) = 1
  OBVIOUS
<1>3. /\ w \in Seq(K) /\ Len(w) = L + 1 /\ DOMAIN w = 1 .. L + 1
      /\ \A i \in 1 .. L + 1 : w[i] = IF i = 1 THEN k ELSE c.order[i - 1]
  BY <1>1, <1>2, ConcatProperties
<1>4. Insert(c, k, v) = d
  BY DEF Insert
<1> HIDE DEF w
<1>5. KeysOf(d) = KeysOf(c) \cup {k}
  <2>1. ASSUME NEW i \in 1 .. L PROVE \E j \in 1 .. L + 1 : w[j] = c.order[i]
    <3>1. i + 1 \in 1 .. L + 1 /\ i + 1 # 1 /\ (i + 1) - 1 = i
      BY <1>1
    <3> QED
      BY <1>3, <3>1
  <2>2. w[1] = k /\ 1 \in 1 .. L + 1
    BY <1>1, <1>3
  <2>3. ASSUME NEW i \in 1 .. L + 1, i # 1 PROVE i - 1 \in 1 .. L /\ w[i] = c.order[i - 1]
    BY <1>1, <1>3, <2>3
  <2>4. KeysOf(d) = {w[i] : i \in 1 .. L + 1} /\ KeysOf(c) = {c.order[i] : i \in 1 .. L}
    BY <1>1, <1>3 DEF KeysOf
  <2> HIDE DEF d
  <2>5. ASSUME NEW x \in KeysOf(d) PROVE x \in KeysOf(c) \cup {k}
    <3>1. PICK i \in 1 .. L + 1 : x = w[i]
      BY <2>4
    <3> QED
      BY <2>2, <2>3, <2>4, <3>1
  <2>6. KeysOf(c) \subseteq KeysOf(d)
    BY <2>1, <2>4
  <2>7. k \in KeysOf(d)
    BY <2>2, <2>4
  <2> QED
    BY <2>5, <2>6, <2>7
<1>6. \A i, j \in 1 .. L + 1 : i # j => w[i] # w[j]
  <2> SUFFICES ASSUME NEW i \in 1 .. L + 1, NEW j \in 1 .. L + 1, i # j PROVE w[i] # w[j]
    OBVIOUS
  <2>1. \A x \in 1 .. L : c.order[x] # k
    BY <1>1 DEF KeysOf
  <2>2. \A x, y \in 1 .. L : x # y => c.order[x] # c.order[y]
    BY <1>1 DEF WellFormed
  <2>3. CASE i = 1
    BY <1>1, <1>3, <2>1, <2>3
  <2>4. CASE j = 1
    BY <1>1, <1>3, <2>1, <2>4
  <2>5. CASE i # 1 /\ j # 1
    <3>1. i - 1 \in 1 .. L /\ j - 1 \in 1 .. L /\ i - 1 # j - 1
      BY <1>1, <2>5
    <3>2. w[i] = c.order[i - 1] /\ w[j] = c.order[j - 1]
      BY <1>3, <2>5
    <3> QED
      BY <2>2, <3>1, <3>2
  <2> QED
    BY <2>3, <2>4, <2>5
<1>7. c.items \in [KeysOf(c) -> V] /\ c.visited \subseteq KeysOf(c) /\ c.hand \in KeysOf(c) \cup {Nil}
  BY DEF WellFormed
<1>8. its \in [KeysOf(c) \cup {k} -> V] /\ its[k] = v /\ \A x \in KeysOf(c) : its[x] = c.items[x]
  BY <1>7
<1> HIDE DEF its
<1>9. n > 0 => Len(w) <= n
  BY <1>1, <1>3
<1>10. WellFormed(d, K, V, n)
  BY <1>3, <1>5, <1>6, <1>7, <1>8, <1>9 DEF WellFormed
<1> QED
  BY <1>3, <1>4, <1>5, <1>8, <1>10

\* What put leaves of c: an entry of d is the key just put or was there before;
\* at most one entry is evicted, only for want of room, and a visited one only
\* when all are.
PutEffect(c, d, k, v, n) ==
    /\ \A x \in KeysOf(d) : \/ x = k /\ d.items[x] = v
                            \/ x \in KeysOf(c) /\ d.items[x] = c.items[x]
    /\ \/ KeysOf(c) \subseteq KeysOf(d)
       \/ /\ n > 0 /\ Len(c.order) = n /\ Len(d.order) = n
          /\ \E e \in KeysOf(c) : /\ KeysOf(c) \ KeysOf(d) = {e}
                                  /\ e \in c.visited => c.visited = KeysOf(c)

\* put keeps the cache well formed and has that effect.
LEMMA PutWellFormed ==
    ASSUME NEW K, NEW V, NEW n \in Int, NEW c, WellFormed(c, K, V, n),
           NEW k \in K, NEW v \in V
    PROVE  WellFormed(PutOp(c, k, v, n), K, V, n) /\ PutEffect(c, PutOp(c, k, v, n), k, v, n)
<1>1. CASE n <= 0
  BY <1>1 DEF PutOp, PutEffect
<1>2. CASE n > 0 /\ Hit(c, k)
  <2> DEFINE its == [c.items EXCEPT ![k] = v]
             d == [order |-> c.order, visited |-> c.visited \cup {k}, hand |-> c.hand,
                   items |-> its]
  <2>1. PutOp(c, k, v, n) = d
    BY <1>2 DEF PutOp, Refresh
  <2>2. KeysOf(d) = KeysOf(c) /\ k \in KeysOf(c)
    BY <1>2 DEF KeysOf, Hit
  <2>3. c.items \in [KeysOf(c) -> V]
    BY DEF WellFormed
  <2>4. its \in [KeysOf(c) -> V] /\ its[k] = v /\ \A x \in KeysOf(c) \ {k} : its[x] = c.items[x]
    BY <2>2, <2>3
  <2> HIDE DEF its
  <2>5. WellFormed(d, K, V, n)
    BY <2>2, <2>4 DEF WellFormed
  <2>6. d.items = its
    OBVIOUS
  <2> HIDE DEF d
  <2>7. ASSUME NEW x \in KeysOf(d)
        PROVE  (x = k /\ d.items[x] = v) \/ (x \in KeysOf(c) /\ d.items[x] = c.items[x])
    BY <2>2, <2>4, <2>6
  <2> QED
    BY <2>1, <2>2, <2>5, <2>7 DEF PutEffect
<1>3. CASE n > 0 /\ ~Hit(c, k) /\ ~Full(c, n)
  <2>1. PutOp(c, k, v, n) = Insert(c, k, v)
    BY <1>3 DEF PutOp
  <2>2. Len(c.order) < n /\ k \notin KeysOf(c)
    BY <1>3, LenProperties DEF Full, Hit, WellFormed
  <2> QED
    BY <2>1, <2>2, InsertWellFormed DEF PutEffect
<1>4. CASE n > 0 /\ ~Hit(c, k) /\ Full(c, n)
  <2> DEFINE e == EvictOp(c)
  <2>1. PutOp(c, k, v, n) = Insert(e, k, v)
    BY <1>4 DEF PutOp
  <2>2. Len(c.order) = n /\ c.order # <<>> /\ c.order \in Seq(K) /\ Len(c.order) \in Nat
    BY <1>4, EmptySeq, LenProperties DEF Full, WellFormed
  <2>0. WellFormed(EvictOp(c), K, V, n) /\ OneGone(c, EvictOp(c))
    BY <2>2, EvictWellFormed
  <2>3. PICK o \in KeysOf(c) : KeysOf(e) = KeysOf(c) \ {o} /\ (o \in c.visited => c.visited = KeysOf(c))
    BY <2>0 DEF OneGone
  <2>4. /\ WellFormed(e, K, V, n) /\ Len(e.order) = Len(c.order) - 1
        /\ \A x \in KeysOf(e) : e.items[x] = c.items[x]
    BY <2>0 DEF OneGone
  <2> HIDE DEF e
  <2>5. k \notin KeysOf(e) /\ Len(e.order) < n
    BY <1>4, <2>2, <2>3, <2>4 DEF Hit
  <2> DEFINE d == Insert(e, k, v)
  <2>6. /\ WellFormed(d, K, V, n) /\ Len(d.order) = Len(e.order) + 1
        /\ KeysOf(d) = KeysOf(e) \cup {k} /\ d.items[k] = v
        /\ \A x \in KeysOf(e) : d.items[x] = e.items[x]
    BY <2>4, <2>5, InsertWellFormed
  <2> HIDE DEF d
  <2>7. Len(d.order) = n
    BY <2>2, <2>4, <2>6
  <2>8. KeysOf(c) \ KeysOf(d) = {o}
    BY <1>4, <2>3, <2>6 DEF Hit
  <2>9. PutOp(c, k, v, n) = d
    BY <2>1 DEF d
  <2>10. \A x \in KeysOf(d) : \/ x = k /\ d.items[x] = v
                              \/ x \in KeysOf(c) /\ d.items[x] = c.items[x]
    BY <2>3, <2>4, <2>6
  <2> QED
    BY <1>4, <2>2, <2>3, <2>6, <2>7, <2>8, <2>9, <2>10 DEF PutEffect
<1> QED
  BY <1>1, <1>2, <1>3, <1>4

\* A new cache is well formed.
LEMMA EmptyWellFormed ==
    ASSUME NEW K, NEW V, NEW n \in Int
    PROVE  WellFormed(EmptyCache, K, V, n) /\ KeysOf(EmptyCache) = {}
<1>1. EmptyCache.order = <<>> /\ <<>> \in Seq(K) /\ Len(<<>>) = 0 /\ DOMAIN EmptyCache.order = {}
  BY EmptySeq DEF EmptyCache
<1>2. KeysOf(EmptyCache) = {}
  BY <1>1 DEF KeysOf
<1>3. EmptyCache.items \in [{} -> V]
  BY DEF EmptyCache
<1>4. EmptyCache.visited = {} /\ EmptyCache.hand = Nil
  BY DEF EmptyCache
<1>5. EmptyCache = [order |-> EmptyCache.order, visited |-> EmptyCache.visited,
                    hand |-> EmptyCache.hand, items |-> EmptyCache.items]
  BY DEF EmptyCache
<1>6. n > 0 => Len(EmptyCache.order) <= n
  BY <1>1
<1> QED
  BY <1>1, <1>2, <1>3, <1>4, <1>5, <1>6 DEF WellFormed
=============================================================================
