------------------------------ MODULE SieveOps ------------------------------
(***************************************************************************)
(* The token cache's contract (auth/cache.go, get and put) in closed form: *)
(* a bounded queue of keys, newest first, a set of visited keys and a      *)
(* hand.  A cache is a record, so that Auth may hold one per verifier.     *)
(* SieveCache makes a state machine of it, which JwtCache, the linked list *)
(* with its sweep loop, implements.                                        *)
(***************************************************************************)
EXTENDS Integers, Sequences

CONSTANT Nil     \* no entry

EmptyCache == [order |-> <<>>, visited |-> {}, hand |-> Nil, items |-> <<>>]
KeysOf(c)  == {c.order[i] : i \in DOMAIN c.order}

Hit(c, k) == k \in KeysOf(c)

\* get marks a cached entry visited.
GetOp(c, k) == IF Hit(c, k) THEN [c EXCEPT !.visited = @ \cup {k}] ELSE c

(***************************************************************************)
(* evict: the hand starts where it stopped (or at the oldest entry), moves *)
(* toward newer entries and wraps; SweepPos(c, i) is the position it       *)
(* reaches after i moves.  The first unvisited entry it meets is removed;  *)
(* if there is none it has cleared every bit and is back at its start.     *)
(***************************************************************************)
Start(c) == IF c.hand = Nil THEN Len(c.order)
            ELSE CHOOSE i \in DOMAIN c.order : c.order[i] = c.hand
SweepPos(c, i) == IF i < Start(c) THEN Start(c) - i ELSE Start(c) - i + Len(c.order)
Unvisited(c) == {i \in 0 .. Len(c.order) - 1 : c.order[SweepPos(c, i)] \notin c.visited}

\* Faulty variant: the visited bits do not stop the sweep.
MovesNone(c) == 0

Moves(c) == IF Unvisited(c) = {} THEN 0
            ELSE CHOOSE i \in Unvisited(c) : \A j \in Unvisited(c) : i <= j
Passed(c) == IF Unvisited(c) = {} THEN KeysOf(c)
             ELSE {c.order[SweepPos(c, i)] : i \in 0 .. Moves(c) - 1}

\* Faulty variant: the hand stays on the entry that is removed.
EvictKeepsHand(c) ==
    LET p == SweepPos(c, Moves(c)) IN
    [order   |-> SubSeq(c.order, 1, p - 1) \o SubSeq(c.order, p + 1, Len(c.order)),
     visited |-> c.visited \ Passed(c),
     hand    |-> c.order[p],
     items   |-> [k \in KeysOf(c) \ {c.order[p]} |-> c.items[k]]]

EvictOp(c) ==
    LET p == SweepPos(c, Moves(c)) IN
    [order   |-> SubSeq(c.order, 1, p - 1) \o SubSeq(c.order, p + 1, Len(c.order)),
     visited |-> c.visited \ Passed(c),
     hand    |-> IF p = 1 THEN Nil ELSE c.order[p - 1],
     items   |-> [k \in KeysOf(c) \ {c.order[p]} |-> c.items[k]]]

\* put: a cached key is refreshed and marked visited; a new one goes to the
\* front, unvisited, after an eviction when the cache is full.
Refresh(c, k, v) ==
    [order   |-> c.order, visited |-> c.visited \cup {k}, hand |-> c.hand,
     items   |-> [c.items EXCEPT ![k] = v]]
Insert(c, k, v) ==
    [order   |-> <<k>> \o c.order, visited |-> c.visited, hand |-> c.hand,
     items   |-> [x \in KeysOf(c) \cup {k} |-> IF x = k THEN v ELSE c.items[x]]]

\* Faulty variant: an entry is evicted while there is room for one more.
FullEarly(c, n) == Len(c.order) + 1 >= n /\ c.order # <<>>

Full(c, n) == Len(c.order) >= n
PutOp(c, k, v, n) ==
    IF n <= 0 THEN c
    ELSE IF Hit(c, k) THEN Refresh(c, k, v)
    ELSE Insert(IF Full(c, n) THEN EvictOp(c) ELSE c, k, v)

-----------------------------------------------------------------------------
\* A well formed cache over keys K, values V and capacity n: no key twice in
\* the queue, the index and the visited bits speak of queued keys only, the
\* hand is on a queued key or nowhere, and the size stays within the capacity.
WellFormed(c, K, V, n) ==
    /\ c = [order |-> c.order, visited |-> c.visited, hand |-> c.hand, items |-> c.items]
    /\ c.order \in Seq(K)
    /\ \A i, j \in DOMAIN c.order : i # j => c.order[i] # c.order[j]
    /\ c.items \in [KeysOf(c) -> V]
    /\ c.visited \subseteq KeysOf(c)
    /\ c.hand \in KeysOf(c) \cup {Nil}
    /\ n > 0 => Len(c.order) <= n
=============================================================================
