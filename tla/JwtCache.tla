------------------------------ MODULE JwtCache ------------------------------
(***************************************************************************)
(* auth/cache.go as written: a doubly linked list of entries, an index,    *)
(* head, tail and hand pointers.  Every operation holds c.mu, so one is    *)
(* under way at a time; the steps of evict's loop are separate here so     *)
(* that its termination can be stated.  An entry is identified by its key: *)
(* an evicted entry is unreachable before its key is inserted again.       *)
(***************************************************************************)
EXTENDS Integers, Sequences, FiniteSets

CONSTANTS Keys, Values, Nil, Capacity

VARIABLES
    items,             \* the index: keys that have an entry
    head, tail, hand,  \* newest entry, oldest entry, eviction cursor
    prev, next,        \* entry fields: newer and older neighbour
    visited, claims,   \* entry fields
    op,                \* the put that is evicting
    obj                \* evict's local

list == <<items, head, tail, hand, prev, next, visited, claims>>
vars == <<list, op, obj>>

\* op.before is history: the visited bits when evict was called.
NoOp == [key |-> Nil, val |-> Nil, before |-> {}]
Idle == op = NoOp
Entries == Keys \cup {Nil}

Init ==
    /\ items = {} /\ head = Nil /\ tail = Nil /\ hand = Nil
    /\ prev = [k \in Keys |-> Nil] /\ next = [k \in Keys |-> Nil]
    /\ visited = {} /\ claims = [k \in Keys |-> Nil]
    /\ op = NoOp /\ obj = Nil

Get(k) ==
    /\ Idle
    /\ visited' = IF k \in items THEN visited \cup {k} ELSE visited
    /\ UNCHANGED <<items, head, tail, hand, prev, next, claims, op, obj>>

\* put of a key that is cached
Refresh(k, v) ==
    /\ Idle /\ Capacity > 0 /\ k \in items
    /\ claims' = [claims EXCEPT ![k] = v]
    /\ visited' = visited \cup {k}
    /\ UNCHANGED <<items, head, tail, hand, prev, next, op, obj>>

\* The end of put: a new entry in front of the list with ends h and t, links
\* p and n.
LinkFront(k, v, h, t, p, n) ==
    /\ next' = [n EXCEPT ![k] = h]
    /\ prev' = [e \in Keys |-> IF e = k THEN Nil ELSE IF e = h THEN k ELSE p[e]]
    /\ head' = k
    /\ tail' = IF t = Nil THEN k ELSE t
    /\ claims' = [claims EXCEPT ![k] = v]
    /\ visited' = visited \ {k}

Insert(k, v) ==
    /\ Idle /\ Capacity > 0 /\ k \notin items /\ Cardinality(items) < Capacity
    /\ LinkFront(k, v, head, tail, prev, next)
    /\ items' = items \cup {k}
    /\ UNCHANGED <<hand, op, obj>>

\* Faulty variant: every sweep starts at the tail.
BeginAtTail(k, v) ==
    /\ Idle /\ Capacity > 0 /\ k \notin items /\ Cardinality(items) >= Capacity
    /\ op' = [key |-> k, val |-> v, before |-> visited]
    /\ obj' = tail
    /\ UNCHANGED list

\* put finds the cache full: evict starts at the hand, or at the tail.
BeginEvict(k, v) ==
    /\ Idle /\ Capacity > 0 /\ k \notin items /\ Cardinality(items) >= Capacity
    /\ op' = [key |-> k, val |-> v, before |-> visited]
    /\ obj' = IF hand = Nil THEN tail ELSE hand
    /\ UNCHANGED list

\* Faulty variant: the sweep leaves the bits set.
SweepKeepsBits ==
    /\ ~Idle /\ obj \in visited
    /\ obj' = IF prev[obj] = Nil THEN tail ELSE prev[obj]
    /\ UNCHANGED <<list, op>>

\* One turn of evict's loop: clear the bit, move to the newer entry, wrap.
Sweep ==
    /\ ~Idle /\ obj \in visited
    /\ visited' = visited \ {obj}
    /\ obj' = IF prev[obj] = Nil THEN tail ELSE prev[obj]
    /\ UNCHANGED <<items, head, tail, hand, prev, next, claims, op>>

\* Faulty variant: the tail still points at a removed oldest entry.
TailKept(e) == tail

\* remove(e): the ends and the links of the list without e
HeadWithout(e) == IF prev[e] = Nil THEN next[e] ELSE head
TailWithout(e) == IF next[e] = Nil THEN prev[e] ELSE tail
NextWithout(e) == IF prev[e] # Nil THEN [next EXCEPT ![prev[e]] = next[e]] ELSE next
PrevWithout(e) == IF next[e] # Nil THEN [prev EXCEPT ![next[e]] = prev[e]] ELSE prev

\* The victim is found: evict moves the hand and unlinks it, put links its own
\* entry.  (evict's return on a nil obj is never taken: see ListOK.)
EvictAndInsert ==
    /\ ~Idle /\ obj # Nil /\ obj \notin visited
    /\ hand' = prev[obj]
    /\ LinkFront(op.key, op.val, HeadWithout(obj), TailWithout(obj),
                 PrevWithout(obj), NextWithout(obj))
    /\ items' = (items \ {obj}) \cup {op.key}
    /\ op' = NoOp /\ obj' = Nil

Next ==
    \/ \E k \in Keys : Get(k)
    \/ \E k \in Keys, v \in Values : Refresh(k, v) \/ Insert(k, v) \/ BeginEvict(k, v)
    \/ Sweep
    \/ EvictAndInsert

\* Nothing inside evict blocks.
Spec == Init /\ [][Next]_vars /\ WF_vars(Sweep \/ EvictAndInsert)

-----------------------------------------------------------------------------
\* The queue as the next pointers spell it from the head: Nth[i] is the i-th
\* newest entry, Nil past the end (one more step than there are entries shows a
\* list that is too long or runs in a circle).
Nth[i \in 1 .. Cardinality(items) + 1] ==
    IF i = 1 THEN head ELSE IF Nth[i - 1] = Nil THEN Nil ELSE next[Nth[i - 1]]
Order == [i \in 1 .. Cardinality({j \in DOMAIN Nth : Nth[j] # Nil}) |-> Nth[i]]

\* The list is well formed between and during operations: the next pointers
\* visit each indexed entry once, the prev pointers are their inverse, the
\* tail is the last entry, the hand is on an entry or nowhere, and a sweep
\* always has an entry to look at (evict's early return is dead code).
ListOK ==
    LET n == Len(Order) IN
    /\ n = Cardinality(items) /\ items = {Order[i] : i \in 1 .. n}
    /\ tail = IF n = 0 THEN Nil ELSE Order[n]
    /\ \A i \in 1 .. n : prev[Order[i]] = IF i = 1 THEN Nil ELSE Order[i - 1]
    /\ hand \in items \cup {Nil}
    /\ visited \subseteq items
    /\ ~Idle => obj \in items

\* "The bit-clearing pass guarantees termination": a put that evicts, holding
\* the lock every request needs, ends.
EvictTerminates == ~Idle ~> Idle

\* The pointers and the sweep loop implement the closed form: between
\* operations the list is the abstract queue, and a put that evicts is one
\* abstract step however far its hand travels.
Abstract == INSTANCE SieveCache
    WITH cache <- [order   |-> Order,
                   visited |-> IF Idle THEN visited ELSE op.before,
                   hand    |-> hand,
                   items   |-> [k \in items |-> claims[k]]]
Implements == Abstract!Spec
=============================================================================
