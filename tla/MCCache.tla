------------------------------ MODULE MCCache -------------------------------
(***************************************************************************)
(* The token cache's linked list and its closed form side by side: the     *)
(* abstract cache takes its step when an operation of the list ends.       *)
(***************************************************************************)
EXTENDS SieveCache

VARIABLES items, head, tail, hand, prev, next, visited, claims, op, obj

List == INSTANCE JwtCache

vars == <<List!vars, cache>>

\* An operation that ends at once, and one that evicts.
GetBoth(k) == List!Get(k) /\ Get(k)
PutBoth(k, v) == (List!Refresh(k, v) \/ List!Insert(k, v)) /\ Put(k, v)
BeginEvict(k, v) == List!BeginEvict(k, v) /\ UNCHANGED cache
Sweep == List!Sweep /\ UNCHANGED cache
EndEvict == List!EvictAndInsert /\ Put(op.key, op.val)

BothInit == List!Init /\ Init
BothNext ==
    \/ \E k \in Keys : GetBoth(k) \/ \E v \in Values : PutBoth(k, v) \/ BeginEvict(k, v)
    \/ Sweep
    \/ EndEvict
BothSpec == BothInit /\ [][BothNext]_vars /\ WF_vars(Sweep \/ EndEvict)

-----------------------------------------------------------------------------
\* The list stays well formed between and during operations (get, put, evict,
\* remove).
ListOK == List!ListOK

\* A put that evicts, holding the lock every request needs, ends (evict's loop).
EvictTerminates == List!EvictTerminates

\* Every step of the list is a step of the closed form (jwtCache).
Implements == List!Implements
=============================================================================
