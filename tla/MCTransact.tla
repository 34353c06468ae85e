----------------------------- MODULE MCTransact -----------------------------
(***************************************************************************)
(* Request shapes for model checking the transaction model. Each set holds *)
(* the shapes one question needs; every shape is one a client can send.    *)
(***************************************************************************)
EXTENDS Transact, TLC

Plain == [kind |-> "read", role |-> "anon", media |-> "array", count |-> FALSE,
          offset |-> 0, limit |-> None, max |-> None, rollback |-> FALSE,
          repr |-> FALSE, empty |-> FALSE, put |-> FALSE, ignore |-> FALSE,
          volatile |-> FALSE, portable |-> FALSE, void |-> FALSE]

Read == [Plain EXCEPT !.count = TRUE, !.limit = 1]
Write(k) == [Plain EXCEPT !.kind = k, !.role = "user"]
Rpc(v) == [Plain EXCEPT !.kind = "call", !.role = "user", !.volatile = v]

\* Reads and writes that race: a counted read, an uncounted singular read, a
\* read past the end, an insert, a bounded delete, an upsert.
RaceShapes ==
    {Read, [Plain EXCEPT !.media = "object"],
     [Read EXCEPT !.offset = 2],
     Write("insert"), [Write("delete") EXCEPT !.max = 1],
     [Write("upsert") EXCEPT !.ignore = TRUE]}

\* Writes whose contract is checked: max-affected and singular requests whose
\* representation is windowed, a rolled back one, an empty one, and calls.
WriteShapes ==
    {[Write("update") EXCEPT !.max = 1, !.repr = TRUE, !.limit = 1],
     [Write("delete") EXCEPT !.media = "object", !.repr = TRUE],
     [Write("upsert") EXCEPT !.put = TRUE, !.repr = TRUE],
     [Write("insert") EXCEPT !.rollback = TRUE],
     [Write("insert") EXCEPT !.empty = TRUE, !.media = "object", !.repr = TRUE],
     [Rpc(TRUE) EXCEPT !.portable = TRUE],
     [Rpc(TRUE) EXCEPT !.rollback = TRUE, !.void = TRUE, !.role = "anon"],
     [Rpc(FALSE) EXCEPT !.offset = 1, !.media = "blob", !.rollback = TRUE]}

\* The pool under load: one of each execution path.
PoolShapes ==
    {Read, Write("update"), Rpc(TRUE), [Rpc(FALSE) EXCEPT !.count = TRUE]}

\* The shape that refutes a comment: a singular update whose window is empty.
RenderShapes ==
    {[Write("update") EXCEPT !.media = "object", !.repr = TRUE, !.limit = 0]}

SafetyShapes == RaceShapes \cup WriteShapes

Symmetry == Permutations(Ids) \cup Permutations(Conns) \cup Permutations(Reqs)
=============================================================================
