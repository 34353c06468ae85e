----------------------------- MODULE MCEmulated -----------------------------
(***************************************************************************)
(* Request shapes for model checking the emulated data planes: a counted   *)
(* read, a read-only function, inserts with generated and with explicit    *)
(* keys, upserts, filtered updates and deletes that change what they       *)
(* filter on, bounded, singular and rolled back ones, payloads of nothing, *)
(* and a call.                                                             *)
(***************************************************************************)
EXTENDS Emulated

Plain == [kind |-> "read", fn |-> FALSE, where |-> 0, set |-> 1, keys |-> {},
          auto |-> 0, ignore |-> FALSE, repr |-> FALSE, object |-> FALSE,
          count |-> FALSE, empty |-> FALSE, max |-> None, rollback |-> FALSE, single |-> TRUE]
Write(k) == [Plain EXCEPT !.kind = k, !.repr = TRUE]

MCShapes ==
    {[Plain EXCEPT !.count = TRUE, !.object = TRUE],
     [Plain EXCEPT !.fn = TRUE],
     Write("insert"), [Write("insert") EXCEPT !.auto = 2, !.where = None],
     [Write("insert") EXCEPT !.keys = {2, 3}, !.max = 1, !.where = None],
     [Write("upsert") EXCEPT !.keys = {1, 2}, !.max = 2, !.where = None],
     [Write("upsert") EXCEPT !.keys = {1}, !.ignore = TRUE, !.where = None, !.single = FALSE],
     [Write("update") EXCEPT !.max = 1], [Write("update") EXCEPT !.empty = TRUE],
     Write("upsert"), [Write("upsert") EXCEPT !.repr = FALSE, !.single = FALSE],
     [Write("update") EXCEPT !.rollback = TRUE, !.where = None, !.set = 0],
     [Write("delete") EXCEPT !.object = TRUE],
     [Plain EXCEPT !.kind = "delete", !.max = 1, !.where = 1],
     [Plain EXCEPT !.kind = "call", !.rollback = FALSE]}
=============================================================================
