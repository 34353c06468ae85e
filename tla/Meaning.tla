------------------------------- MODULE Meaning ------------------------------
(***************************************************************************)
(* What a condition tree means on a row: the comparisons at its leaves,    *)
(* joined by SQL's three-valued AND, OR and NOT.                           *)
(***************************************************************************)
EXTENDS Condition

\* embeds[k] says whether embed k has a row for this one.
RECURSIVE Eval(_, _, _)
Eval(c, row, embeds) ==
    LET sub == {Eval(c.kids[k], row, embeds) : k \in DOMAIN c.kids}
    IN  CASE c.t = "cmp" -> EvalCompare(c, row[c.col])
          [] c.t = "embed" -> Bool(embeds[c.index] = c.exists)
          [] c.t = "and" -> Least(sub)
          [] c.t = "or" -> Greatest(sub)
          [] c.t = "not" -> Neg(Greatest(sub))

\* The columns a condition names.
RECURSIVE ColumnsOf(_)
ColumnsOf(c) == IF c.t = "cmp" THEN {c.col}
                ELSE IF c.t = "embed" THEN {}
                ELSE UNION {ColumnsOf(c.kids[k]) : k \in DOMAIN c.kids}
=============================================================================
