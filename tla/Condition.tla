------------------------------ MODULE Condition -----------------------------
(***************************************************************************)
(* Conditions of the query representation (ir.Cond) and what they mean on  *)
(* a row, in SQL's three-valued logic. A row is a function from columns to *)
(* values; values are numbers and Null. The planner, the authorization     *)
(* gate and the SQL generator transform these trees; this is the meaning   *)
(* they must keep.                                                         *)
(***************************************************************************)
EXTENDS Integers, Sequences, FiniteSets

Null == -1

\* col.op.val, val a list of operands; quant is "", "any" or "all".
Quantified(col, op, neg, quant, val) ==
    [t |-> "cmp", col |-> col, op |-> op, neg |-> neg, quant |-> quant, val |-> val]
Compare(col, op, neg, val) == Quantified(col, op, neg, "", val)
And(kids) == [t |-> "and", kids |-> kids]
Or(kids) == [t |-> "or", kids |-> kids]
Not(kid) == [t |-> "not", kids |-> <<kid>>]
\* The number of an embed and whether it must have rows or must have none.
EmbedPredicate(index, exists) == [t |-> "embed", index |-> index, exists |-> exists]

\* Truth values: 0 false, 1 unknown, 2 true.
True == 2
Unknown == 1
False == 0
Bool(b) == IF b THEN True ELSE False
Neg(v) == 2 - v
Least(S) == IF S = {} THEN True ELSE CHOOSE x \in S : \A y \in S : x <= y
Greatest(S) == IF S = {} THEN False ELSE CHOOSE x \in S : \A y \in S : x >= y

\* One comparison of two values.
Holds(op, v, w) ==
    IF v = Null \/ w = Null THEN Unknown
    ELSE CASE op = "eq" -> Bool(v = w) [] op = "neq" -> Bool(v # w) [] op = "gt" -> Bool(v > w)

EvalCompare(c, v) ==
    LET each == {Holds(IF c.op = "in" THEN "eq" ELSE c.op, v, c.val[k]) : k \in DOMAIN c.val}
        plain == CASE c.op = "is" -> Bool(v = Null)
                   [] c.op = "in" \/ c.quant = "any" -> Greatest(each)
                   [] OTHER -> Least(each)
    IN  IF c.neg THEN Neg(plain) ELSE plain
=============================================================================
