------------------------------- MODULE Samples ------------------------------
(***************************************************************************)
(* Small relations, functions and policy terms for model checking.         *)
(***************************************************************************)
EXTENDS Rpc

Ints(names) == [c \in names |-> "int"]
UpTo2(S) == {<<>>} \cup {<<x>> : x \in S} \cup (S \X S)
Table(cols, pk, unique, fks) ==
    [kind |-> "table", cols |-> cols, pk |-> pk, unique |-> unique, fks |-> fks,
     viewCols |-> <<>>, computedRels |-> {}, computed |-> {}]
View(viewCols) ==
    [Table(Ints({viewCols[k].name : k \in DOMAIN viewCols}), <<>>, {}, {}) EXCEPT !.kind = "view", !.viewCols = viewCols]
Key(name) == <<"public", name>>
Public == <<"public">>
FK(name, cols, ref, refCols) ==
    [name |-> name, cols |-> cols, ref |-> Key(ref), refCols |-> refCols, source |-> ""]

\* The keys of a table T(a, x) that views show.
KeysOfT == {FK("ta", <<"a">>, "A", <<"id">>), FK("tc", <<"a", "x">>, "C", <<"x", "y">>)}

-----------------------------------------------------------------------------
(* Overloads of f over the parameters p and q.                             *)

Param(name, type, optional, variadic) ==
    [name |-> name, type |-> type, optional |-> optional, variadic |-> variadic]
PInt == Param("p", "int", FALSE, FALSE)
QInt == Param("q", "int", FALSE, FALSE)
ParamLists == {<<>>, <<PInt>>, <<QInt>>, <<Param("p", "int", TRUE, FALSE)>>, <<Param("p", "text", FALSE, FALSE)>>, <<PInt, QInt>>,
               <<PInt, Param("q", "int", TRUE, FALSE)>>, <<PInt, Param("q", "int", FALSE, TRUE)>>}
Decl(params, vol, source) ==
    [ParseDecl([name |-> "f", params |-> params, volatility |-> vol,
                returns |-> [kind |-> "table", type |-> "", cols |-> {"id"}]]) EXCEPT !.source = source]
Distinct(s) == \A i, j \in DOMAIN s : i # j => s[i] # s[j]
Registries == {<<>>} \cup {<<x>> : x \in ParamLists}
                \cup {s \in (ParamLists \X ParamLists) \cup (ParamLists \X ParamLists \X ParamLists) : Distinct(s)}
FunctionsOf(params, vol, source) == [k \in DOMAIN params |-> Decl(params[k], vol, source)]

TermOf(col, op, claim, lit) == [col |-> col, op |-> op, claim |-> claim, lit |-> lit]
=============================================================================
