------------------------------ MODULE MCDecide ------------------------------
(***************************************************************************)
(* Catalogs, registries, policies, queries and rows for model checking the *)
(* decisions of module Decide.                                             *)
(***************************************************************************)
EXTENDS Decide, Meaning, Samples

-----------------------------------------------------------------------------
(* Catalogs: A(id), C(x, y), B(id, a, x, y) and a candidate junction J.    *)

KeysOfB == {FK("fa", <<"a">>, "A", <<"id">>), FK("fc", <<"x", "y">>, "C", <<"x", "y">>),
            FK("fself", <<"a">>, "B", <<"id">>)}
KeysOfJ == {FK("ja", <<"a">>, "A", <<"id">>), FK("jb", <<"b">>, "B", <<"id">>), FK("jk", <<"k">>, "B", <<"id">>)}
Catalogs == [fks : SUBSET KeysOfB, pk : {<<"id">>, <<"x", "y">>, <<"id", "x">>},
             unique : {{}, {<<"a">>}, {<<"y", "x">>}, {<<"x">>}, {<<"a", "x">>}},
             jpk : {<<"a", "b">>, <<"a", "b", "k">>, <<"k">>, <<"k", "b">>}]
Names == {"A", "B", "C", "J"}
CatalogRels(c) ==
    [k \in {Key(n) : n \in Names} |->
       CASE k[2] = "A" -> Table(Ints({"id"}), <<"id">>, {}, {})
         [] k[2] = "B" -> Table(Ints({"id", "a", "x", "y"}), c.pk, c.unique \cup {<<"id">>}, c.fks)
         [] k[2] = "C" -> Table(Ints({"x", "y"}), <<"x", "y">>, {}, {})
         [] k[2] = "J" -> Table(Ints({"a", "b", "k"}), c.jpk, {}, KeysOfJ)]
Declared(name, parent, target) ==
    [name |-> name, parent |-> Key(parent), target |-> Key(target), card |-> "one",
     local |-> <<"id">>, foreign |-> <<"id">>, hints |-> {"jk"}, junction |-> <<>>, jlocal |-> <<>>, jforeign |-> <<>>]
Models == {NewModel(CatalogRels(c), <<>>, d) :
             c \in Catalogs, d \in {{}, {Declared("fa", "B", "A"), Declared("fself", "B", "B")}}}
MCEdgeTasks == {[kind |-> "edges", model |-> m, from |-> f, to |-> t, path |-> Public] :
                m \in Models, f \in {Key(n) : n \in Names}, t \in {Key(n) : n \in Names}}

\* The table T(a, x), and a chain of views V1, V2, V3 over it that keep and
\* rename some of the columns, in every order of the catalog.
Show(name, base, col) == [name |-> name, base |-> Key(base), col |-> col]
Shown(keep, base, from, to) ==
    SelectSeq(<<Show(to[1], base, from[1]), Show(to[2], base, from[2])>>, LAMBDA vc : vc.name \in keep)
ViewRels(v1, v2, v3) ==
    [k \in {Key(n) : n \in {"T", "V1", "V2", "V3"}} |->
       CASE k[2] = "T" -> Table(Ints({"a", "x"}), <<>>, {}, KeysOfT)
         [] k[2] = "V1" -> View(v1) [] k[2] = "V2" -> View(v2) [] k[2] = "V3" -> View(v3)]
Depth == [k \in {Key(n) : n \in {"T", "V1", "V2", "V3"}} |->
            CASE k[2] = "T" -> 0 [] k[2] = "V1" -> 1 [] k[2] = "V2" -> 2 [] k[2] = "V3" -> 3]
\* In the joins V2 shows the key of T twice, and offers V3 two keys of its name.
Chains == {ViewRels(Shown(k1, "T", <<"a", "x">>, <<"p", "q">>),
                    Shown(k2, b2, IF b2 = "T" THEN <<"a", "x">> ELSE <<"p", "q">>, <<"r", "s">>),
                    Shown(k3, "V2", <<"r", "s">>, <<"t", "u">>)) :
             k1 \in SUBSET {"p", "q"}, k2 \in SUBSET {"r", "s"}, k3 \in SUBSET {"t", "u"}, b2 \in {"T", "V1"}}
JoinViews == {ViewRels(Shown(k1, "T", <<"a", "x">>, <<"p", "q">>),
                       <<Show("r", "T", "a"), Show("s", "V1", "p")>>,
                       Shown(k3, "V2", <<"r", "s">>, <<"t", "u">>)) :
                k1 \in SUBSET {"p", "q"}, k3 \in SUBSET {"t", "u"}}
MCViewTasks == {[kind |-> "views", order |-> [k \in 1..4 |-> Key(o[k])], depth |-> Depth, rels |-> r] :
                r \in Chains \cup JoinViews,
                o \in {o \in [1..4 -> {"T", "V1", "V2", "V3"}] : \A i, j \in 1..4 : i # j => o[i] # o[j]}}

-----------------------------------------------------------------------------
(* Calls and registries.                                                   *)

MCOverloadTasks == {[kind |-> "overload", reg |-> r, name |-> n, args |-> a] :
                    r \in {FunctionsOf(r, "stable", "declared") : r \in Registries}, n \in {"f", "g"}, a \in SUBSET {"p", "q", "id"}}
ShortRegistries(source) == {FunctionsOf(r, "", source) : r \in {r \in Registries : Len(r) <= 2}}
MCMergeTasks == {[kind |-> "merge", declared |-> d, native |-> n, names |-> <<"f">>] :
                 d \in ShortRegistries("declared"), n \in ShortRegistries("native")}

-----------------------------------------------------------------------------
(* Policies over the columns c and d.                                      *)

Vals == {0, 1}
Cells == Vals \cup {Null}
Terms == {TermOf("c", "eq", <<"u">>, 0), TermOf("c", "neq", <<>>, 0), TermOf("d", "eq", <<>>, 1)}
TermLists == {<<>>} \cup {<<t>> : t \in Terms}
Policy(role, using, check) == [role |-> role, rel |-> "t", using |-> using, check |-> check]
Policies == {Policy("web", u, c) : u \in TermLists, c \in TermLists}
OwnRows == Policy("web", <<TermOf("c", "eq", <<"u">>, 0)>>, <<TermOf("d", "eq", <<>>, 1)>>)
PolicyLists == {<<>>} \cup {<<p>> : p \in Policies} \cup {<<p, OwnRows>> : p \in Policies}
                 \cup {<<Policy("app", <<TermOf("c", "eq", <<>>, 1)>>, <<>>)>>}
Grant(action, cols) == [role |-> "web", rel |-> "t", action |-> action, cols |-> cols]
AllGrants == {Grant(a, {}) : a \in ValidActions}
GrantSets == {AllGrants, AllGrants \ {Grant("update", {})}, {Grant("select", {"c"}), Grant("insert", {"c"})},
              {Grant(a, {"c"}) : a \in ValidActions} \cup {Grant("insert", {"d"}), Grant("update", {})}}
NoWrite == [return |-> "minimal", columns |-> {}, rows |-> <<>>, set |-> <<>>]
ClientWheres == {<<>>, <<Compare("d", "eq", FALSE, <<0>>)>>,
                 <<Or(<<Compare("c", "eq", FALSE, <<0>>), Compare("d", "neq", FALSE, <<0>>)>>)>>,
                 <<Not(Compare("c", "in", FALSE, <<1>>))>>}
Rows == UNION {[S -> Cells] : S \in SUBSET {"c", "d"}}
Item(item, name) == [item |-> item, name |-> name]
Col(name) == Item("column", name)
SelectLists == {<<>>, <<Col("c")>>, <<Col("*")>>, <<Col("c"), Col("d")>>, <<Col("c"), Item("aggregate", "d")>>}
\* An embedded relation, listed in the select list and asked for on its own.
Child == [rel |-> "u", select |-> <<Col("*")>>, where |-> <<>>]
Query(kind, select, where, embeds, write) ==
    [kind |-> kind, rel |-> "t", select |-> select, where |-> where, embeds |-> embeds, write |-> write]
ReadQueries == {Query(k, s, w, <<>>, NoWrite) : k \in {"read", "delete"}, s \in SelectLists, w \in ClientWheres}
                 \cup {Query("read", <<Col("c"), Item("embed", "u")>>, w, <<Child>>, NoWrite) : w \in ClientWheres}
InsertQueries == {Query(k, <<>>, <<>>, <<>>, [NoWrite EXCEPT !.return = ret, !.columns = DOMAIN r, !.rows = <<r>>]) :
                    k \in {"insert", "upsert"}, ret \in {"minimal", "representation"}, r \in Rows}
UpdateQueries == {Query("update", <<>>, w, <<>>, [NoWrite EXCEPT !.set = r]) : w \in ClientWheres, r \in Rows}
Queries == ReadQueries \cup InsertQueries \cup UpdateQueries
ClaimSets == {<<>>, [u \in {<<"u">>} |-> 1], [u \in {<<"u">>} |-> Null]}
GateTask(policies, grants, claims, q) ==
    [kind |-> "gate", reg |-> [grants |-> grants, policies |-> policies],
     rc |-> [role |-> "web", claims |-> claims], q |-> q]
MCGateTasks == {GateTask(p, AllGrants, c, q) : p \in PolicyLists, c \in ClaimSets, q \in Queries}
       \cup {GateTask(<<>>, g, <<>>, q) : g \in GrantSets, q \in Queries}
MCTableRows == [{"c", "d"} -> Cells]
MCTruth(c, row) == Eval(c, row, <<>>)
=============================================================================
