------------------------------- MODULE MCSql --------------------------------
(***************************************************************************)
(* Generated statements run on a small database by an evaluator of the SQL *)
(* they use, and the outcome compared with what the query representation   *)
(* means. Parents P(id, a, r), children C(id, p, v), junction J(p, c).     *)
(***************************************************************************)
EXTENDS SqlGen, Meaning

VARIABLES task, out
vars == <<task, out>>

Row3(i, a, r) == [id |-> i, a |-> a, r |-> r]
Child(i, p, v) == [id |-> i, p |-> p, v |-> v]
Tables == [P |-> {Row3(1, 1, 1), Row3(2, Null, 2), Row3(3, 2, Null), Row3(4, 1, 2)},
           C |-> {Child(1, 1, 1), Child(2, 1, 2), Child(3, 4, Null), Child(4, Null, 1)},
           J |-> {[p |-> 1, c |-> 1], [p |-> 1, c |-> 3], [p |-> 3, c |-> 2]}]
\* The engine's functions: a computed field, a computed relationship, the casts
\* of a represented column (it is stored as v and shown as v + 10).
Plus(v, n) == IF v = Null THEN Null ELSE v + n
Next1(row) == Plus(row.a, 1)
Newer(row) == {c \in Tables.C : c.id > row.id}
DefaultValue == 7

-----------------------------------------------------------------------------
(* The engine.                                                             *)

RECURSIVE Val(_, _, _), SqlTruth(_, _, _), Found(_, _, _)
Val(e, env, args) ==
    CASE e.t = "col" -> env[e.alias][e.name]
      [] e.t = "ph" -> args[e.n]
      [] e.t = "rep" -> Plus(Val(e.e, env, args), IF e.fn = "toJSON" THEN 10 ELSE -10)
      [] e.t = "call" -> Next1(env[e.row])
      [] e.t = "scalar" -> LET rows == Found(e, env, args)
                           IN  IF rows = {} THEN Null ELSE Val(e.e, CHOOSE r \in rows : TRUE, args)
HoldsAtom(x, env, args) ==
    LET l == Val(x.l, env, args)
    IN  CASE x.t = "lit" -> Bool(x.v)
          [] x.t = "cmp" -> Holds(x.op, l, Val(x.r, env, args))
          [] x.t = "in" -> Greatest({Holds("eq", l, Val(x.list[k], env, args)) : k \in DOMAIN x.list})
          [] x.t = "any" -> Greatest({Holds("eq", l, Plus(args[x.n][k], IF x.parse THEN -10 ELSE 0)) : k \in DOMAIN args[x.n]})
          [] x.t = "isnull" -> Bool(l = Null)
          [] x.t = "exists" -> Bool(Found(x, env, args) # {})
          [] x.t = "paren" -> SqlTruth(x.e, env, args)
          [] x.t = "not" -> Neg(SqlTruth(x.e, env, args))
\* No text is no WHERE.
SqlTruth(e, env, args) ==
    IF e = <<>> THEN True
    ELSE Greatest({Least({HoldsAtom(e[k][j], env, args) : j \in DOMAIN e[k]}) : k \in DOMAIN e})

\* The rows of FROM ... JOIN ... WHERE, each as what the aliases then stand for.
RowsOf(from, env) ==
    CASE from.t = "table" -> Tables[from.name] [] from.t = "func" -> Newer(env[from.row]) [] from.t = "body" -> Tables.P
With(env, alias, row) == (alias :> row) @@ env
Found(s, env, args) ==
    LET base == {With(env, s.from.alias, r) : r \in RowsOf(s.from, env)}
        joined == IF s.join = <<>> THEN base
                  ELSE {e \in {With(e, s.join[1].alias, r) : e \in base, r \in RowsOf(s.join[1], env)} :
                          SqlTruth(s.join[1].on, e, args) = True}
    IN  {e \in joined : SqlTruth(s.where, e, args) = True}

\* The outermost FROM also gives columns without a qualifier.
Parent(st, row) == (st.from.alias :> row) @@ (NoAlias :> row)
RunRows(st) == {r \in RowsOf(st.from, <<>>) : SqlTruth(st.where, Parent(st, r), st.args) = True}

\* An object of the projection; count is of the rows found.
RECURSIVE Shape(_, _, _)
ObjectOf(pairs, env, args) ==
    [key \in {pairs[k].key : k \in DOMAIN pairs} |->
       Shape(pairs[CHOOSE k \in DOMAIN pairs : pairs[k].key = key].e, env, args)]
Shape(e, env, args) ==
    LET rows == Found(e, env, args)
    IN  CASE e.t = "object" -> IF e.obj[1].e.t = "count" THEN {[count |-> Cardinality(rows)]}
                               ELSE {ObjectOf(e.obj, r, args) : r \in rows}
          [] e.t = "list" -> {Val(e.e, r, args) : r \in rows}
          [] OTHER -> Val(e, env, args)

\* Placeholders as they follow each other in the text.
RECURSIVE Phs(_)
PhsOf(seq, Op(_)) == FlattenSeq([k \in DOMAIN seq |-> Op(seq[k])])
PhsText(e) == PhsOf(e, LAMBDA g : PhsOf(g, Phs))
PhsTail(e) == PhsOf(e.join, LAMBDA j : PhsText(j.on)) \o PhsText(e.where)
Phs(e) ==
    CASE e.t = "ph" -> <<e.n>>
      [] e.t = "any" -> Phs(e.l) \o <<e.n>>
      [] e.t = "rep" -> Phs(e.e)
      [] e.t = "cmp" -> Phs(e.l) \o Phs(e.r)
      [] e.t = "in" -> Phs(e.l) \o PhsOf(e.list, Phs)
      [] e.t \in {"paren", "not"} -> PhsText(e.e)
      [] e.t = "exists" -> PhsTail(e)
      [] e.t \in {"scalar", "list"} -> Phs(e.e) \o PhsTail(e)
      [] e.t = "object" -> PhsOf(e.obj, LAMBDA p : Phs(p.e)) \o PhsTail(e) \o PhsOf(e.order, LAMBDA o : Phs(o.e))
      [] e.t = "body" -> PhsOf(e.phs, Phs)
      [] OTHER -> <<>>
PhsStatement(st) ==
    CASE st.t = "select" -> PhsOf(st.items, LAMBDA p : Phs(p.e)) \o Phs(st.from) \o PhsText(st.where)
                            \o PhsOf(st.order, LAMBDA o : Phs(o.e))
      [] st.t = "insert" -> PhsOf(st.rows, LAMBDA r : PhsOf(r, Phs))
      [] st.t = "update" -> PhsOf(st.values, Phs) \o PhsText(st.where)
      [] st.t = "delete" -> PhsText(st.where)

\* Tables after a write. Keys are the values of on; a row the engine would not
\* take because its key exists is changed in the columns of set.
Stored(st, k) == [c \in {"id", "a", "r"} |->
    LET at == {j \in DOMAIN st.columns : st.columns[j] = c}
        e == st.rows[k][CHOOSE j \in at : TRUE]
    IN  IF at = {} THEN DefaultValue ELSE IF e.t = "default" THEN DefaultValue ELSE Val(e, <<>>, st.args)]
SameKey(on, r, s) == \A k \in DOMAIN on : r[on[k]] = s[on[k]] /\ r[on[k]] # Null
InsertInto(st, table) ==
    FoldLeft(LAMBDA rows, new :
               LET hit == {r \in rows : st.on # <<>> /\ SameKey(st.on, r, new)}
                   set == {st.set[j] : j \in DOMAIN st.set}
               IN  IF hit = {} THEN rows \cup {new}
                   ELSE (rows \ hit) \cup {[c \in DOMAIN r |-> IF c \in set THEN new[c] ELSE r[c]] : r \in hit},
             table, [k \in DOMAIN st.rows |-> Stored(st, k)])
Change(st, r) ==
    [c \in DOMAIN r |-> LET at == {j \in DOMAIN st.columns : st.columns[j] = c}
                        IN  IF at = {} THEN r[c] ELSE Val(st.values[CHOOSE j \in at : TRUE], <<>>, st.args)]
RunWrite(st, table) ==
    LET hits == {r \in table : SqlTruth(st.where, (NoAlias :> r) @@ (Named("P") :> r), st.args) = True}
    IN  CASE st.t = "insert" -> InsertInto(st, table)
          [] st.t = "update" -> (table \ hits) \cup {Change(st, r) : r \in hits}
          [] st.t = "delete" -> table \ hits

-----------------------------------------------------------------------------
(* Inputs.                                                                 *)

Dialects == {Postgres, Sqlite, Mysql, Sqlserver}
Rel(card, target, columns, local, foreign) ==
    [card |-> card, target |-> target, columns |-> columns, local |-> local, foreign |-> foreign, func |-> "",
     junction |-> "", jlocal |-> <<>>, jforeign |-> <<>>]
ToAuthor == Rel("one", "C", <<"id", "v">>, <<"a">>, <<"id">>)
ToChildren == Rel("many", "C", <<"id", "v">>, <<"id">>, <<"p">>)
ToBoth == Rel("many", "C", <<"id", "v">>, <<"id", "a">>, <<"p", "v">>)
ToSelf == Rel("one", "P", <<"id", "a">>, <<"a">>, <<"id">>)
ToFriends == [Rel("many", "C", <<"id", "v">>, <<"id">>, <<"id">>)
              EXCEPT !.junction = "J", !.jlocal = <<"p">>, !.jforeign = <<"c">>]
ToNewer == [Rel("many", "C", <<"id", "v">>, <<>>, <<>>) EXCEPT !.func = "newer"]
BackToParent == Rel("one", "P", <<"id", "a">>, <<"p">>, <<"id">>)
BackFriends == [Rel("many", "P", <<"id", "a">>, <<"id">>, <<"id">>)
                EXCEPT !.junction = "J", !.jlocal = <<"c">>, !.jforeign = <<"p">>]

Plain(c) == [t |-> "col", col |-> c]
Ref(k) == [t |-> "embed", index |-> k, col |-> ""]
Count == [t |-> "agg", col |-> ""]
Term(rel, col, desc, nulls) == [rel |-> rel, col |-> col, desc |-> desc, nulls |-> nulls]
Query(relation, select, where, order, embeds) ==
    [relation |-> relation, computed |-> {}, reps |-> {}, select |-> select, where |-> where, order |-> order,
     embeds |-> embeds, limit |-> <<>>, offset |-> <<>>]
\* What PostgreSQL's catalog adds: a computed field and a represented column.
Rich(q) == [q EXCEPT !.computed = {"n1"}, !.reps = {"r"}]
Embed(key, rel, inner, spread, empty, q) ==
    [key |-> key, rel |-> rel, inner |-> inner, spread |-> spread, empty |-> empty, query |-> q]

Simple(col) ==
    {Compare(col, op, n, <<1>>) : op \in {"eq", "gt"}, n \in BOOLEAN} \cup {Compare(col, "neq", FALSE, <<2>>)}
      \cup {Compare(col, "in", n, v) : n \in BOOLEAN, v \in {<<>>, <<1>>, <<2, 1>>}}
      \cup {Compare(col, "is", n, <<>>) : n \in BOOLEAN}
      \cup {Quantified(col, op, n, qu, v) : op \in {"eq", "gt"}, n \in BOOLEAN, qu \in {"any", "all"}, v \in {<<1>>, <<1, 2>>}}
Few == {Compare("a", "eq", FALSE, <<1>>), Compare("id", "gt", TRUE, <<2>>), Compare("a", "in", FALSE, <<1, 2>>),
        Quantified("a", "eq", TRUE, "any", <<1, 2>>)}
Trees == Simple("a") \cup {Not(c) : c \in Simple("a")}
         \cup {Or(<<c, d>>) : c \in Simple("a"), d \in Few} \cup {And(<<Or(<<c, d>>), e>>) : c, d, e \in Few}
         \cup {Or(<<And(<<c, d>>), Not(Or(<<d, e>>)), c>>) : c, d, e \in Few}
RichTrees == Simple("n1") \cup {[c EXCEPT !.val = [k \in DOMAIN c.val |-> c.val[k] + 10]] : c \in Simple("r")}
             \cup {Or(<<Compare("r", "in", FALSE, <<11, 12>>), Compare("n1", "eq", n, <<2>>)>>) : n \in BOOLEAN}

Of(q) == {<<>>, <<Compare(IF q = "C" THEN "v" ELSE "a", "eq", FALSE, <<1>>)>>,
          <<Or(<<Compare("id", "gt", FALSE, <<1>>), Compare("id", "in", TRUE, <<1, 2>>)>>)>>}
Leaf(rel, select, where) == Query(rel.target, select, where, <<>>, <<>>)
Nested == {Embed("n", rel, FALSE, FALSE, FALSE, Leaf(rel, <<Plain("id"), Plain("a")>>, w)) :
             rel \in {BackToParent, BackFriends}, w \in Of("P")}
Embeds(rel) ==
    {Embed("e", rel, inner, FALSE, FALSE, Leaf(rel, s, w)) :
       inner \in BOOLEAN, s \in {<<>>, <<Plain("id"), Plain("*")>>, <<Count>>}, w \in Of(rel.target)}
      \cup {Embed("e", rel, TRUE, FALSE, TRUE, Leaf(rel, <<>>, w)) : w \in Of(rel.target)}
Deep(rel) == {Embed("e", rel, FALSE, FALSE, FALSE, Query("C", <<Ref(1), Plain("v")>>, w, <<>>, <<n>>)) :
                w \in Of("C"), n \in Nested}
Spreads == {Embed("s", rel, FALSE, TRUE, FALSE, Leaf(rel, s, w)) :
              rel \in {[x EXCEPT !.columns = <<"p", "v">>] : x \in {ToAuthor, ToChildren, ToFriends}},
              s \in {<<>>, <<Plain("p"), Plain("v")>>}, w \in Of("C")}
AllEmbeds == UNION {Embeds(rel) : rel \in {ToAuthor, ToChildren, ToBoth, ToSelf, ToFriends}}
             \cup UNION {Deep(rel) : rel \in {ToAuthor, ToChildren, ToFriends}} \cup Spreads
One == Embed("one", ToChildren, TRUE, FALSE, FALSE, Leaf(ToChildren, <<Plain("v")>>, <<Compare("v", "in", FALSE, <<1, 2>>)>>))
Exists(v) == EmbedPredicate(1, v)

Items(embeds) == <<Plain("id")>> \o [k \in DOMAIN embeds |-> Ref(k)]
Read(d, q) == [kind |-> "rows", d |-> d, q |-> q]
FilterTasks ==
    {Read(d, Query("P", s, <<w>>, <<>>, <<>>)) : d \in Dialects, s \in {<<>>, <<Plain("a"), Count>>}, w \in Trees}
      \cup {Read(d, Query("P", Items(<<One>>), <<w>>, <<>>, <<One>>)) : d \in Dialects, w \in Trees}
      \cup {Read(Postgres, Rich(Query("P", Items(e), <<w>>, <<>>, e))) : w \in RichTrees, e \in {<<>>, <<One>>}}
EmbedTasks ==
    {Read(d, Query("P", Items(e), w, <<>>, e)) :
       d \in Dialects, e \in {<<x>> : x \in AllEmbeds} \cup {<<x, One>> : x \in AllEmbeds},
       w \in {<<>>, <<Compare("a", "eq", FALSE, <<1>>)>>, <<Exists(TRUE)>>,
              <<Or(<<Exists(FALSE), Compare("id", "in", FALSE, <<1, 2>>)>>)>>}}
      \cup {Read(Postgres, Rich(Query("P", Items(<<x>>), w, <<>>, <<x>>))) :
              x \in Embeds(ToNewer), w \in {<<>>, <<Exists(TRUE)>>, <<Compare("r", "eq", FALSE, <<12>>)>>}}
Terms == {Term("", c, desc, n) : c \in {"a", "r"}, desc \in BOOLEAN, n \in {"", "first", "last"}}
           \cup {Term(r, "v", desc, n) : r \in {"e", "one"}, desc \in BOOLEAN, n \in {"", "last"}}
Author == Embed("e", ToAuthor, FALSE, FALSE, FALSE, Leaf(ToAuthor, <<Plain("v")>>, <<>>))
Author1 == Embed("one", ToAuthor, FALSE, FALSE, FALSE, Leaf(ToAuthor, <<Plain("v")>>, <<Compare("v", "eq", FALSE, <<1>>)>>))
OrderTasks == {[Read(d, Query("P", Items(<<Author, Author1>>), w, o, <<Author, Author1>>)) EXCEPT !.kind = "sorted"] :
                 d \in Dialects, w \in {<<>>, <<Compare("a", "in", FALSE, <<1, 2>>)>>},
                 o \in {<<t>> : t \in Terms} \cup (Terms \X Terms)}

\* Payloads: one or two rows with all of the columns or without r.
WriteQuery(rows, columns, missing, target, ignore, set, where, returning) ==
    [relation |-> "P", computed |-> {}, reps |-> {}, rows |-> rows, columns |-> columns, missing |-> missing,
     target |-> target, ignore |-> ignore, set |-> set, sorted |-> <<"a", "id", "r">>, where |-> where,
     returning |-> returning]
Payloads == {<<[id |-> i, a |-> 5]>> : i \in {1, 9}}
              \cup {<<[id |-> i, a |-> 5, r |-> 13], [id |-> 8, a |-> x]>> : i \in {1, 9}, x \in {Null, 6}}
              \cup {<<[a |-> 5, r |-> 13], [id |-> 2, r |-> 12]>>}
ColumnsOfPayload(rows) ==
    SelectSeq(<<"r", "id", "a">>, LAMBDA c : \E k \in DOMAIN rows : c \in DOMAIN rows[k])
InsertTasks ==
    {[kind |-> "insert", d |-> d, q |-> WriteQuery(p, ColumnsOfPayload(p), m, t, ig, <<>>, <<>>, ret)] :
       d \in Dialects, p \in Payloads, m \in {"default", "null"}, t \in {<<>>, <<"id">>}, ig \in BOOLEAN,
       ret \in {<<>>, <<"id">>}}
UpdateTasks ==
    {[kind |-> k, d |-> d, q |-> WriteQuery(<<>>, <<>>, "default", <<>>, FALSE, s, w, ret)] :
       k \in {"update", "delete"}, d \in Dialects, s \in {[a |-> 5], [r |-> 13, a |-> Null, id |-> 9]},
       w \in {<<>>} \cup {<<c>> : c \in Simple("a")} \cup {<<Or(<<c, d>>)>> : c, d \in Few}, ret \in {<<>>, <<"id">>}}
RichWrites == {[t EXCEPT !.q.reps = {"r"}, !.d = Postgres] : t \in {t \in InsertTasks \cup UpdateTasks : t.d = Sqlite}}

Param(name, json, optional, variadic) ==
    [name |-> name, json |-> json, optional |-> optional, variadic |-> variadic, default |-> 3]
Functions == [params : {<<Param("p", j, o, v)>> : j, o, v \in BOOLEAN}
                       \cup {<<Param("p", FALSE, FALSE, FALSE), Param("q", FALSE, TRUE, v)>> : v \in BOOLEAN},
              body : {<<":", "p">>, <<":", ":", "p", ":", "p">>, <<":", "p", "+", ":", "q", ":", ":", "p">>,
                      <<":", "request_role", ":", "q", ":", "p">>, <<"p", ":", "q">>},
              returns : {"table", "setof", "scalar"}]
Args == {<<>>, [p |-> <<4>>], [q |-> <<5>>], [p |-> <<4>>, q |-> <<5, 6>>], [p |-> <<4, 6>>]}
\* A list is given to a variadic parameter only, and a required one has a value.
Callable(fn, args) ==
    /\ \A k \in DOMAIN fn.params : LET p == fn.params[k]
                                   IN  /\ p.name \in DOMAIN args => p.variadic \/ Len(args[p.name]) = 1
                                       /\ p.name \notin DOMAIN args => p.optional \/ p.variadic \/ (p.json /\ Len(fn.params) = 1 /\ args # <<>>)
CallReads == {Query("", <<>>, <<>>, <<>>, <<>>), [Query("", <<>>, <<>>, <<>>, <<>>) EXCEPT !.limit = <<2>>],
              Query("", <<Plain("a")>>, <<Compare("a", "in", FALSE, <<1, 2>>)>>, <<>>, <<>>),
              Query("", Items(<<One>>), <<Compare("a", "eq", TRUE, <<1>>)>>, <<Term("", "a", FALSE, "")>>, <<One>>)}
CallTasks == {[kind |-> "body", d |-> d, q |-> q, fn |-> fn, args |-> a] :
                d \in Dialects, q \in CallReads, fn \in Functions, a \in Args}
Ctx == [request_role |-> 42]
\* The engine's own call binds its arguments by itself, before the wrapper.
NativeTasks == {[kind |-> "native", d |-> Postgres, q |-> q] : q \in {q \in CallReads : q.embeds = <<>>}}
Native == [f |-> [t |-> "body", alias |-> Named("_rpc"), phs |-> <<[t |-> "ph", n |-> 1], [t |-> "ph", n |-> 2]>>],
           args |-> <<4, 5>>]

Init == /\ out = <<>>
        /\ \/ task \in FilterTasks
           \/ task \in EmbedTasks
           \/ task \in OrderTasks
           \/ task \in InsertTasks
           \/ task \in UpdateTasks
           \/ task \in RichWrites
           \/ task \in CallTasks /\ Callable(task.fn, task.args)
           \/ task \in NativeTasks
Answer(kinds, sts) == /\ out = <<>>
                      /\ task.kind \in kinds
                      /\ out' = sts
                      /\ UNCHANGED task
CompileReads == Answer({"rows", "sorted"}, <<CompileRead(task.d, task.q), CompileCount(task.d, task.q)>>)
CompileInserts == Answer({"insert"}, <<CompileInsert(task.d, task.q)>>)
CompileUpdates == Answer({"update"}, <<CompileUpdate(task.d, task.q)>>)
CompileDeletes == Answer({"delete"}, <<CompileDelete(task.d, task.q)>>)
CompileCalls == Answer({"body"}, <<CompileCall(task.d, task.q, task.fn, task.args, Ctx),
                                   CompileCallCount(task.d, task.q, task.fn, task.args, Ctx)>>)
CompileNatives == Answer({"native"}, <<CompileNativeCallWrap(task.d, task.q, Native),
                                       CompileNativeCallCountWrap(task.d, task.q, Native)>>)
Done == out # <<>> /\ UNCHANGED vars
Next == \/ CompileReads \/ CompileInserts \/ CompileUpdates \/ CompileDeletes \/ CompileCalls \/ CompileNatives
        \/ Done
Spec == Init /\ [][Next]_vars

-----------------------------------------------------------------------------
(* What the statements must mean.                                          *)

Compiled(kinds) == task.kind \in kinds /\ out # <<>> /\ out[1].err = ""
Selects == {"rows", "sorted", "body", "native"}
Kinds == Selects \cup {"insert", "update", "delete"}

\* A row as the client sees it.
Shown(q, row) == [c \in DOMAIN row \cup q.computed |->
                    IF c \in q.computed THEN Next1(row) ELSE IF c \in q.reps THEN Plus(row[c], 10) ELSE row[c]]
Keep(q, row, has) == q.where = <<>> \/ Eval(q.where[1], Shown(q, row), has) = True
RelatedRows(rel, row) ==
    CASE rel.func # "" -> Newer(row)
      [] rel.junction # "" -> {c \in Tables[rel.target] :
                                 \E j \in Tables[rel.junction] : /\ j[rel.jlocal[1]] = row[rel.local[1]]
                                                                 /\ j[rel.jforeign[1]] = c[rel.foreign[1]]}
      [] OTHER -> {c \in Tables[rel.target] :
                     \A k \in DOMAIN rel.local : c[rel.foreign[k]] = row[rel.local[k]] /\ row[rel.local[k]] # Null}
Meant(emb, row) == {c \in RelatedRows(emb.rel, row) : Keep(emb.query, c, <<>>)}
Has(q, row) == [k \in DOMAIN q.embeds |-> Meant(q.embeds[k], row) # {}]
MeantRows(q) == {r \in Tables.P : /\ Keep(q, r, Has(q, r))
                                  /\ \A k \in DOMAIN q.embeds : q.embeds[k].inner => Has(q, r)[k]}

\* What a parent's projection shows for the items of q.
RECURSIVE ObjectMeant(_, _, _)
SelectedNames(items, columns) ==
    IF items = <<>> THEN {columns[k] : k \in DOMAIN columns}
    ELSE UNION {IF items[k].col = "*" THEN {columns[j] : j \in DOMAIN columns} ELSE {items[k].col} :
                  k \in {k \in DOMAIN items : items[k].t = "col"}}
Visible(q) == {k \in DOMAIN q.embeds : ~q.embeds[k].empty /\ \E j \in DOMAIN q.select : q.select[j].t = "embed" /\ q.select[j].index = k}
ObjectMeant(q, columns, row) ==
    LET names == SelectedNames(q.select, columns)
        nested == {k \in Visible(q) : ~q.embeds[k].spread}
        lifts == {k \in Visible(q) : q.embeds[k].spread}
        lifted(k) == SelectedNames(q.embeds[k].query.select, q.embeds[k].rel.columns)
        rowsOf(e) == IF e.query.select = <<Count>> THEN {[count |-> Cardinality(Meant(e, row))]}
                     ELSE {ObjectMeant(e.query, e.rel.columns, c) : c \in Meant(e, row)}
        value(k, c) == LET vs == {Shown(q.embeds[k].query, x)[c] : x \in Meant(q.embeds[k], row)}
                       IN  IF q.embeds[k].rel.card # "one" THEN vs ELSE IF vs = {} THEN Null ELSE CHOOSE v \in vs : TRUE
        key(k) == q.embeds[k].key
    IN  [x \in names \cup {key(k) : k \in nested} \cup UNION {lifted(k) : k \in lifts} |->
           CASE \E k \in nested : key(k) = x -> rowsOf(q.embeds[CHOOSE k \in nested : key(k) = x])
             [] \E k \in lifts : x \in lifted(k) -> value(CHOOSE k \in lifts : x \in lifted(k), x)
             [] OTHER -> Shown(q, row)[x]]

\* r comes before s when sorted as the terms ask: NULLs last, first when
\* descending, unless the term says so.
SortValue(q, t, row) ==
    IF t.rel = "" THEN row[t.col]
    ELSE LET e == q.embeds[FindEmbed(q.embeds, t.rel)]
             rows == RelatedRows(e.rel, row)
         IN  IF rows = {} THEN Null ELSE (CHOOSE c \in rows : TRUE)[t.col]
TermBefore(t, v, w) ==
    LET first == IF t.nulls = "" THEN t.desc ELSE t.nulls = "first"
    IN  CASE v = Null \/ w = Null -> v # w /\ ((v = Null) <=> first)
          [] OTHER -> IF t.desc THEN v > w ELSE v < w
FirstDifference(n, Differs(_)) == {k \in 1..n : Differs(k) /\ \A j \in 1..k - 1 : ~Differs(j)}
AskedBefore(q, r, s) ==
    \E k \in FirstDifference(Len(q.order), LAMBDA k : SortValue(q, q.order[k], r) # SortValue(q, q.order[k], s)) :
       TermBefore(q.order[k], SortValue(q, q.order[k], r), SortValue(q, q.order[k], s))
KeyValue(st, k, row) ==
    LET o == st.order[k]
        v == Val(o.e, Parent(st, row), st.args)
    IN  IF o.rank THEN IF v = Null THEN 1 ELSE 0 ELSE v
\* Without NULLS FIRST or LAST these engines sort NULL below every value.
KeyBefore(o, v, w) ==
    CASE o.nulls # "" /\ (v = Null \/ w = Null) -> v # w /\ ((v = Null) <=> (o.nulls = "first"))
      [] OTHER -> IF o.desc THEN v > w ELSE v < w
SortedBefore(st, r, s) ==
    \E k \in FirstDifference(Len(st.order), LAMBDA k : KeyValue(st, k, r) # KeyValue(st, k, s)) :
       KeyBefore(st.order[k], KeyValue(st, k, r), KeyValue(st, k, s))

\* What a write means for the table.
PayloadRow(q, row) ==
    [c \in {"id", "a", "r"} |->
       CASE c \in DOMAIN row -> IF c \in q.reps THEN Plus(row[c], -10) ELSE row[c]
         [] c \notin DOMAIN row -> IF q.missing = "null" /\ \E k \in DOMAIN q.columns : q.columns[k] = c THEN Null ELSE DefaultValue]
MeantChange(q, r) ==
    [c \in DOMAIN r |-> IF c \notin DOMAIN q.set THEN r[c] ELSE IF c \in q.reps THEN Plus(q.set[c], -10) ELSE q.set[c]]
MeantWrite(kind, q) ==
    LET hits == {r \in Tables.P : Keep(q, r, <<>>)}
        new == {PayloadRow(q, q.rows[k]) : k \in DOMAIN q.rows}
        taken == {r \in Tables.P : q.target # <<>> /\ \E n \in new : n.id = r.id}
        fresh == {n \in new : q.target = <<>> \/ ~\E r \in Tables.P : n.id = r.id}
        merged(r) == LET n == CHOOSE n \in new : n.id = r.id
                     IN  [c \in DOMAIN r |-> IF \E k \in DOMAIN q.columns : q.columns[k] = c THEN n[c] ELSE r[c]]
    IN  CASE kind = "insert" -> (Tables.P \ taken) \cup fresh \cup {IF q.ignore THEN r ELSE merged(r) : r \in taken}
          [] kind = "update" -> (Tables.P \ hits) \cup {MeantChange(q, r) : r \in hits}
          [] kind = "delete" -> Tables.P \ hits

\* The values a call's body should see, in the order of its placeholders.
RECURSIVE BodyValues(_, _, _)
BodyValues(fn, body, args) ==
    LET n == Len(body)
        names == {fn.params[k].name : k \in DOMAIN fn.params}
        whole == Len(fn.params) = 1 /\ fn.params[1].json /\ args # <<>> /\ fn.params[1].name \notin DOMAIN args
        p == fn.params[CHOOSE k \in DOMAIN fn.params : fn.params[k].name = body[2]]
        value == IF body[2] = "request_role" THEN <<42>>
                 ELSE IF whole THEN <<Object>>
                 ELSE IF p.name \in DOMAIN args THEN args[p.name] ELSE IF p.variadic THEN <<>> ELSE <<p.default>>
    IN  CASE n < 2 -> <<>>
          [] n >= 2 /\ body[1] = ":" /\ body[2] = ":" -> BodyValues(fn, SubSeq(body, 3, n), args)
          [] n >= 2 /\ body[1] = ":" /\ body[2] \in names \cup {"request_role"} -> value \o BodyValues(fn, SubSeq(body, 3, n), args)
          [] OTHER -> BodyValues(fn, Tail(body), args)

\* A lifted embed with a filter: its placeholders stand in the text more than once.
RepeatsFilter(q) == \E k \in DOMAIN q.embeds : q.embeds[k].spread /\ q.embeds[k].query.where # <<>>

(* Every argument a statement carries is used, and where placeholders have no
   number the k-th one in the text was bound as the k-th argument, however
   deep in subqueries, bodies and assignments the values stand. *)
ArgumentsLineUp ==
    task.kind \in Kinds => \A s \in DOMAIN out : out[s].err = "" =>
      LET phs == PhsStatement(out[s])
          n == Len(out[s].args)
      IN  /\ {phs[k] : k \in DOMAIN phs} = 1..n
          /\ task.d.numbered \/ (task.kind \in {"rows", "sorted"} /\ RepeatsFilter(task.q)) \/ phs = [k \in 1..n |-> k]

(* A read or a wrapped call returns exactly the rows that its filters and its
   inner embeds mean, in three-valued logic, whatever the nesting. *)
ReadSelectsItsRows ==
    Compiled({"rows", "sorted", "native"}) => RunRows(out[1]) = MeantRows(task.q)

(* The count statement counts the rows of the read it accompanies: same
   filter, same inner embeds, although the parent has another name in it. *)
CountMatchesRead == Compiled(Selects) => RunRows(out[2]) = RunRows(out[1])

(* Every row carries the objects of its embeds: the related rows that pass the
   embed's own filter, through junctions and composite keys, nested and
   lifted. *)
EmbedsNest ==
    Compiled({"rows"}) /\ task.q.embeds # <<>> =>
      \A r \in RunRows(out[1]) :
         ObjectOf(out[1].items, Parent(out[1], r), out[1].args) = ObjectMeant(task.q, <<>>, r)

(* Rows are sorted by the terms in their order, NULLs where PostgreSQL puts
   them. Where NULLs take a sort key of their own, this is so only for rows
   that do not differ in which later terms are NULL. *)
OrderAsAsked ==
    Compiled({"sorted"}) =>
      \A r, s \in Tables.P :
         LET null(k, x) == SortValue(task.q, task.q.order[k], x) = Null
         IN  task.d.nulls \/ (\A k \in 2..Len(task.q.order) : null(k, r) <=> null(k, s))
               => (SortedBefore(out[1], r, s) <=> AskedBefore(task.q, r, s))

(* PostgreSQL's placement of NULLs is reproduced on every engine. *)
NullsAsPostgres ==
    Compiled({"sorted"}) => \A r, s \in Tables.P : SortedBefore(out[1], r, s) <=> AskedBefore(task.q, r, s)

(* A write changes the rows its filter means and no others, to the values of
   the payload; absent values and conflicting keys are treated as asked. *)
WritesAsMeant ==
    Compiled({"insert", "update", "delete"}) => RunWrite(out[1], Tables.P) = MeantWrite(task.kind, task.q)

(* An upsert never leaves two rows with one key, and sent again it changes
   nothing more. *)
UpsertRetried ==
    Compiled({"insert"}) /\ task.q.target # <<>> /\ (\A k \in DOMAIN task.q.rows : "id" \in DOMAIN task.q.rows[k]) =>
      LET once == RunWrite(out[1], Tables.P)
      IN  /\ \A r, s \in once : r.id = s.id => r = s
          /\ RunWrite(out[1], once) = once

(* The body of a call sees its arguments, the defaults of those left out, all
   the elements of a variadic one and the request's context, at the places
   that name them; casts are left alone. *)
CallsBind ==
    Compiled({"body"}) =>
      LET phs == PhsOf(out[1].from.phs, Phs)
      IN  [k \in DOMAIN phs |-> out[1].args[phs[k]]] = BodyValues(task.fn, task.fn.body, task.args)
=============================================================================
