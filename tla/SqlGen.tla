------------------------------- MODULE SqlGen -------------------------------
(***************************************************************************)
(* The SQL generator (backend/sqlgen): a planned query, write or call      *)
(* becomes the text of a statement and the list of its arguments. Writers  *)
(* take the builder b, [args, n, err] (arguments bound so far, number of   *)
(* the last alias, first error), and a context cx, [d, qual, parent,       *)
(* embeds, computed, reps, root], and give Got(the builder after, what     *)
(* they wrote). The context stands for the builder's fields that every     *)
(* writer restores.                                                        *)
(*                                                                         *)
(* The text of a condition keeps what the parentheses decide: it is a      *)
(* sequence of disjuncts, each a sequence of atoms joined by AND; writing  *)
(* AND between two texts joins the last disjunct of the one to the first   *)
(* of the other. JSON paths, full text, regular expressions, ranges and    *)
(* casts are columns and comparisons like others.                          *)
(***************************************************************************)
EXTENDS Condition, SequencesExt

Got(b, f) == [b |-> b, f |-> f]
Then(r, Op(_, _)) == Op(r.b, r.f)
Thread(Op(_, _), b, items) ==
    FoldLeft(LAMBDA acc, it : Then(Op(acc.b, it), LAMBDA bb, f : Got(bb, Append(acc.f, f))), Got(b, <<>>), items)
Fail(b, e) == [b EXCEPT !.err = IF @ = "" THEN e ELSE @]
Fresh(b) == [b EXCEPT !.n = @ + 1]

Atom(x) == <<<<x>>>>
Paren(e) == Atom([t |-> "paren", e |-> e])
NotText(e) == Atom([t |-> "not", e |-> e])
Negated(neg, r) == IF neg THEN Got(r.b, NotText(r.f)) ELSE r
AndText(e, f) == Front(e) \o <<Last(e) \o Head(f)>> \o Tail(f)
JoinText(sep, es) ==
    IF es = <<>> THEN <<>>
    ELSE FoldLeft(LAMBDA e, f : IF sep = "and" THEN AndText(e, f) ELSE e \o f, Head(es), Tail(es))
Lit(v) == [t |-> "lit", v |-> v]
Cmp(op, l, r) == [t |-> "cmp", op |-> op, l |-> l, r |-> r]

\* Aliases: a prefix and a number, a table's name, or none.
NoAlias == <<"", 0>>
T0 == <<"t", 0>>
Named(name) == <<name, -1>>
Col(alias, name) == [t |-> "col", alias |-> alias, name |-> name]

-----------------------------------------------------------------------------
(* Dialects: numbered placeholders or bare ones, IN as one array or        *)
(* expanded, NULLS FIRST/LAST or a sort key, RETURNING, how to upsert.     *)

Postgres == [name |-> "postgres", numbered |-> TRUE, array |-> TRUE, nulls |-> TRUE, returning |-> TRUE, upsert |-> "conflict"]
Sqlite == [name |-> "sqlite", numbered |-> TRUE, array |-> FALSE, nulls |-> TRUE, returning |-> TRUE, upsert |-> "conflict"]
Mysql == [name |-> "mysql", numbered |-> FALSE, array |-> FALSE, nulls |-> FALSE, returning |-> FALSE, upsert |-> "duplicate"]
Sqlserver == [name |-> "sqlserver", numbered |-> TRUE, array |-> FALSE, nulls |-> FALSE, returning |-> TRUE, upsert |-> "none"]

\* One ORDER BY element: an expression or whether it is NULL.
Key(e, rank, desc, nulls) == [e |-> e, rank |-> rank, desc |-> desc, nulls |-> nulls]
NullsOrder(d, e, desc, nulls) ==
    LET first == IF nulls = "" THEN desc ELSE nulls = "first"
    IN  IF d.nulls
        THEN [keys |-> <<>>, term |-> Key(e, FALSE, desc, IF first THEN "first" ELSE "last")]
        ELSE [keys |-> <<Key(e, TRUE, first, "")>>, term |-> Key(e, FALSE, desc, "")]

\* limit and offset are <<>> or <<n>>; every engine spells them out.
LimitOffset(d, limit, offset) ==
    [skip |-> IF offset = <<>> THEN 0 ELSE offset[1], take |-> limit]

\* What happens to a row whose key is taken: [on, set] or an error.
Upsert(d, target, columns, ignore) ==
    CASE d.upsert = "none" -> [err |-> "XX000", on |-> <<>>, set |-> <<>>]
      [] d.upsert = "duplicate" /\ columns = <<>> -> [err |-> "XX000", on |-> <<>>, set |-> <<>>]
      [] OTHER -> [err |-> "", on |-> target, set |-> IF ignore THEN <<>> ELSE columns]

-----------------------------------------------------------------------------
(* Values and columns.                                                     *)

Bind(b, v) == Got([b EXCEPT !.args = Append(@, v)], [t |-> "ph", n |-> Len(b.args) + 1])

ColRef(cx, name) ==
    IF name \in cx.computed
    THEN [t |-> "call", fn |-> name, row |-> IF cx.qual = NoAlias THEN cx.root ELSE cx.qual]
    ELSE Col(cx.qual, name)

RepCall(fn, e) == [t |-> "rep", fn |-> fn, e |-> e]
ValueThrough(fn, cx, b, col, v) ==
    Then(Bind(b, v), LAMBDA bb, ph : Got(bb, IF col \in cx.reps THEN RepCall(fn, ph) ELSE ph))
FromTextValue(cx, b, col, v) == ValueThrough("fromText", cx, b, col, v)
\* A payload value; an absent one is bound as NULL by the caller.
WriteValue(cx, b, col, v) == ValueThrough("fromJSON", cx, b, col, v)
ColumnExpr(cx, name) ==
    IF name \in cx.reps THEN RepCall("toJSON", ColRef(cx, name)) ELSE ColRef(cx, name)

\* The context for a query on another relation.
UseRelation(cx, q, root, qual) ==
    [cx EXCEPT !.computed = q.computed, !.reps = q.reps, !.root = root, !.qual = qual]

-----------------------------------------------------------------------------
(* Filters.                                                                *)

WriteIn(cx, b, col, c) ==
    CASE c.val = <<>> -> Got(b, Atom(Lit(FALSE)))
      [] c.val # <<>> /\ cx.d.array ->
           Then(Bind(b, c.val), LAMBDA bb, ph :
             Got(bb, Atom([t |-> "any", l |-> col, n |-> ph.n, parse |-> c.col \in cx.reps])))
      [] OTHER ->
           Then(Thread(LAMBDA bb, v : FromTextValue(cx, bb, c.col, v), b, c.val), LAMBDA bb, list :
             Got(bb, Atom([t |-> "in", l |-> col, list |-> list])))

QuantElem(cx, b, col, c, v) ==
    IF c.op \in {"eq", "gt"}
    THEN Then(FromTextValue(cx, b, c.col, v), LAMBDA bb, e : Got(bb, Atom(Cmp(c.op, col, e))))
    ELSE Got(Fail(b, "PGRST127"), Atom(Lit(FALSE)))

WriteQuantified(cx, b, col, c) ==
    Then(Thread(LAMBDA bb, v : QuantElem(cx, bb, col, c, v), b, c.val), LAMBDA bb, parts :
      CASE c.val = <<>> -> Got(b, Atom(Lit(c.quant = "all")))
        [] Len(c.val) = 1 -> Got(bb, parts[1])
        [] OTHER -> Got(bb, Paren(JoinText(IF c.quant = "all" THEN "and" ELSE "or", parts))))

WriteIs(col) == Atom([t |-> "isnull", l |-> col])

WriteCompare(cx, b, c) ==
    LET col == ColRef(cx, c.col)
    IN  Negated(c.neg,
          CASE c.quant # "" -> WriteQuantified(cx, b, col, c)
            [] c.quant = "" /\ c.op = "in" -> WriteIn(cx, b, col, c)
            [] c.quant = "" /\ c.op = "is" -> Got(b, WriteIs(col))
            [] OTHER -> Then(FromTextValue(cx, b, c.col, c.val[1]), LAMBDA bb, e : Got(bb, Atom(Cmp(c.op, col, e)))))

JoinCond(l, ls, r, rs) == JoinText("and", [k \in DOMAIN ls |-> Atom(Cmp("eq", Col(l, ls[k]), Col(r, rs[k])))])

\* FROM and the correlation of an embed: a function of the parent row, or a table.
EmbedSource(rel, alias, parent) ==
    IF rel.func # ""
    THEN [from |-> [t |-> "func", name |-> rel.func, row |-> parent, alias |-> alias], corr |-> Atom(Lit(TRUE))]
    ELSE [from |-> [t |-> "table", name |-> rel.target, alias |-> alias],
          corr |-> JoinCond(alias, rel.foreign, parent, rel.local)]

\* The junction of a many-to-many embed: what is joined, and the WHERE.
CrossJoin(rel, alias, jx) ==
    IF rel.junction = "" THEN <<>>
    ELSE <<[t |-> "table", name |-> rel.junction, alias |-> jx, on |-> JoinCond(jx, rel.jforeign, alias, rel.foreign)]>>
CrossWhere(rel, alias, jx, parent) ==
    IF rel.junction = "" THEN EmbedSource(rel, alias, parent).corr ELSE JoinCond(jx, rel.jlocal, parent, rel.local)

WriteLogical(sep, b, parts) == Got(b, IF parts = <<>> THEN <<>> ELSE Paren(JoinText(sep, parts)))

RECURSIVE WriteCond(_, _, _)
\* The embed's own filter, on its alias, onto the join.
WriteEmbedFilter(cx, b, emb, alias, on) ==
    LET q == emb.query
    IN  IF q.where = <<>> THEN Got(b, on)
        ELSE Then(WriteCond(UseRelation(cx, q, Named(emb.rel.target), alias), b, q.where[1]), LAMBDA bb, f :
               Got(bb, AndText(on, Paren(f))))

WriteEmbedExists(cx, b, emb, parent) ==
    LET n == b.n + 1
        alias == <<"x", n>>
        jx == <<"xj", n>>
    IN  Then(WriteEmbedFilter(cx, Fresh(b), emb, alias, CrossWhere(emb.rel, alias, jx, parent)), LAMBDA bb, f :
          Got(bb, Atom([t |-> "exists", from |-> EmbedSource(emb.rel, alias, parent).from,
                        join |-> CrossJoin(emb.rel, alias, jx), where |-> f])))

WriteEmbedPredicate(cx, b, c) ==
    IF c.index \notin DOMAIN cx.embeds THEN Got(Fail(b, "XX000"), Atom(Lit(FALSE)))
    ELSE Negated(~c.exists, WriteEmbedExists(cx, b, cx.embeds[c.index], cx.parent))

WriteCond(cx, b, c) ==
    CASE c.t = "cmp" -> WriteCompare(cx, b, c)
      [] c.t = "embed" -> WriteEmbedPredicate(cx, b, c)
      [] OTHER ->
           Then(Thread(LAMBDA bb, k : WriteCond(cx, bb, k), b, c.kids), LAMBDA bb, parts :
             IF c.t = "not" THEN Got(bb, NotText(parts[1])) ELSE WriteLogical(c.t, bb, parts))

\* WHERE: the filter, then an EXISTS for every embed that must have rows.
\* Nothing is <<>>.
WriteWhere(cx, b, where, embeds, parent) ==
    Then(Thread(LAMBDA bb, c : WriteCond(cx, bb, c), b, where), LAMBDA b1, own :
      Then(Thread(LAMBDA bb, e : WriteEmbedExists(cx, bb, e, parent), b1, SelectSeq(embeds, LAMBDA e : e.inner)),
           LAMBDA b2, inner : Got(b2, JoinText("and", own \o inner))))

-----------------------------------------------------------------------------
(* ORDER BY.                                                               *)

FindEmbed(embeds, name) ==
    LET at == {k \in DOMAIN embeds : embeds[k].key = name}
    IN  IF at = {} THEN 0 ELSE CHOOSE k \in at : \A j \in at : k <= j

\* rel(col): a subquery for the column of the one related row.
RelatedOrderExpr(cx, b, t) ==
    LET emb == cx.embeds[FindEmbed(cx.embeds, t.rel)]
        alias == <<"o", b.n + 1>>
    IN  IF FindEmbed(cx.embeds, t.rel) = 0 THEN Got(Fail(b, "XX000"), Lit(FALSE))
        ELSE Then(Got(Fresh(b), EmbedSource(emb.rel, alias, cx.qual)), LAMBDA bb, src :
               Got(bb, [t |-> "scalar", e |-> ColRef(UseRelation(cx, emb.query, Named(emb.rel.target), alias), t.col),
                        from |-> src.from, join |-> <<>>, where |-> src.corr]))

\* All the sort keys stand before all the terms.
WriteOrder(cx, b, terms) ==
    Then(Thread(LAMBDA bb, t :
                  Then(IF t.rel = "" THEN Got(bb, ColRef(cx, t.col)) ELSE RelatedOrderExpr(cx, bb, t), LAMBDA b1, e :
                    Got(b1, NullsOrder(cx.d, e, t.desc, t.nulls))), b, terms), LAMBDA b2, each :
      Got(b2, FlattenSeq([k \in DOMAIN each |-> each[k].keys]) \o [k \in DOMAIN each |-> each[k].term]))

-----------------------------------------------------------------------------
(* Embeds in the projection.                                               *)

Pair(key, e) == [key |-> key, e |-> e]
AllColumns(rel, alias) == [k \in DOMAIN rel.columns |-> Pair(rel.columns[k], Col(alias, rel.columns[k]))]

\* The filter is written once and stands in the subquery of every column.
SpreadPairs(cx, b, emb, parent) ==
    LET alias == <<"t", b.n + 1>>
        ec == UseRelation(cx, emb.query, Named(emb.rel.target), alias)
        select == emb.query.select
        lifted == IF select = <<>> THEN AllColumns(emb.rel, alias)
                  ELSE FlattenSeq([k \in DOMAIN select |->
                         IF select[k].col = "*" THEN AllColumns(emb.rel, alias)
                         ELSE <<Pair(select[k].col, ColumnExpr(ec, select[k].col))>>])
        sub(e, where) == [t |-> IF emb.rel.card = "one" THEN "scalar" ELSE "list", e |-> e,
                          from |-> [t |-> "table", name |-> emb.rel.target, alias |-> alias], join |-> <<>>,
                          where |-> where]
    IN  IF emb.rel.junction # "" \/ \E k \in DOMAIN select : select[k].t # "col"
        THEN Got(Fail(b, "PGRST127"), <<>>)
        ELSE Then(WriteEmbedFilter(cx, Fresh(b), emb, alias, JoinCond(alias, emb.rel.foreign, parent, emb.rel.local)),
                  LAMBDA bb, f : Got(bb, [k \in DOMAIN lifted |-> Pair(lifted[k].key, sub(lifted[k].e, f))]))

RECURSIVE WriteEmbed(_, _, _, _)
\* One item of a select list that holds embeds, for the row of alias.
EmbedItem(cx, b, e, alias) ==
    CASE e.empty -> Got(b, <<>>)
      [] ~e.empty /\ e.spread -> SpreadPairs(cx, b, e, alias)
      [] OTHER -> Then(WriteEmbed(cx, b, e, alias), LAMBDA bb, f : Got(bb, <<Pair(e.key, f)>>))

\* The row's object, its pairs in order.
EmbedObject(cx, b, emb, alias) ==
    LET q == emb.query
        ec == UseRelation(cx, q, Named(emb.rel.target), alias)
        item(bb, it) ==
          CASE it.t = "col" -> Got(bb, IF it.col = "*" THEN AllColumns(emb.rel, alias)
                                       ELSE <<Pair(it.col, ColumnExpr(ec, it.col))>>)
            [] it.t = "agg" -> Got(bb, <<Pair("count", [t |-> "count"])>>)
            [] it.t = "embed" -> EmbedItem(ec, bb, q.embeds[it.index], alias)
    IN  IF q.select = <<>> THEN Got(b, AllColumns(emb.rel, alias))
        ELSE Then(Thread(item, b, q.select), LAMBDA bb, parts : Got(bb, FlattenSeq(parts)))

WriteEmbed(cx, b, emb, parent) ==
    LET q == emb.query
        alias == <<"t", b.n + 1>>
        one == emb.rel.card = "one"
        ec == [UseRelation(cx, q, Named(emb.rel.target), alias) EXCEPT !.embeds = q.embeds]
    IN  Then(EmbedObject(cx, Fresh(b), emb, alias), LAMBDA b1, obj :
        Then(WriteEmbedFilter(cx, b1, emb, alias, CrossWhere(emb.rel, alias, <<"j", b1.n>>, parent)), LAMBDA b2, w :
        Then(WriteOrder(ec, b2, IF one THEN <<>> ELSE q.order), LAMBDA b3, o :
          Got(b3, [t |-> "object", one |-> one, obj |-> obj, from |-> EmbedSource(emb.rel, alias, parent).from,
                   join |-> CrossJoin(emb.rel, alias, <<"j", b1.n>>), where |-> w, order |-> o,
                   window |-> IF one THEN LimitOffset(cx.d, <<1>>, <<>>) ELSE LimitOffset(cx.d, q.limit, q.offset)]))))

WriteEmbeddedSelect(cx, b, q) ==
    LET item(bb, it) ==
          CASE it.t = "col" -> Got(bb, <<Pair(it.col, ColumnExpr(cx, it.col))>>)
            [] it.t = "agg" -> Got(Fail(bb, "PGRST127"), <<>>)
            [] it.t = "embed" -> EmbedItem(cx, bb, q.embeds[it.index], T0)
    IN  Then(Thread(item, b, q.select), LAMBDA bb, parts :
          Got(bb, IF FlattenSeq(parts) = <<>> THEN <<Pair("*", Col(T0, "*"))>> ELSE FlattenSeq(parts)))

-----------------------------------------------------------------------------
(* Statements.                                                             *)

NewBuilder == [args |-> <<>>, n |-> 0, err |-> ""]
Context(d, q, parent) ==
    [d |-> d, qual |-> NoAlias, parent |-> parent, embeds |-> <<>>, computed |-> q.computed, reps |-> q.reps,
     root |-> Named(q.relation)]
Select(b, items, from, where, group, order, window) ==
    [t |-> "select", err |-> b.err, args |-> b.args, items |-> items, from |-> from, where |-> where,
     group |-> group, order |-> order, window |-> window]
Relation(q) == [t |-> "table", name |-> q.relation, alias |-> Named(q.relation)]

\* The projection; columns next to an aggregate are what it is grouped by.
WriteSelect(cx, items) ==
    LET pair(it) == IF it.t = "col" THEN Pair(it.col, ColumnExpr(cx, it.col)) ELSE Pair("count", [t |-> "count"])
        plain == SelectSeq(items, LAMBDA it : it.t = "col")
    IN  [items |-> IF items = <<>> THEN <<Pair("*", Col(cx.qual, "*"))>> ELSE [k \in DOMAIN items |-> pair(items[k])],
         group |-> IF Len(plain) < Len(items) THEN [k \in DOMAIN plain |-> ColumnExpr(cx, plain[k].col)] ELSE <<>>,
         err |-> IF \E k \in DOMAIN items : items[k].t = "embed" THEN "PGRST127" ELSE ""]

\* SELECT ... FROM a source already written, for a read and for a wrapped call.
ReadFrom(cx, b, q, from) ==
    LET s == WriteSelect(cx, q.select)
    IN  Then(WriteWhere(cx, IF s.err = "" THEN b ELSE Fail(b, s.err), q.where, <<>>, NoAlias), LAMBDA b1, w :
        Then(WriteOrder(cx, b1, q.order), LAMBDA b2, o :
          Select(b2, s.items, from, w, s.group, o, LimitOffset(cx.d, q.limit, q.offset))))
CompileReadPlain(d, q) == ReadFrom(Context(d, q, NoAlias), NewBuilder, q, Relation(q))

WriteEmbeddedQuery(cx, b, q, Source(_)) ==
    LET tc == [cx EXCEPT !.qual = T0, !.parent = T0, !.embeds = q.embeds]
    IN  Then(WriteEmbeddedSelect(tc, b, q), LAMBDA b1, s :
        Then(Source(b1), LAMBDA b2, from :
        Then(WriteWhere(tc, b2, q.where, q.embeds, T0), LAMBDA b3, w :
        Then(WriteOrder(tc, b3, q.order), LAMBDA b4, o :
          Select(b4, s, [from EXCEPT !.alias = T0], w, <<>>, o, LimitOffset(cx.d, q.limit, q.offset))))))
CompileReadEmbedded(d, q) ==
    WriteEmbeddedQuery(Context(d, q, NoAlias), NewBuilder, q, LAMBDA b : Got(b, Relation(q)))
CompileRead(d, q) == IF q.embeds = <<>> THEN CompileReadPlain(d, q) ELSE CompileReadEmbedded(d, q)

CountOf(b, from, where) ==
    Select(b, <<Pair("count", [t |-> "count"])>>, from, where, <<>>, <<>>, [skip |-> 0, take |-> <<>>])
\* Faulty variant: only the filter, not the inner embeds.
CompileCountWhere(d, q) ==
    Then(WriteWhere([Context(d, q, Named(q.relation)) EXCEPT !.embeds = q.embeds], NewBuilder, q.where, <<>>,
                    Named(q.relation)),
         LAMBDA b, w : CountOf(b, Relation(q), w))

CompileCount(d, q) ==
    Then(WriteWhere([Context(d, q, Named(q.relation)) EXCEPT !.embeds = q.embeds], NewBuilder, q.where, q.embeds,
                    Named(q.relation)),
         LAMBDA b, w : CountOf(b, Relation(q), w))

\* A write is [relation, computed, reps, rows, columns, missing, target, ignore,
\* set, where, returning].
WriteReturning(b, cx, cols) ==
    IF cols # <<>> /\ ~cx.d.returning THEN Fail(b, "PGRST127") ELSE b
Returned(cx, cols) == [k \in DOMAIN cols |-> Pair(cols[k], ColumnExpr(cx, cols[k]))]

\* Values row by row; an absent one is NULL or left to the engine.
WriteRows(cx, b, q) ==
    Thread(LAMBDA br, row :
             Thread(LAMBDA bc, c : IF c \in DOMAIN row THEN WriteValue(cx, bc, c, row[c])
                                   ELSE IF q.missing = "null" THEN Bind(bc, Null)
                                   ELSE Got(bc, [t |-> "default"]), br, q.columns),
           b, q.rows)

WriteConflict(d, q) ==
    IF q.target = <<>> THEN [err |-> "", on |-> <<>>, set |-> <<>>] ELSE Upsert(d, q.target, q.columns, q.ignore)

CompileInsert(d, q) ==
    LET cx == Context(d, q, NoAlias)
        rows == WriteRows(cx, NewBuilder, q)
        up == WriteConflict(d, q)
        b == WriteReturning(IF up.err = "" THEN rows.b ELSE Fail(rows.b, up.err), cx, q.returning)
    IN  [t |-> "insert", err |-> IF q.rows = <<>> THEN "PGRST100" ELSE b.err, args |-> b.args, columns |-> q.columns,
         rows |-> rows.f, on |-> up.on, set |-> up.set, returning |-> Returned(cx, q.returning)]

\* Faulty variant: the filter is bound before the assignments that stand before it.
CompileUpdateLate(d, q) ==
    LET cx == Context(d, q, NoAlias)
        cols == SelectSeq(q.sorted, LAMBDA c : c \in DOMAIN q.set)
    IN  Then(WriteWhere(cx, NewBuilder, q.where, <<>>, NoAlias), LAMBDA b1, w :
        Then(Thread(LAMBDA b, c : WriteValue(cx, b, c, q.set[c]), b1, cols), LAMBDA b2, sets :
          [t |-> "update", err |-> IF cols = <<>> THEN "PGRST100" ELSE WriteReturning(b2, cx, q.returning).err,
           args |-> b2.args, columns |-> cols, values |-> sets, where |-> w, returning |-> Returned(cx, q.returning)]))

\* The assignments in the order of the columns' names, then the filter.
CompileUpdate(d, q) ==
    LET cx == Context(d, q, NoAlias)
        cols == SelectSeq(q.sorted, LAMBDA c : c \in DOMAIN q.set)
    IN  Then(Thread(LAMBDA b, c : WriteValue(cx, b, c, q.set[c]), NewBuilder, cols), LAMBDA b1, sets :
        Then(WriteWhere(cx, b1, q.where, <<>>, NoAlias), LAMBDA b2, w :
          [t |-> "update", err |-> IF cols = <<>> THEN "PGRST100" ELSE WriteReturning(b2, cx, q.returning).err,
           args |-> b2.args, columns |-> cols, values |-> sets, where |-> w, returning |-> Returned(cx, q.returning)]))

CompileDelete(d, q) ==
    LET cx == Context(d, q, NoAlias)
    IN  Then(WriteWhere(cx, NewBuilder, q.where, <<>>, NoAlias), LAMBDA b, w :
          [t |-> "delete", err |-> WriteReturning(b, cx, q.returning).err, args |-> b.args, where |-> w,
           returning |-> Returned(cx, q.returning)])

-----------------------------------------------------------------------------
(* Calls. A function is [params, body, returns]; the body is a sequence of *)
(* ":", identifiers and other text; a parameter is [name, json, optional,  *)
(* variadic, default]. Arguments are values or, for a variadic parameter,  *)
(* lists.                                                                  *)

\* The whole object for the only, unnamed, json parameter: its value is Object.
Object == 99
SingleObjectArgs(fn, args) ==
    IF Len(fn.params) = 1 /\ DOMAIN args # {} /\ fn.params[1].json /\ fn.params[1].name \notin DOMAIN args
    THEN [x \in {fn.params[1].name} |-> <<Object>>] ELSE args

\* ctx are the values of the request's context.
ArgValue(b, fn, name, args, ctx) ==
    LET at == {k \in DOMAIN fn.params : fn.params[k].name = name}
        p == fn.params[CHOOSE k \in at : TRUE]
    IN  CASE at = {} -> IF name \in DOMAIN ctx THEN LET v == Bind(b, ctx[name]) IN Got(v.b, <<v.f>>)
                        ELSE Got(Fail(b, "XX000"), <<>>)
          [] at # {} /\ name \in DOMAIN args -> Thread(LAMBDA bb, v : Bind(bb, v), b, args[name])
          [] at # {} /\ name \notin DOMAIN args ->
               IF p.variadic THEN Got(b, <<>>)
               ELSE IF p.optional THEN LET v == Bind(b, p.default) IN Got(v.b, <<v.f>>)
               ELSE Got(Fail(b, "XX000"), <<>>)

Idents == {"p", "q", "request_role"}
RECURSIVE BindBody(_, _, _, _, _)
BindBody(b, fn, body, args, ctx) ==
    LET n == Len(body)
        cast == n >= 2 /\ body[1] = ":" /\ body[2] = ":"
        name == ~cast /\ n >= 2 /\ body[1] = ":" /\ body[2] \in Idents
        used == IF cast \/ name THEN 2 ELSE 1
        head == IF name THEN ArgValue(b, fn, body[2], args, ctx) ELSE Got(b, <<>>)
        rest == BindBody(head.b, fn, SubSeq(body, used + 1, n), args, ctx)
    IN  IF n = 0 THEN Got(b, <<>>) ELSE Got(rest.b, head.f \o rest.f)
\* The source: the body with what its placeholders became.
BindNamed(b, fn, args, ctx) ==
    LET r == BindBody(b, fn, fn.body, SingleObjectArgs(fn, args), ctx)
    IN  Got(r.b, [t |-> "body", alias |-> Named("_rpc"), phs |-> r.f])

CallHasPostFilter(q) == q.select # <<>> \/ q.where # <<>> \/ q.order # <<>> \/ q.limit # <<>> \/ q.offset # <<>>

\* Of a set of scalars there is only the window.
CompileCall(d, q, fn, args, ctx) ==
    LET cx == Context(d, q, NoAlias)
        bare == [q EXCEPT !.select = <<>>, !.where = <<>>, !.order = <<>>]
        asked == CASE fn.returns \notin {"table", "setof"} \/ ~CallHasPostFilter(q) ->
                        [bare EXCEPT !.limit = <<>>, !.offset = <<>>]
                   [] OTHER -> IF fn.returns = "table" THEN q ELSE bare
    IN  IF q.embeds # <<>> THEN WriteEmbeddedQuery(cx, NewBuilder, q, LAMBDA b : BindNamed(b, fn, args, ctx))
        ELSE Then(BindNamed(NewBuilder, fn, args, ctx), LAMBDA b, from : ReadFrom(cx, b, asked, from))

CompileCallCount(d, q, fn, args, ctx) ==
    LET alias == Named("_rpc")
        cx == IF q.embeds = <<>> THEN Context(d, q, NoAlias)
              ELSE [Context(d, q, alias) EXCEPT !.qual = alias, !.embeds = q.embeds]
    IN  Then(BindNamed(NewBuilder, fn, args, ctx), LAMBDA b1, from :
        Then(WriteWhere(cx, b1, IF q.embeds # <<>> \/ fn.returns = "table" THEN q.where ELSE <<>>, q.embeds, alias),
             LAMBDA b2, w : CountOf(b2, from, w)))

\* inner is the engine's own call, [f, args].
CompileNativeCallWrap(d, q, inner) ==
    ReadFrom(Context(d, q, NoAlias), [NewBuilder EXCEPT !.args = inner.args], q, inner.f)
CompileNativeCallCountWrap(d, q, inner) ==
    Then(WriteWhere(Context(d, q, NoAlias), [NewBuilder EXCEPT !.args = inner.args], q.where, <<>>, NoAlias),
         LAMBDA b, w : CountOf(b, inner.f, w))
=============================================================================
