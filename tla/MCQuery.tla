------------------------------- MODULE MCQuery ------------------------------
(***************************************************************************)
(* The parser on families of inputs printed from trees. What a client      *)
(* means is a tree; Print... writes it the way the grammar says, quoting   *)
(* what must be quoted, and the parser has to read the same tree back.     *)
(***************************************************************************)
EXTENDS Query, TLC

VARIABLES task, out
vars == <<task, out>>

-----------------------------------------------------------------------------
(* Printing.                                                               *)

Special == {Quote, Escape, ",", "(", ")", "{", "}", ".", ":", "->", "->>", "!"}
Flat(ss) == FlattenSeq(ss)
Quoted(s, f) == <<Quote>> \o Flat([k \in DOMAIN s |-> IF s[k] \in DOMAIN f THEN f[s[k]] ELSE <<s[k]>>])
                  \o <<Quote>>
\* An element escapes with a backslash, an identifier doubles its quotes.
ElemEscapes == (Quote :> <<Escape, Quote>>) @@ (Escape :> <<Escape, Escape>>)
NameEscapes == Quote :> <<Quote, Quote>>
PrintElem(e) == IF e = <<>> \/ \E k \in DOMAIN e : e[k] \in Special THEN Quoted(e, ElemEscapes) ELSE e
PrintName(n) == IF \E k \in DOMAIN n : n[k] \in Special THEN Quoted(n, NameEscapes) ELSE n
Join(ss, sep) == Flat([k \in DOMAIN ss |-> IF k = 1 THEN ss[k] ELSE <<sep>> \o ss[k]])
PrintList(es, open, close) ==
    <<open>> \o Join([k \in DOMAIN es |-> PrintElem(es[k])], ",") \o <<close>>
PrintPath(path, last) ==
    Flat([k \in DOMAIN path |->
            (IF k = 1 THEN <<>> ELSE IF k = Len(path) THEN <<last>> ELSE <<"->">>) \o PrintName(path[k])])

Urls(s) == [k \in DOMAIN s |-> IF s[k] = "%" THEN "*" ELSE s[k]]
PrintOperand(c) ==
    CASE c.quant \in {<<"any">>, <<"all">>} ->
           PrintList([k \in DOMAIN c.val |-> Urls(c.val[k])], "{", "}")
      [] c.op = "in" -> PrintList(c.val, "(", ")")
      [] OTHER -> Urls(c.val[1])
PrintOp(c) ==
    (IF c.neg THEN <<"not", ".">> ELSE <<>>) \o <<c.op>>
      \o (IF c.quant = <<>> THEN <<>> ELSE <<"(">> \o c.quant \o <<")">>)
      \o <<".">> \o PrintOperand(c)
RECURSIVE PrintCond(_)
PrintCond(c) ==
    CASE c.t = "cmp" -> PrintPath(c.path, c.last) \o <<".">> \o PrintOp(c)
      [] c.t = "not" -> <<"not", ".">> \o PrintCond(c.kids[1])
      [] OTHER -> <<c.t, "(">> \o Join([k \in DOMAIN c.kids |-> PrintCond(c.kids[k])], ",") \o <<")">>
\* A condition as a parameter.
PrintFilter(c) ==
    CASE c.t = "cmp" -> [key |-> PrintPath(c.path, c.last), val |-> PrintOp(c)]
      [] c.t = "not" -> [key |-> <<"not", ".", c.kids[1].t>>, val |-> Tail(PrintCond(c.kids[1]))]
      [] OTHER -> [key |-> <<c.t>>, val |-> Tail(PrintCond(c))]

Before(s, sep) == IF s = <<>> THEN <<>> ELSE PrintName(s) \o sep
PrintColumn(c) == Before(c.alias, <<":">>) \o PrintPath(c.path, c.last)
                    \o (IF c.cast = <<>> THEN <<>> ELSE <<":", ":">> \o c.cast)
PrintHead(h) == Before(h.alias, <<":">>) \o (IF h.spread THEN <<"...">> ELSE <<>>) \o h.target
                  \o (IF h.hint = <<>> THEN <<>> ELSE <<"!">> \o h.hint)
                  \o (IF h.inner THEN <<"!", "inner">> ELSE <<>>)
RECURSIVE PrintSelect(_)
PrintSelect(items) ==
    LET Item(i) ==
          CASE i.t = "col" -> PrintColumn(i)
            [] i.t = "agg" -> Before(i.alias, <<":">>)
                 \o (IF i.arg = <<>> THEN <<>> ELSE PrintColumn(i.arg[1]) \o <<".">>)
                 \o <<i.func, "(", ")">> \o (IF i.cast = <<>> THEN <<>> ELSE <<":", ":">> \o i.cast)
            [] OTHER -> PrintHead(i.head) \o <<"(">> \o PrintSelect(i.items) \o <<")">>
    IN  Join([k \in DOMAIN items |-> Item(items[k])], ",")

-----------------------------------------------------------------------------
(* Inputs.                                                                 *)

UpTo(S, n) == UNION {[1..k -> S] : k \in 0..n}
Elements == UpTo({Quote, Escape, ",", "(", "x"}, 2)
Lists == {<<e>> : e \in Elements} \cup (Elements \X Elements)
ListInputs == {[kind |-> "list", want |-> l, brace |-> b, text |-> <<>>] : l \in Lists, b \in BOOLEAN}

Names == {<<"a">>, <<"b", ",">>, <<"c", ".">>, <<"not">>, <<"d", Quote>>, <<"e", "->">>}
Leaf(p, last, neg, op, quant, val) == Compare([path |-> p, last |-> last], neg, op, quant, val)
Leaves == {Leaf(<<n>>, "", neg, "eq", <<>>, << <<"x">> >>) : n \in Names, neg \in BOOLEAN}
  \cup {Leaf(<< <<"a">>, <<"k">> >>, "->>", FALSE, "eq", <<>>, << <<"1", ".", "2">> >>),
        Leaf(<< <<"a">> >>, "", FALSE, "in", <<>>, << <<"x", ",">>, <<"y">> >>),
        Leaf(<< <<"a">> >>, "", TRUE, "is", <<>>, << <<"null">> >>),
        Leaf(<< <<"a">> >>, "", FALSE, "like", <<"any">>, << <<"x", "%">>, <<Quote>> >>),
        Leaf(<< <<"a">> >>, "", FALSE, "fts", <<"english">>, << <<"x">> >>)}
Few == {l \in Leaves : l.op # "eq" \/ l.path[1] \in {<<"b", ",">>, <<"not">>}}
Inner1 == {Node(op, <<l, m>>) : op \in {"and", "or"}, l \in Few, m \in Few}
Kids == Few \cup Inner1 \cup {NotNode(n) : n \in Inner1}
Trees == {Node(op, <<l>>) : op \in {"and", "or"}, l \in Leaves}
           \cup {Node("or", <<l, k>>) : l \in Few, k \in Kids}
           \cup {NotNode(Node("and", <<k, l>>)) : l \in Few, k \in Kids}
FilterInputs == {[kind |-> "filter", want |-> c] : c \in Leaves \cup Trees}

Col(alias, path, last, cast) == [t |-> "col", alias |-> alias, path |-> path, last |-> last, cast |-> cast]
Columns == {Col(al, <<n>>, "", ct) : al \in {<<>>, <<"n", ":">>}, n \in {<<"a">>, <<"b", ",">>}, ct \in {<<>>, <<"int">>}}
             \cup {Col(<<>>, << <<"a">>, <<"k">> >>, "->>", <<>>)}
Agg(func, arg, alias, cast) == [t |-> "agg", func |-> func, arg |-> arg, alias |-> alias, cast |-> cast]
Aggs == {Agg("count", <<>>, al, ct) : al \in {<<>>, <<"n">>}, ct \in {<<>>, <<"int">>}}
          \cup {Agg("sum", <<Col(<<>>, << <<"a">> >>, "", ct)>>, al, oc) :
                  ct \in {<<>>, <<"int">>}, al \in {<<>>, <<"n">>}, oc \in {<<>>, <<"text">>}}
Heads == [alias : {<<>>, <<"n">>}, target : {<<"client">>}, spread : BOOLEAN, hint : {<<>>, <<"fk">>},
          inner : BOOLEAN]
PlainHead == [alias |-> <<>>, target |-> <<"client">>, spread |-> FALSE, hint |-> <<>>, inner |-> FALSE]
Emb(head, items) == [t |-> "embed", head |-> head, items |-> items, empty |-> items = <<>>]
Flats == Columns \cup Aggs
Shallow == {Emb(h, items) : h \in Heads, items \in {<<>>} \cup {<<i>> : i \in Flats}}
Deep == {Emb(PlainHead, <<i, Emb(h, items)>>) : i \in Flats, h \in {PlainHead},
           items \in {<<>>} \cup {<<j>> : j \in Flats}}
\* An aggregate whose output is cast, as an item of an embed.
RECURSIVE HasCastAggregate(_)
HasCastAggregate(items) ==
    \E k \in DOMAIN items : \/ items[k].t = "agg" /\ items[k].cast # <<>>
                            \/ items[k].t = "embed" /\ HasCastAggregate(items[k].items)
CastInside(items) == \E k \in DOMAIN items : items[k].t = "embed" /\ HasCastAggregate(items[k].items)
Selects == {<<i>> : i \in Flats \cup Shallow \cup Deep} \cup (Flats \X Flats)
             \cup {<<i, e>> : i \in Flats, e \in {Emb(PlainHead, <<j>>) : j \in Flats}}
SelectInputs == {[kind |-> "select", want |-> s] : s \in Selects}

Terms == {t \in [rel : {<<>>, <<"client">>}, path : {<< <<"a">> >>, << <<"c", ".">> >>, << <<"a">>, <<"k">> >>},
                 last : {"", "->"}, mods : UpTo({"asc", "desc", "nullsfirst", "nullslast", "up"}, 3)] :
            /\ (t.last = "->") = (Len(t.path) = 2)
            /\ t.rel # <<>> => t.path # << <<"c", ".">> >>}
OrderInputs == {[kind |-> "order", want |-> t] : t \in Terms}

\* client(order(...)), and a second embed of the same table under an alias.
Order == Emb([PlainHead EXCEPT !.target = <<"order">>], <<Col(<<>>, << <<"a">> >>, "", <<>>)>>)
Routed == <<Emb(PlainHead, <<Order>>), Emb([PlainHead EXCEPT !.alias = <<"n">>], <<Order>>)>>
Chains == {<< >>, << <<"client">> >>, << <<"n">> >>, << <<"client">>, <<"order">> >>,
           << <<"n">>, <<"order">> >>, << <<"order">> >>, << <<"n">>, <<"client">> >>}
RouteInputs == {[kind |-> "read", chains |-> c, keys |-> k] :
                  c \in Chains \X Chains, k \in [1..2 -> {"a", "order", "limit"}]}

Objects == UNION {[S -> {"v"}] : S \in SUBSET {"a", "b", "c"}}
Bodies == [type : {"json", "csv", "form"}, shape : {"object", "array"},
           objs : {<<o>> : o \in Objects} \cup (Objects \X Objects)]
WriteInputs == {[kind |-> "write", method |-> m, resolution |-> r, columns |-> c, body |-> b] :
                  m \in {"POST", "PUT", "PATCH", "DELETE"}, r \in BOOLEAN, c \in {{}, {"a"}, {"a", "b"}},
                  b \in {b \in Bodies :
                         /\ b.type = "csv" => \A k \in DOMAIN b.objs : Keys(b.objs[k]) = Keys(b.objs[1])
                         /\ b.shape = "object" => Len(b.objs) = 1}}
CallInputs == {[kind |-> "call", keys |-> k, params |-> p, variadic |-> v] :
                 k \in SUBSET {"a", "b", "c", "select", "limit"}, p \in SUBSET {"a", "b", "limit"},
                 v \in SUBSET {"a", "b"}}

Init == /\ out = <<>>
        /\ \/ task \in ListInputs \/ task \in FilterInputs \/ task \in SelectInputs
           \/ task \in OrderInputs \/ task \in RouteInputs \/ task \in WriteInputs \/ task \in CallInputs

Answer(kind, value) == task.kind = kind /\ out = <<>> /\ out' = <<value>> /\ UNCHANGED task
ReadList == Answer("list", IF task.brace THEN ParseBraceList(PrintList(task.want, "{", "}"))
                           ELSE ParseInList(PrintList(task.want, "(", ")")))
ReadFilter == Answer("filter", ParseFilters(<<PrintFilter(task.want)>>))
ReadSelect == Answer("select", ParseSelect(PrintSelect(task.want), FALSE))
PrintTerm(t) ==
    LET path == PrintPath(t.path, t.last)
    IN  Join(<<IF t.rel = <<>> THEN path ELSE t.rel \o <<"(">> \o path \o <<")">> >>
               \o [k \in DOMAIN t.mods |-> <<t.mods[k]>>], ".")
ReadOrder == Answer("order", ParseOrder(PrintTerm(task.want)))
Param(chain, key) ==
    [key |-> Join(chain \o << <<key>> >>, "."),
     val |-> CASE key = "a" -> <<"eq", ".", "x">> [] key = "order" -> <<"a">> [] key = "limit" -> <<"1">>]
Given(t) == <<[key |-> <<"select">>, val |-> PrintSelect(Routed)]>>
              \o [k \in 1..2 |-> Param(t.chains[k], t.keys[k])]
ReadRead == Answer("read", ParseRead(Given(task)))
ReadWrite == Answer("write", ParseWrite(task.method, task.resolution, task.columns, task.body))
ReadCall == Answer("call", PartitionGetArgs(task.keys, task.params, task.variadic))
Done == out # <<>> /\ UNCHANGED vars

Next == \/ ReadList \/ ReadFilter \/ ReadSelect \/ ReadOrder \/ ReadRead \/ ReadWrite \/ ReadCall \/ Done
Spec == Init /\ [][Next]_vars

-----------------------------------------------------------------------------
(* Properties.                                                             *)

Answered(kind) == task.kind = kind /\ out # <<>>

\* in.(...) and {...} give back every element, whatever quotes, backslashes,
\* commas and parentheses it holds (parseInList, parseBraceList, splitTopLevel,
\* unescapeQuoted).
ListsRead == Answered("list") => out[1] = Ok(task.want)

\* A condition written in the URL is the condition that is planned: no operand,
\* negation or nested list moves to another place of the tree (parseFilters,
\* parseLogical, parseCompare).
FiltersRead == Answered("filter") => out[1] = Ok(task.want)

\* Aliases, casts, JSON paths, aggregates, hints and nested embeds of a select
\* list are each read as what they are, except where an embed holds an aggregate
\* with a cast output (parseSelect, parseAggregate, parseEmbed).
SelectsRead == Answered("select") /\ ~CastInside(task.want) => out[1] = Ok(task.want)

\* An order term is accepted exactly when it has at most one direction, then at
\* most one nulls modifier, and then sorts as they say (parseOrder).
OrderRead ==
    Answered("order") =>
      LET t == task.want
          Dirs == {"asc", "desc"}
          Nulls == {"nullsfirst", "nullslast"}
          legal == t.mods \in {<<>>} \cup {<<m>> : m \in Dirs \cup Nulls} \cup (Dirs \X Nulls)
          has == {t.mods[k] : k \in DOMAIN t.mods}
      IN  /\ out[1].ok = legal
          /\ legal => /\ Len(out[1].v) = 1
                      /\ out[1].v[1].rel = t.rel /\ out[1].v[1].path = t.path
                      /\ out[1].v[1].desc = ("desc" \in has)
                      /\ out[1].v[1].nulls = CASE "nullsfirst" \in has -> "first"
                                                [] "nullslast" \in has -> "last"
                                                [] OTHER -> "default"

\* Every parameter of a read applies at the level its prefix names and at no
\* other; a prefix that names no embed leaves a filter on a column of that name
\* where the prefix stops (applyParams, findEmbed).
RECURSIVE LevelOf(_, _)
LevelOf(items, chain) ==
    LET hit == {k \in DOMAIN items : items[k].t = "embed" /\ chain # <<>> /\ OutKey(items[k]) = Head(chain)}
    IN  IF hit = {} THEN <<>> ELSE <<Min(hit)>> \o LevelOf(items[Min(hit)].items, Tail(chain))
Named(t, k) == Len(LevelOf(Routed, t.chains[k])) = Len(t.chains[k])
Limited(v) == {l \in DOMAIN v.levels : v.levels[l].limit # <<>>}
Ordered(v) == {l \in DOMAIN v.levels : v.levels[l].order # <<>>}
Filtered(v) == {l \in DOMAIN v.levels : v.levels[l].where # Node("and", <<>>)}
Meant(t, key) == {LevelOf(Routed, t.chains[k]) : k \in {j \in 1..2 : t.keys[j] = key}}
ParamsRouted ==
    Answered("read") =>
      /\ out[1].ok = \A k \in 1..2 : Named(task, k) \/ task.keys[k] = "a"
      /\ out[1].ok => /\ Limited(out[1].v) = Meant(task, "limit")
                      /\ Ordered(out[1].v) = Meant(task, "order")
                      /\ Filtered(out[1].v) = Meant(task, "a")

\* A bulk insert that is accepted without columns= writes the same columns in
\* every row, and no value of a row is dropped or made up (checkUniformKeys,
\* buildInsert); an update never sets one of several objects (decodeBodyObject).
WritesComplete ==
    Answered("write") /\ out[1].ok =>
      LET w == out[1].v
      IN  /\ (w.kind \in {"insert", "upsert"} /\ task.columns = {}) =>
               \A k \in DOMAIN w.rows : Keys(w.rows[k]) = w.columns
          /\ (w.kind \in {"insert", "upsert"} /\ task.columns # {}) => w.columns = task.columns
          /\ (w.kind = "update" /\ Len(task.body.objs) > 1) => w.columns = {}

\* On a GET call every key is read once: as an argument, a filter or one of the
\* reserved keys (ParseCall, PartitionGetArgs).
ArgsPartitioned ==
    Answered("call") =>
      /\ out[1].args \cup out[1].filters = task.keys \ CallReserved
      /\ out[1].args \cap out[1].filters = {}
      /\ out[1].args \subseteq task.params /\ out[1].lists \subseteq out[1].args
=============================================================================
