------------------------------- MODULE MCPlan -------------------------------
(***************************************************************************)
(* Planning on small catalogs: reads, writes and calls, and the policies   *)
(* of a configuration as they are written. Every task is one call of the   *)
(* code; the properties compare its result with what the result is for.    *)
(***************************************************************************)
EXTENDS Planner, Authz, Meaning, Samples

VARIABLES task, out
vars == <<task, out>>

-----------------------------------------------------------------------------
(* Reads on authors(id, name), books(id, title, author, editor) and        *)
(* pubs(id, book), where a book has at most one publication.               *)

Library ==
    NewModel([k \in {Key("authors"), Key("books"), Key("pubs")} |->
               CASE k[2] = "authors" -> [Table([id |-> "int", name |-> "text"], <<"id">>, {}, {})
                                         EXCEPT !.computed = {"initials"}]
                 [] k[2] = "books" -> Table([id |-> "int", title |-> "text", author |-> "int", editor |-> "int"], <<"id">>, {},
                                            {FK("fa", <<"author">>, "authors", <<"id">>),
                                             FK("fe", <<"editor">>, "authors", <<"id">>)})
                 [] k[2] = "pubs" -> Table(Ints({"id", "book"}), <<"id">>, {<<"book">>},
                                           {FK("fp", <<"book">>, "books", <<"id">>)})],
             <<Key("authors"), Key("books"), Key("pubs")>>, {})
Item(t, col, legacy) == [t |-> t, col |-> col, legacy |-> legacy]
Query(target, alias, hint, select, where, order, embeds) ==
    [target |-> target, alias |-> alias, hint |-> hint, select |-> select, where |-> where,
     order |-> order, embeds |-> embeds]
By(rel, col) == [rel |-> rel, col |-> col]
Is(col, neg) == Compare(col, "is", neg, <<>>)
SelectLists == {<<>>, <<Item("col", "id", FALSE)>>, <<Item("col", "title", FALSE)>>, <<Item("agg", "", FALSE)>>}
Wheres == {<<>>, <<Compare("id", "eq", FALSE, <<1>>)>>, <<Compare("id", "in", FALSE, <<1, Word>>)>>,
           <<Is("authors", TRUE)>>, <<Or(<<Not(Is("pubs", FALSE)), Compare("initials", "eq", FALSE, <<Word>>)>>)>>,
           <<Or(<<Is("w", TRUE), Compare("title", "eq", FALSE, <<Word>>)>>)>>}
Orders == {<<>>, <<By("", "title")>>, <<By("authors", "name")>>, <<By("w", "name")>>, <<By("books", "id")>>,
           <<By("", "id"), By("pubs", "title")>>}
Leafs == {Query("pubs", "", "", <<Item("col", "id", FALSE)>>, <<>>, <<>>, <<>>)}
    \cup {Query("books", "", h, s, w, <<>>, <<>>) : h \in {"", "fe"},
             s \in {<<>>, <<Item("agg", "", TRUE)>>}, w \in {<<>>, <<Compare("name", "eq", FALSE, <<1>>)>>}}
EmbedLists ==
    {<<>>, <<Query("pubs", "", "", <<>>, <<>>, <<>>, <<>>)>>}
      \cup {<<Query("authors", al, h, <<>>, <<>>, <<>>, <<>>)>> : al \in {"", "w"}, h \in {"", "fa", "editor", "fp"}}
      \cup {<<Query("authors", "w", "fa", s, w, o, e)>> :
              s \in {<<>>, <<Item("col", "initials", FALSE)>>}, w \in {<<>>, <<Is("title", FALSE)>>},
              o \in {<<>>, <<By("books", "id")>>}, e \in {<<>>} \cup {<<l>> : l \in Leafs}}
      \cup {<<Query("pubs", "", "", <<>>, <<>>, o, <<l>>),
              Query("authors", "", "fe", <<>>, <<>>, <<>>, <<>>)>> :
              o \in {<<>>, <<By("books", "title")>>}, l \in Leafs}
Reads == {Query(t, "", "", s, w, o, e) :
            t \in {"books", "authors", "films"}, s \in SelectLists, w \in Wheres, o \in Orders, e \in EmbedLists}
ReadTasks == {[kind |-> "plan", q |-> q, aggs |-> a] : q \in Reads, a \in BOOLEAN}

\* PUT on a table whose key has one or two columns.
PutEq == {Compare(c, "eq", n, <<v>>) : c \in {"id", "sub"}, n \in BOOLEAN, v \in {1, 2}}
PutRows == UNION {[S -> {1, 2}] : S \in {{"id", "sub"}, {"id"}}}
PutTasks == {[kind |-> "put", pk |-> pk, where |-> w, rows |-> r, window |-> l] :
               pk \in {<<>>, <<"id">>, <<"id", "sub">>}, l \in BOOLEAN,
               w \in {<<>>} \cup {<<c>> : c \in PutEq} \cup {<<And(p)>> : p \in PutEq \X PutEq}
                     \cup {<<Or(p)>> : p \in PutEq \X PutEq},
               r \in {<<r>> : r \in PutRows} \cup {<<r, r>> : r \in PutRows}}
PutModel(t) == NewModel([k \in {Key("t")} |-> Table(Ints({"id", "sub"}), t.pk, {}, {})], <<Key("t")>>, {})

-----------------------------------------------------------------------------
(* Overloads of f over the parameters p and q.                             *)

CallTasks == {[kind |-> "function", params |-> r, vol |-> v, args |-> a, get |-> g] :
                r \in {r \in Registries : Len(r) <= 2}, v \in {"", "stable"}, g \in BOOLEAN,
                a \in UNION {[S -> {1, Word}] : S \in SUBSET {"p", "q", "id"}}}
CallOf(t) == [name |-> "f", args |-> t.args, filters |-> {}, order |-> <<>>, embeds |-> <<>>, get |-> t.get]

-----------------------------------------------------------------------------
(* Policies over the columns c and d, and predicates as they are written.  *)

Literals == {<<"b">>, <<"1">>, <<" ", "and", " ">>, <<"and", " ", "1">>, <<"a", "=">>, <<"!=", "b">>, <<>>}
Written == {[t |-> TermOf(c, o, <<>>, l), quoted |-> TRUE] : c \in {<<"a">>, <<"band">>}, o \in {"eq", "neq"}, l \in Literals}
             \cup {[t |-> TermOf(<<"a">>, "eq", <<>>, l), quoted |-> FALSE] : l \in {<<"1">>, <<"true">>}}
             \cup {[t |-> TermOf(<<"and">>, "eq", p, <<>>), quoted |-> FALSE] : p \in {<<"b">>}}
             \cup {[t |-> TermOf(<<"a", "1">>, "neq", p, <<>>), quoted |-> FALSE] : p \in {<<"and">>}}
PrintTerm(w) ==
    w.t.col \o <<" ", IF w.t.op = "eq" THEN "=" ELSE "!=">>
      \o (IF w.t.claim # <<>> THEN <<"claims.">> \o w.t.claim
          ELSE IF w.quoted THEN <<Apostrophe>> \o w.t.lit \o <<Apostrophe>> ELSE w.t.lit)
PrintPredicate(ws) ==
    CASE ws = <<>> -> <<>> [] Len(ws) = 1 -> PrintTerm(ws[1])
      [] OTHER -> PrintTerm(ws[1]) \o <<" ", "and", " ">> \o PrintTerm(ws[2])
PolicyTexts == {[kind |-> "policy", using |-> u, check |-> c, actions |-> a] :
                  u \in UpTo2(Written), c \in {<<>>} \cup {<<w>> : w \in Written}, a \in {{"select"}}}
         \cup {[kind |-> "policy", using |-> <<>>, check |-> <<w>>, actions |-> a] :
                  w \in Written, a \in {{}, {"select", "delete"}, {"select", "merge"}}}

-----------------------------------------------------------------------------
Init == /\ out = <<>>
        /\ \/ task \in ReadTasks \/ task \in PutTasks \/ task \in CallTasks \/ task \in PolicyTexts

Answer(kind, value) == task.kind = kind /\ out = <<>> /\ out' = <<value>> /\ UNCHANGED task
PlanRead == Answer("plan", Read(Library, task.q, Public, task.aggs))
PlanPut ==
    Answer("put", Write(PutModel(task),
      [target |-> "t", select |-> <<>>, where |-> task.where, embeds |-> <<>>, put |-> TRUE, window |-> task.window,
       write |-> [columns |-> DOMAIN task.rows[1], rows |-> task.rows, set |-> <<>>, conflict |-> << <<>> >>]], Public))
PlanCall == Answer("function", Call(Library, FunctionsOf(task.params, task.vol, "declared"), CallOf(task), Public))
ReadPolicy ==
    Answer("policy", ParseRegistry([grants |-> {[role |-> "web", rel |-> "t", actions |-> task.actions, cols |-> {}]},
                                    policies |-> <<[role |-> "web", rel |-> "t", using |-> PrintPredicate(task.using),
                                                    check |-> PrintPredicate(task.check)]>>]))
Done == out # <<>> /\ UNCHANGED vars

Next == PlanRead \/ PlanPut \/ PlanCall \/ ReadPolicy \/ Done
Spec == Init /\ [][Next]_vars

-----------------------------------------------------------------------------
(* Properties.                                                             *)

Answered(kind) == task.kind = kind /\ out # <<>>

\* A view at any depth has exactly the foreign keys of the table whose columns
\* reach it, under the names it gives them, in whatever order the catalog lists
\* the views (projectViews, projectOneView).
RECURSIVE Reaches(_, _, _)
Reaches(rels, view, col) ==
    LET vcs == rels[view].viewCols
        From(vc) == IF vc.base = Key("T") THEN vc.col = col ELSE vc.col \in Reaches(rels, vc.base, col)
    IN  {vcs[k].name : k \in {k \in DOMAIN vcs : From(vcs[k])}}
ViewsInherit ==
    Answered("views") =>
      \A v \in {Key("V1"), Key("V2"), Key("V3")} :
        LET Carries(fk, src) ==
              /\ fk.name = src.name /\ fk.ref = src.ref /\ Len(fk.cols) = Len(src.cols)
              /\ \A k \in DOMAIN fk.cols : fk.cols[k] \in Reaches(task.rels, v, src.cols[k])
        IN  /\ \A fk \in out[1][v].fks : \E src \in KeysOfT : Carries(fk, src)
            /\ \A src \in KeysOfT :
                 (\A k \in DOMAIN src.cols : Reaches(task.rels, v, src.cols[k]) # {}) =>
                   \E fk \in out[1][v].fks : Carries(fk, src)

\* A read is planned exactly when every name in it means something where it
\* stands: columns and operands on the level's relation, orders by a related
\* column on an embed with one row, is.null on a column or (outermost) an embed,
\* every embed on one edge (Read and the checks it makes).
Fits(r, c) == \A k \in DOMAIN c.val : c.op = "is" \/ r.cols[c.col] = "text" \/ c.val[k] # Word
RECURSIVE Leaves(_)
Leaves(c) == IF c.t = "cmp" THEN {c} ELSE UNION {Leaves(c.kids[k]) : k \in DOMAIN c.kids}
NamesOf(q) == {OutKey(q.embeds[k]) : k \in DOMAIN q.embeds}
RECURSIVE Meaningful(_, _, _, _)
Meaningful(rel, q, aggs, outer) ==
    LET r == Library.rels[rel]
        leaves == IF q.where = <<>> THEN {} ELSE Leaves(q.where[1])
        EdgeOf(e) == ResolveOne(Library, rel, e.target, e.hint, Public)
        Fields == DOMAIN r.cols \cup r.computed
    IN  /\ \A k \in DOMAIN q.select : /\ q.select[k].col \in Fields \cup {""}
                                      /\ q.select[k].t = "agg" => q.select[k].legacy \/ aggs
        /\ \A c \in leaves : \/ outer /\ c.op = "is" /\ c.col \in NamesOf(q)
                             \/ c.col \in r.computed
                             \/ c.col \in DOMAIN r.cols /\ Fits(r, c)
        /\ \A k \in DOMAIN q.embeds : /\ EdgeOf(q.embeds[k]).ok
                                      /\ Meaningful(EdgeOf(q.embeds[k]).edge.target, q.embeds[k], aggs, FALSE)
        /\ \A k \in DOMAIN q.order :
             LET o == q.order[k]
                 named == {j \in DOMAIN q.embeds : OutKey(q.embeds[j]) = o.rel}
             IN  IF o.rel = "" THEN o.col \in Fields
                 ELSE named # {} /\ LET e == EdgeOf(q.embeds[LowestIn(named)]).edge
                                        t == Library.rels[e.target]
                                    IN  e.card = "one" /\ o.col \in DOMAIN t.cols \cup t.computed
ReadsMeaningful ==
    Answered("plan") =>
      (out[1].err = "") = /\ Key(task.q.target) \in DOMAIN Library.rels
                          /\ Meaningful(Key(task.q.target), task.q, task.aggs, TRUE)

\* An accepted PUT writes one row, names its whole key, and the row is the one the
\* URL's filters select (validatePut, putEqFilters).
Repeats(where) == \E c, d \in Leaves(where[1]) : c # d /\ c.col = d.col
PutAddressesItsRow ==
    Answered("put") /\ out[1].err = "" /\ task.where # <<>> =>
      /\ Len(task.rows) = 1 /\ ColumnsOf(task.where[1]) = ElementsOf(task.pk)
      /\ ~Repeats(task.where) => Eval(task.where[1], task.rows[1], <<>>) = True
      /\ out[1].write.conflict = <<task.pk>>

\* A call runs the one overload its arguments fit best (exactly, else with the most
\* required parameters), whatever the order of declaration; it is ambiguous when
\* several are equally good and unknown when none fits. A GET's other keys filter
\* the result, and never runs a volatile function (Call, Resolve, satisfiable).
CallsPlanned ==
    Answered("function") =>
      LET fs == {task.params[k] : k \in DOMAIN task.params}
          all == UNION {{ps[k].name : k \in DOMAIN ps} : ps \in fs}
          args == IF task.get /\ fs # {} THEN DOMAIN task.args \cap all ELSE DOMAIN task.args
          Has(ps) == {ps[k].name : k \in DOMAIN ps}
          Needs(ps) == {ps[k].name : k \in {k \in DOMAIN ps : ~ps[k].optional /\ ~ps[k].variadic}}
          fit == {ps \in fs : Needs(ps) \subseteq args /\ args \subseteq Has(ps)}
          exact == {ps \in fit : Has(ps) = args}
          pool == IF exact # {} THEN exact ELSE fit
          best == {ps \in pool : \A other \in pool : Cardinality(Needs(other)) <= Cardinality(Needs(ps))}
      IN  CASE best = {} -> out[1].err = "PGRST202"
            [] Cardinality(best) > 1 -> out[1].err = "PGRST203"
            [] OTHER -> /\ out[1].err \notin {"PGRST202", "PGRST203"}
                        /\ out[1].err = "" => /\ out[1].fn.params \in best
                                              /\ DOMAIN out[1].call.args = args
                                              /\ out[1].call.filters = DOMAIN task.args \ args
                                              /\ task.get => task.vol = "stable"

\* A policy is read as it is written or the whole registry is refused: quoted text
\* that looks like syntax never changes a predicate (parsePredicate, splitAnd,
\* parseTerm, ParseRegistry).
Awkward(ws) == \E k \in DOMAIN ws : ws[k].t.col = <<"and">> \/ \E i \in DOMAIN ws[k].t.lit : ws[k].t.lit[i] = "!="
PoliciesReadBack ==
    Answered("policy") =>
      LET bare(ws) == [k \in DOMAIN ws |-> ws[k].t]
      IN  /\ out[1].ok => /\ out[1].policies[1].using = bare(task.using)
                          /\ out[1].policies[1].check = bare(task.check)
                          /\ {g.action : g \in out[1].grants} = task.actions
          /\ task.actions \subseteq ValidActions /\ task.actions # {} /\ task.using \o task.check # <<>>
             /\ ~Awkward(task.using) /\ ~Awkward(task.check) => out[1].ok
=============================================================================
