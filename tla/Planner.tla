------------------------------- MODULE Planner ------------------------------
(***************************************************************************)
(* The planner (plan/plan.go): a parsed request is resolved against the    *)
(* schema model. A query is [target, alias, hint, select, where, order,    *)
(* embeds]: select is a sequence of items [t, col, legacy], where is <<>>  *)
(* or <<condition>>, order a sequence of [rel, col], embeds a sequence of  *)
(* queries. Every check returns the code of its error, "" when there is    *)
(* none; the first error in the order of the checks is the answer.         *)
(***************************************************************************)
EXTENDS Relate, Condition, Rpc

FirstError(errs) ==
    LET at == {k \in DOMAIN errs : errs[k] # ""}
    IN  IF at = {} THEN "" ELSE errs[LowestIn(at)]
OrElse(err, next) == IF err # "" THEN err ELSE next
Planned(err, plan) == IF err # "" THEN [err |-> err] ELSE plan

\* Columns and computed fields; a table's columns have types.
CheckColumn(r, col) == IF col \in DOMAIN r.cols \cup r.computed THEN "" ELSE "42703"

ValidateSelect(r, items, aggs) ==
    FirstError([k \in DOMAIN items |->
      CASE items[k].t = "agg" /\ ~items[k].legacy /\ ~aggs -> "PGRST123"
        [] items[k].col \in {"*", ""} -> ""
        [] OTHER -> CheckColumn(r, items[k].col)])

OutKey(e) == IF e.alias = "" THEN e.target ELSE e.alias

\* Faulty variant: not inside a logical tree.
ReclassifyTop(embeds, c) ==
    LET at == {k \in DOMAIN embeds : OutKey(embeds[k]) = c.col}
    IN  IF c.t = "cmp" /\ c.op = "is" /\ at # {}
        THEN EmbedPredicate(CHOOSE k \in at : \A j \in at : k >= j, c.neg) ELSE c

\* name.is.null on an embed's name asks whether the embed has rows. The last
\* embed of a name counts.
RECURSIVE Reclassify(_, _)
Reclassify(embeds, c) ==
    LET at == {k \in DOMAIN embeds : OutKey(embeds[k]) = c.col}
    IN  CASE c.t \in {"and", "or", "not"} ->
               [c EXCEPT !.kids = [k \in DOMAIN c.kids |-> Reclassify(embeds, c.kids[k])]]
          [] c.t = "cmp" /\ c.op = "is" /\ at # {} ->
               EmbedPredicate(CHOOSE k \in at : \A j \in at : k >= j, c.neg)
          [] OTHER -> c
ReclassifyEmbedFilters(q) ==
    IF q.where = <<>> \/ q.embeds = <<>> THEN q.where ELSE <<Reclassify(q.embeds, q.where[1])>>

\* ParseScalar of the canonical types, for numbers: an operand is text that is a
\* number (a member of Nat) or is not (Word).
Word == -3
Coerce(type, v) == IF type = "int" /\ v = Word THEN "22P02" ELSE ""
Coerced == {"eq", "neq", "gt", "in"}
CheckOperand(r, c) ==
    IF c.col \notin DOMAIN r.cols \/ c.op \notin Coerced \/ (c.quant # "" /\ c.op \in {"neq", "in"}) THEN ""
    ELSE FirstError([k \in DOMAIN c.val |-> Coerce(r.cols[c.col], c.val[k])])

RECURSIVE ValidateCond(_, _)
ValidateCond(r, c) ==
    CASE c.t = "cmp" -> FirstError(<<CheckColumn(r, c.col), CheckOperand(r, c)>>)
      [] c.t = "embed" -> ""
      [] OTHER -> FirstError([k \in DOMAIN c.kids |-> ValidateCond(r, c.kids[k])])
ValidateWhere(r, where) == IF where = <<>> THEN "" ELSE ValidateCond(r, where[1])

ValidateOrder(r, terms) ==
    FirstError([k \in DOMAIN terms |-> IF terms[k].rel # "" THEN "" ELSE CheckColumn(r, terms[k].col)])

FindEmbedByName(embeds, name) ==
    LET at == {k \in DOMAIN embeds : OutKey(embeds[k]) = name}
    IN  IF at = {} THEN 0 ELSE LowestIn(at)

\* edges[k] is what embed k was resolved to.
ValidateRelatedOrder(m, q, edges) ==
    FirstError([k \in DOMAIN q.order |->
      LET e == FindEmbedByName(q.embeds, q.order[k].rel)
      IN  CASE q.order[k].rel = "" -> ""
            [] q.order[k].rel # "" /\ e = 0 -> "PGRST108"
            [] q.order[k].rel # "" /\ e # 0 ->
                 IF edges[e].card # "one" THEN "PGRST118"
                 ELSE CheckColumn(m.rels[edges[e].target], q.order[k].col)])

\* A query on r whose embeds were resolved to sub, [err, embeds].
CheckQuery(m, r, q, where, sub, aggs) ==
    OrElse(FirstError(<<ValidateSelect(r, q.select, aggs), ValidateWhere(r, where), ValidateOrder(r, q.order)>>),
    OrElse(sub.err, ValidateRelatedOrder(m, q, [k \in DOMAIN sub.embeds |-> sub.embeds[k].edge])))

BoundEmbed(m, emb, edge, sub, aggs) ==
    Planned(CheckQuery(m, m.rels[edge.target], emb, emb.where, sub, aggs),
            [err |-> "", emb |-> [query |-> [emb EXCEPT !.embeds = sub.embeds], edge |-> edge]])
Bound(all) ==
    LET err == FirstError([k \in DOMAIN all |-> all[k].err])
    IN  [err |-> err, embeds |-> IF err = "" THEN [k \in DOMAIN all |-> all[k].emb] ELSE <<>>]

\* Binds the embeds of q, a query on parent, each with its own; the result is
\* [err, embeds], every embed with the edge it was resolved to. An embed is
\* checked completely before the next one is looked at.
RECURSIVE ResolveEmbeds(_, _, _, _, _)
ResolveFound(m, emb, found, path, aggs) ==
    IF ~found.ok THEN [err |-> found.err]
    ELSE BoundEmbed(m, emb, found.edge, ResolveEmbeds(m, found.edge.target, emb, path, aggs), aggs)
ResolveEmbeds(m, parent, q, path, aggs) ==
    Bound([k \in DOMAIN q.embeds |->
             ResolveFound(m, q.embeds[k], ResolveOne(m, parent, q.embeds[k].target, q.embeds[k].hint, path), path, aggs)])

\* A read: [err] or the plan, its relation, condition and bound embeds.
ReadWith(m, q, key, where, sub, aggs) ==
    Planned(IF key = <<>> THEN "PGRST205" ELSE CheckQuery(m, m.rels[key], q, where, sub, aggs),
            [err |-> "", rel |-> key, where |-> where, embeds |-> sub.embeds])
Read(m, q, path, aggs) ==
    LET key == Lookup(m, q.target, path)
    IN  ReadWith(m, q, key, ReclassifyEmbedFilters(q), ResolveEmbeds(m, key, q, path, aggs), aggs)

-----------------------------------------------------------------------------
(* Writes. write is [columns, rows, set, conflict], conflict <<>> or       *)
(* <<the named target>>.                                                   *)

ValidateWrite(r, write) ==
    IF write.columns \cup DOMAIN write.set \subseteq DOMAIN r.cols THEN "" ELSE "PGRST204"
ConflictTarget(r, write) ==
    IF write.conflict = <<>> THEN <<>>
    ELSE IF write.conflict[1] = <<>> THEN <<r.pk>> ELSE write.conflict

\* The comparisons of a PUT's condition, in order; "no" when it is anything but a
\* conjunction of plain equalities.
RECURSIVE PutEqFilters(_)
PutEqFilters(c) ==
    CASE c.t = "cmp" /\ c.op = "eq" /\ ~c.neg /\ c.quant = "" -> [ok |-> TRUE, eqs |-> <<c>>]
      [] c.t = "and" ->
           LET subs == [k \in DOMAIN c.kids |-> PutEqFilters(c.kids[k])]
               Joined[k \in 0..Len(subs)] == IF k = 0 THEN <<>> ELSE Joined[k-1] \o subs[k].eqs
           IN  IF \A k \in DOMAIN subs : subs[k].ok THEN [ok |-> TRUE, eqs |-> Joined[Len(subs)]]
               ELSE [ok |-> FALSE, eqs |-> <<>>]
      [] OTHER -> [ok |-> FALSE, eqs |-> <<>>]

\* The last equality on a column wins.
UrlKey(eqs, col) ==
    LET at == {k \in DOMAIN eqs : eqs[k].col = col}
    IN  eqs[CHOOSE k \in at : \A j \in at : k >= j].val[1]

ValidatePut(r, q) ==
    LET put == IF q.where = <<>> THEN [ok |-> TRUE, eqs |-> <<>>] ELSE PutEqFilters(q.where[1])
        named == {put.eqs[k].col : k \in DOMAIN put.eqs}
        key == ElementsOf(r.pk)
    IN  CASE q.window -> "PGRST114"
          [] ~q.window /\ (~put.ok \/ r.pk = <<>> \/ named # key) -> "PGRST105"
          [] OTHER -> IF Len(q.write.rows) # 1 THEN "PGRST115"
                      ELSE IF \A c \in key : /\ c \in DOMAIN q.write.rows[1]
                                             /\ q.write.rows[1][c] = UrlKey(put.eqs, c)
                      THEN "" ELSE "PGRST115"

\* Its return shape is a read's; the order of a write is not checked.
CheckWrite(r, q, sub) ==
    OrElse(FirstError(<<ValidateSelect(r, q.select, FALSE), ValidateWhere(r, q.where), ValidateWrite(r, q.write)>>),
    OrElse(sub.err, IF q.put THEN ValidatePut(r, q) ELSE ""))
Write(m, q, path) ==
    LET key == Lookup(m, q.target, path)
    IN  Planned(IF key = <<>> THEN "PGRST205"
                ELSE CheckWrite(m.rels[key], q, ResolveEmbeds(m, key, q, path, FALSE)),
                [err |-> "", rel |-> key,
                 write |-> [q.write EXCEPT !.conflict = ConflictTarget(m.rels[key], q.write)]])

-----------------------------------------------------------------------------
(* Calls. A call is [name, args, filters, order, embeds, get]; args are    *)
(* [name -> text or typed], filters the columns that its select, its       *)
(* conditions and its order name on the result. A condition on an embed's  *)
(* name is rewritten only after these columns were checked, so filters     *)
(* keeps it.                                                               *)

\* On a GET the keys are arguments or filters, by the parameters of the name; a
\* name nobody declares keeps them all as arguments.
SplitGet(reg, c) ==
    LET known == \E k \in DOMAIN reg : reg[k].name = c.name
        params == ParamNameSet(reg, c.name)
    IN  IF ~c.get \/ ~known THEN c
        ELSE [c EXCEPT !.args = [n \in DOMAIN c.args \cap params |-> c.args[n]],
                       !.filters = @ \cup (DOMAIN c.args \ params)]

TypeOfParam(f, n) == LET k == CHOOSE k \in DOMAIN f.params : f.params[k].name = n IN f.params[k].type
CoerceCallArgs(f, c) ==
    IF c.get /\ \E n \in DOMAIN c.args : Coerce(TypeOfParam(f, n), c.args[n]) # "" THEN "22P02" ELSE ""

\* Only a table return with declared columns is checked.
ValidateCallFilters(f, c) ==
    IF f.returns.kind # "table" \/ f.returns.cols = {} \/ c.filters \subseteq f.returns.cols
    THEN "" ELSE "42703"

ReturnRelation(m, f, path) ==
    IF f.returns.kind \in {"setof", "scalar"} /\ f.returns.type # "" THEN Lookup(m, f.returns.type, path) ELSE <<>>

CheckCallEmbeds(m, c, rel, sub) ==
    CASE c.embeds = <<>> -> ""
      [] c.embeds # <<>> /\ rel = <<>> -> "PGRST200"
      [] OTHER -> OrElse(sub.err, ValidateRelatedOrder(m, c, [k \in DOMAIN sub.embeds |-> sub.embeds[k].edge]))
ResolveCallEmbeds(m, f, c, path) ==
    LET rel == ReturnRelation(m, f, path)
    IN  CheckCallEmbeds(m, c, rel, ResolveEmbeds(m, rel, c, path, FALSE))

CheckCall(m, f, c, path) ==
    IF c.get /\ f.volatile THEN "25006"
    ELSE OrElse(FirstError(<<CoerceCallArgs(f, c), ValidateCallFilters(f, c)>>), ResolveCallEmbeds(m, f, c, path))
CallResult(found, c, err, hint) ==
    IF err # "" THEN [err |-> err, hint |-> hint]
    ELSE [err |-> "", fn |-> found.fn, call |-> c, readOnly |-> ~found.fn.volatile]
CallOn(m, reg, c, found, path) ==
    CallResult(found, c, IF found.ok THEN CheckCall(m, found.fn, c, path) ELSE found.err,
               NearestSignature(reg, c.name, DOMAIN c.args))
CallWith(m, reg, c, path) == CallOn(m, reg, c, Resolve(reg, c.name, DOMAIN c.args), path)
Call(m, reg, c, path) == CallWith(m, reg, SplitGet(reg, c), path)
=============================================================================
