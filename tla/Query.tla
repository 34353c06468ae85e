-------------------------------- MODULE Query -------------------------------
(***************************************************************************)
(* The query-string parser (ir/parse.go): filters and their logical trees, *)
(* select lists with aggregates and embedded resources, order lists, the   *)
(* routing of parameters to embeds, request bodies, and the arguments of a *)
(* call. Every parser returns Ok(tree) or Fail, the PGRST100 of the code.  *)
(***************************************************************************)
EXTENDS Scan

AllOk(rs) == \A k \in DOMAIN rs : rs[k].ok
Values(rs) == [k \in DOMAIN rs |-> rs[k].v]
\* The first failure ends a parser.
IfOk(r, Go(_)) == IF r.ok THEN Go(r.v) ELSE Fail
MapOk(r, F(_)) == IF r.ok THEN Ok(F(r.v)) ELSE Fail
Collect(rs) == IF AllOk(rs) THEN Ok(Values(rs)) ELSE Fail
HasPrefix(s, p) == Len(s) >= Len(p) /\ SubSeq(s, 1, Len(p)) = p
Rest(s, n) == SubSeq(s, n + 1, Len(s))
IndexOf(s, sym) == LET at == {i \in 1..Len(s) : s[i] = sym} IN IF at = {} THEN 0 ELSE Min(at)
LastIndexOf(s, sym) == LET at == {i \in 1..Len(s) : s[i] = sym} IN IF at = {} THEN 0 ELSE Max(at)
Negates(s) == HasPrefix(s, <<"not", ".">>)
Positive(s) == IF Negates(s) THEN Rest(s, 2) ELSE s

-----------------------------------------------------------------------------
(* Filters.                                                                *)

Operators == {"eq", "neq", "gt", "like", "in", "is", "cs"}
FtsOperators == {"fts", "wfts"}
Quantifiable == {"eq", "gt", "like"}
IsOperands == {<<"null">>, <<"true">>, <<"false">>, <<"unknown">>, <<"not_null">>}

\* * is the wildcard of a URL, % the one of LIKE.
Wildcards(s) == [k \in DOMAIN s |-> IF s[k] = "*" THEN "%" ELSE s[k]]

Compare(p, neg, op, quant, val) ==
    [t |-> "cmp", path |-> p.path, last |-> p.last, neg |-> neg, op |-> op,
     quant |-> quant, val |-> val]

\* args is <<>> or <<the operator's argument>>.
CompareWith(p, neg, op, args, operand) ==
    CASE op \in FtsOperators -> Ok(Compare(p, neg, op, IF args = <<>> THEN <<>> ELSE args[1], <<operand>>))
      [] op \in Operators /\ args # <<>> ->
           IF args[1] \notin {<<"any">>, <<"all">>} \/ op \notin Quantifiable THEN Fail
           ELSE MapOk(ParseBraceList(operand), LAMBDA vs :
                  Compare(p, neg, op, args[1], IF op = "like" THEN [k \in DOMAIN vs |-> Wildcards(vs[k])] ELSE vs))
      [] op = "in" /\ args = <<>> -> MapOk(ParseInList(operand), LAMBDA vs : Compare(p, neg, op, <<>>, vs))
      [] op = "is" /\ args = <<>> ->
           IF operand \in IsOperands THEN Ok(Compare(p, neg, op, <<>>, <<operand>>)) ELSE Fail
      [] op \in Operators \ {"in", "is"} /\ args = <<>> ->
           Ok(Compare(p, neg, op, <<>>, <<IF op = "like" THEN Wildcards(operand) ELSE operand>>))
      [] OTHER -> Fail
OpNamed(s) == IF Len(s) = 1 THEN s[1] ELSE ""
CompareToken(p, neg, tok, paren, operand) ==
    CASE paren = 0 -> CompareWith(p, neg, OpNamed(tok), <<>>, operand)
      [] paren > 0 /\ tok[Len(tok)] # ")" -> Fail
      [] OTHER -> CompareWith(p, neg, OpNamed(SubSeq(tok, 1, paren - 1)),
                              <<SubSeq(tok, paren + 1, Len(tok) - 1)>>, operand)

\* operator[(argument)].operand, after an optional "not.".
ParseCompare(p, raw) ==
    LET dot == IndexOf(Positive(raw), ".")
        tok == SubSeq(Positive(raw), 1, dot - 1)
    IN  IF dot = 0 THEN Fail
        ELSE CompareToken(p, Negates(raw), tok, IndexOf(tok, "("), Rest(Positive(raw), dot))

Node(op, kids) == [t |-> op, kids |-> kids]
NotNode(kid) == [t |-> "not", kids |-> <<kid>>]
NotIf(neg, c) == IF neg THEN NotNode(c) ELSE c

LogicalParts(inner) == SplitTopLevel(inner, ",")

\* op=(a.eq.1,not.or(...)): op is the key's, raw its value.
RECURSIVE ParseLogical(_, _)
LogicalPart(p) ==
    IF HasPrefix(Positive(p), <<"and", "(">>) \/ HasPrefix(Positive(p), <<"or", "(">>)
    THEN MapOk(ParseLogical(Positive(p)[1], Rest(Positive(p), 1)), LAMBDA c : NotIf(Negates(p), c))
    ELSE IfOk(CutIdentAware(p, "."), LAMBDA cut :
           IfOk(ParsePath(cut.before), LAMBDA path : ParseCompare(path, cut.after)))
LogicalKids(parts) == Collect([k \in DOMAIN parts |-> LogicalPart(parts[k])])
ParseLogical(op, raw0) ==
    LET raw == Positive(raw0)
    IN  IF Len(raw) < 2 \/ raw[1] # "(" \/ raw[Len(raw)] # ")" THEN Fail
        ELSE MapOk(LogicalKids(LogicalParts(Inner(raw))), LAMBDA kids : NotIf(Negates(raw0), Node(op, kids)))

Reserved == {"select", "order", "limit", "offset", "and", "or", "on_conflict", "columns"}

FilterOf(kv) ==
    CASE kv.key \in {<<"and">>, <<"or">>} -> ParseLogical(kv.key[1], kv.val)
      [] kv.key \in {<<"not", ".", "and">>, <<"not", ".", "or">>} ->
           MapOk(ParseLogical(kv.key[3], kv.val), NotNode)
      [] OTHER -> IfOk(ParsePath(kv.key), LAMBDA path : ParseCompare(path, kv.val))

\* params is a sequence of [key, val] in key order. The conditions are joined by
\* AND; a single one stands alone, none at all is no condition.
ParseFilters(params) ==
    LET filters == SelectSeq(params, LAMBDA kv :
                     kv.key \in {<<"and">>, <<"or">>} \/ kv.key \notin {<<r>> : r \in Reserved})
    IN  MapOk(Collect([k \in DOMAIN filters |-> FilterOf(filters[k])]), LAMBDA cs :
          IF Len(cs) = 1 THEN cs[1] ELSE Node("and", cs))

-----------------------------------------------------------------------------
(* Select lists.                                                           *)

Aggregates == {"count", "sum", "max"}
TypeNames == {"int", "text"}

\* validCastType: anything a type's spelling may hold, brackets and all.
ValidCast(s) == s # <<>> /\ s[1] \in TypeNames
                /\ \A k \in DOMAIN s : s[k] \notin {":", "*", "!", Quote}
LastCast(s) == LET at == {i \in 1..Len(s)-1 : s[i] = ":" /\ s[i+1] = ":"}
               IN  IF at = {} THEN 0 ELSE Max(at)

\* alias:path::cast
ParseColumnItem(raw0) ==
    LET c == LastCast(raw0)
        cast == IF c = 0 THEN <<>> ELSE Rest(raw0, c + 1)
        raw == IF c = 0 THEN raw0 ELSE SubSeq(raw0, 1, c - 1)
        cut == CutIdentAware(raw, ":")
        path == ParsePath(IF cut.ok THEN cut.v.after ELSE raw)
    IN  IF (c # 0 /\ ~ValidCast(cast)) \/ ~path.ok THEN Fail
        ELSE Ok([t |-> "col", alias |-> IF cut.ok THEN UnquoteIdent(cut.v.before) ELSE <<>>,
                 path |-> path.v.path, last |-> path.v.last, cast |-> cast])

NotAggregate == [ok |-> TRUE, v |-> [t |-> "none"]]
\* [alias:][path.]func()[::cast], recognised by its first empty parentheses.
ParseAggregate(raw) ==
    LET at == {i \in 1..Len(raw)-1 : raw[i] = "(" /\ raw[i+1] = ")"}
        p == Min(at)
        tail == Rest(raw, p + 1)
        cast == Rest(tail, 2)
        cut == CutAliasAware(SubSeq(raw, 1, p - 1))
        head == IF cut.ok THEN cut.v.after ELSE SubSeq(raw, 1, p - 1)
        dot == LastIndexOf(head, ".")
        fn == Rest(head, dot)
        arg == ParseColumnItem(SubSeq(head, 1, dot - 1))
        Agg(col) == Ok([t |-> "agg", func |-> fn[1], arg |-> col,
                        alias |-> IF cut.ok THEN UnquoteIdent(cut.v.before) ELSE <<>>,
                        cast |-> IF tail = <<>> THEN <<>> ELSE cast])
    IN  IF at = {} \/ (tail # <<>> /\ ~HasPrefix(tail, <<":", ":">>)) THEN NotAggregate
        ELSE IF tail # <<>> /\ ~ValidCast(cast) THEN Fail
        ELSE IF Len(fn) # 1 \/ fn[1] \notin Aggregates THEN NotAggregate
        ELSE IF dot = 0 THEN IF fn[1] = "count" THEN Agg(<<>>) ELSE Fail
        ELSE IF arg.ok THEN Agg(<<arg.v>>) ELSE Fail

\* alias:...rel!hint!inner(items); nothing between the parentheses joins without
\* output.
EmbedHead(head0) ==
    LET c == IndexOf(head0, ":")
        head == Rest(head0, c)
        segs == SplitPlain(head, "!")
        mods == {k \in 2..Len(segs) : segs[k] \in {<<"inner">>, <<"left">>}}
        hints == 2..Len(segs) \ mods
        spread == HasPrefix(segs[1], <<"...">>)
    IN  IF Cardinality(hints) > 1 THEN Fail
        ELSE Ok([alias |-> SubSeq(head0, 1, c - 1),
                 target |-> IF spread THEN Rest(segs[1], 1) ELSE segs[1],
                 spread |-> spread,
                 hint |-> IF hints = {} THEN <<>> ELSE segs[CHOOSE k \in hints : TRUE],
                 inner |-> mods # {} /\ segs[Max(mods)] = <<"inner">>])

RECURSIVE ParseSelect(_, _)
SelectEmbed(raw, lparen) ==
    LET inner == SubSeq(raw, lparen + 1, Len(raw) - 1)
    IN  IF raw[Len(raw)] # ")" THEN Fail
        ELSE IfOk(EmbedHead(SubSeq(raw, 1, lparen - 1)), LAMBDA head :
               MapOk(IF inner = <<>> THEN Ok(<<>>) ELSE ParseSelect(inner, TRUE), LAMBDA items :
                 [t |-> "embed", head |-> head, items |-> items, empty |-> inner = <<>>]))
SelectItem(raw, nested) ==
    LET lparen == IndexOf(raw, "(")
    IN  CASE raw = <<>> -> Fail
          [] nested /\ raw = <<"count">> ->
               Ok([t |-> "agg", func |-> "count", arg |-> <<>>, alias |-> <<>>, cast |-> <<"legacy">>])
          [] raw # <<>> /\ ~(nested /\ raw = <<"count">>) /\ lparen = 0 -> ParseColumnItem(raw)
          [] OTHER -> IfOk(ParseAggregate(raw), LAMBDA agg :
                        IF agg.t = "agg" THEN Ok(agg) ELSE SelectEmbed(raw, lparen))
ParseSelect(s, nested) ==
    LET parts == SplitTopLevel(s, ",")
    IN  IF s = <<"*">> THEN Ok(<<>>)
        ELSE Collect([k \in DOMAIN parts |-> SelectItem(parts[k], nested)])

-----------------------------------------------------------------------------
(* Order lists: path[.asc|.desc][.nullsfirst|.nullslast].                  *)

Directions == {<<"asc">>, <<"desc">>}
NullsModifiers == {<<"nullsfirst">>, <<"nullslast">>}

OrderMods(mods) ==
    /\ \A k \in DOMAIN mods : mods[k] \in Directions \cup NullsModifiers
    /\ \A k \in DOMAIN mods : mods[k] \in Directions => k = 1
    /\ \A k \in DOMAIN mods : mods[k] \in NullsModifiers =>
         \A j \in DOMAIN mods : mods[j] \in NullsModifiers => j = k

OrderTerm(colPart, mods) ==
    LET open == IndexOf(colPart, "(")
        related == open > 1 /\ colPart[Len(colPart)] = ")" /\ open < Len(colPart) - 1
        Said(m) == \E k \in DOMAIN mods : mods[k] = <<m>>
    IN  IF ~OrderMods(mods) THEN Fail
        ELSE MapOk(ParsePath(IF related THEN SubSeq(colPart, open + 1, Len(colPart) - 1) ELSE colPart), LAMBDA p :
               [rel |-> IF related THEN SubSeq(colPart, 1, open - 1) ELSE <<>>, path |-> p.path, last |-> p.last,
                desc |-> Said("desc"),
                nulls |-> IF Said("nullsfirst") THEN "first"
                          ELSE IF Said("nullslast") THEN "last" ELSE "default"])
ParseOrder(s) ==
    LET Term(p) == LET cut == CutIdentAware(p, ".")
                   IN  IF cut.ok THEN OrderTerm(cut.v.before, SplitPlain(cut.v.after, ".")) ELSE OrderTerm(p, <<>>)
        parts == SplitPlain(s, ",")
    IN  Collect([k \in DOMAIN parts |-> Term(parts[k])])

-----------------------------------------------------------------------------
(* Routing: a key rel.rest belongs to the embed that answers as rel.       *)

OutKey(e) == IF e.head.alias # <<>> THEN e.head.alias ELSE e.head.target
Embeds(items) == SelectSeq(items, LAMBDA i : i.t = "embed")
FindEmbed(items, name) ==
    LET es == Embeds(items)  at == {k \in DOMAIN es : OutKey(es[k]) = name}
    IN  IF at = {} THEN 0 ELSE Min(at)

\* Faulty variant: only the outermost level is cut off.
RouteShallow(items, key) ==
    LET cut == CutIdentAware(key, ".")
    IN  IF cut.ok /\ FindEmbed(items, cut.v.before) # 0
        THEN [level |-> <<FindEmbed(items, cut.v.before)>>, key |-> cut.v.after]
        ELSE [level |-> <<>>, key |-> key]

\* The level, a path of embed numbers, at which key applies, and what is left
\* of it there.
RECURSIVE RouteParam(_, _)
Below(e, deeper) == [level |-> <<e>> \o deeper.level, key |-> deeper.key]
RouteParam(items, key) ==
    LET cut == CutIdentAware(key, ".")
        e == IF cut.ok THEN FindEmbed(items, cut.v.before) ELSE 0
    IN  IF e = 0 THEN [level |-> <<>>, key |-> key]
        ELSE Below(e, RouteParam(Embeds(items)[e].items, cut.v.after))

\* The parameters given at one level, a sequence of [key, val].
AtLevel(items, params, level) ==
    LET mine == SelectSeq(params, LAMBDA kv : RouteParam(items, kv.key).level = level)
    IN  [k \in DOMAIN mine |-> [key |-> RouteParam(items, mine[k].key).key, val |-> mine[k].val]]
Get(params, key) ==
    LET at == {k \in DOMAIN params : params[k].key = <<key>>}
    IN  IF at = {} THEN <<>> ELSE params[Min(at)].val

\* applyParams at one level: order, window and filters. A negative limit is
\* refused like a negative offset, with a status of its own.
Numerals == {<<"0">>, <<"1">>}
ApplyParams(params) ==
    IF \E w \in {"limit", "offset"} : Get(params, w) \notin Numerals \cup {<<>>} THEN Fail
    ELSE IfOk(IF Get(params, "order") = <<>> THEN Ok(<<>>) ELSE ParseOrder(Get(params, "order")), LAMBDA order :
           MapOk(ParseFilters(params), LAMBDA where :
             [order |-> order, where |-> where, limit |-> Get(params, "limit"), offset |-> Get(params, "offset")]))

\* A read: its select list, and what every level of it was given.
ReadLevels(items, params) ==
    LET levels == {RouteParam(items, params[k].key).level : k \in DOMAIN params} \cup {<<>>}
    IN  MapOk(Collect([l \in levels |-> ApplyParams(AtLevel(items, params, l))]), LAMBDA given :
          [items |-> items, levels |-> given])
ParseRead(params) ==
    LET sel == {k \in DOMAIN params : params[k].key = <<"select">>}
    IN  IfOk(CASE sel = {} -> Ok(<<>>)
               [] sel # {} /\ Get(params, "select") = <<>> -> Fail
               [] OTHER -> ParseSelect(Get(params, "select"), FALSE), LAMBDA items : ReadLevels(items, params))

-----------------------------------------------------------------------------
(* Bodies of writes. An object is a function from column names to values.  *)

Keys(o) == DOMAIN o

\* checkUniformKeys: every object has the first one's keys.
CheckUniformKeys(objs) == \A k \in DOMAIN objs : Keys(objs[k]) = Keys(objs[1])

\* buildInsert: columns= wins, then the CSV header, then the first row's keys.
InsertColumns(objs, columns, header) ==
    IF columns # {} THEN columns
    ELSE IF header # {} THEN header
    ELSE IF objs = <<>> THEN {} ELSE Keys(objs[1])

\* decodeBodyObjects for each content type: one object or a list of objects for
\* JSON, the header and its rows for CSV, the first value of each field for a
\* form.
DecodeObjects(body) ==
    CASE body.type = "json" /\ body.shape = "object" -> Ok(<<body.objs[1]>>)
      [] body.type = "json" /\ body.shape = "array" -> Ok(body.objs)
      [] body.type = "csv" /\ body.shape = "array" -> Ok(body.objs)
      [] body.type = "form" /\ body.shape = "object" -> Ok(<<body.objs[1]>>)
      [] OTHER -> Fail
\* decodeBodyObject: an update takes one object, one CSV row, or an array of
\* empty objects that changes nothing.
DecodeUpdate(body) ==
    CASE body.type \in {"json", "form"} /\ body.shape = "object" -> Ok(body.objs[1])
      [] body.type = "json" /\ body.shape = "array" ->
           IF \A k \in DOMAIN body.objs : Keys(body.objs[k]) = {} THEN Ok(<<>>) ELSE Fail
      [] body.type = "csv" /\ body.shape = "array" /\ Len(body.objs) = 1 -> Ok(body.objs[1])
      [] OTHER -> Fail

\* ParseWrite: PUT and a POST with a resolution are upserts; on_conflict alone
\* is not, and neither counts for PATCH and DELETE.
WriteKind(method, resolution) ==
    CASE method = "PUT" \/ (method = "POST" /\ resolution) -> "upsert"
      [] method = "POST" /\ ~resolution -> "insert"
      [] method = "PATCH" -> "update"
      [] method = "DELETE" -> "delete"
ParseWrite(method, resolution, columns, body) ==
    LET kind == WriteKind(method, resolution)
        objs == DecodeObjects(body)
        set == DecodeUpdate(body)
        header == IF body.type = "csv" /\ body.objs # <<>> THEN Keys(body.objs[1]) ELSE {}
    IN  CASE kind \in {"insert", "upsert"} ->
               IF ~objs.ok \/ (columns = {} /\ body.type = "json" /\ ~CheckUniformKeys(objs.v))
               THEN Fail
               ELSE Ok([kind |-> kind, rows |-> objs.v,
                        columns |-> InsertColumns(objs.v, columns, header)])
          [] kind = "update" ->
               IF set.ok THEN Ok([kind |-> kind, rows |-> <<set.v>>, columns |-> Keys(set.v)])
               ELSE Fail
          [] kind = "delete" -> Ok([kind |-> kind, rows |-> <<>>, columns |-> {}])

-----------------------------------------------------------------------------
(* Calls. On GET every key that is not reserved may be an argument; once   *)
(* the function is known the others become filters.                        *)

CallReserved == {"select", "order", "limit", "offset"}
CandidateArgs(keys) == keys \ CallReserved
PartitionGetArgs(keys, params, variadic) ==
    [args |-> CandidateArgs(keys) \cap params,
     lists |-> CandidateArgs(keys) \cap params \cap variadic,
     filters |-> CandidateArgs(keys) \ params]
=============================================================================
