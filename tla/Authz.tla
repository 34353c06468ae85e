-------------------------------- MODULE Authz -------------------------------
(***************************************************************************)
(* Authorization on engines without row security (authz/authz.go): a       *)
(* registry of grants and policies, the gate every planned query passes,   *)
(* and the predicate syntax of the configuration (authz/parse.go).         *)
(***************************************************************************)
EXTENDS Condition

\* A grant is [role, rel, action, cols], cols = {} for all columns. The grants
\* for one role, relation and action are merged: any of them for all columns is
\* one for all columns.
Granted(grants, role, rel, action) ==
    {g \in grants : g.role = role /\ g.rel = rel /\ g.action = action}
AllColumns(gs) == \E g \in gs : g.cols = {}
GrantedColumns(gs) == UNION {g.cols : g \in gs}

\* Policies that share a role and a relation are joined by AND. A policy is
\* [role, rel, using, check], each a sequence of terms [col, op, claim, lit]; claim
\* is a path, <<>> for a literal. part is "using" or "check".
AppliesTo(p, role, rel) == p.role = role /\ p.rel = rel
PolicyTerms(policies, role, rel, part) ==
    LET upTo[n \in 0..Len(policies)] ==
          IF n = 0 THEN <<>>
          ELSE IF AppliesTo(policies[n], role, rel) THEN upTo[n - 1] \o policies[n][part]
          ELSE upTo[n - 1]
    IN  upTo[Len(policies)]

ActionsFor(kind) ==
    CASE kind = "read" -> {"select"} [] kind = "insert" -> {"insert"}
      [] kind = "update" -> {"update"} [] kind = "delete" -> {"delete"}
      [] kind = "upsert" -> {"insert", "update"}
WriteColumnActions(kind) == ActionsFor(kind) \cap {"insert", "update"}

\* The text of a null is the empty text.
Blank == -2
Text(v) == IF v = Null THEN Blank ELSE v

\* A claim the token does not carry resolves to nothing, a null one to no text.
ResolveRHS(t, claims) ==
    IF t.claim = <<>> THEN <<t.lit>>
    ELSE IF t.claim \in DOMAIN claims THEN <<Text(claims[t.claim])>> ELSE <<>>

\* A missing claim becomes an empty IN, which no row satisfies.
UsingConds(terms, claims) ==
    [k \in DOMAIN terms |->
       LET rhs == ResolveRHS(terms[k], claims)
       IN  IF rhs = <<>> THEN Compare(terms[k].col, "in", FALSE, <<>>)
           ELSE Compare(terms[k].col, terms[k].op, FALSE, rhs)]

\* Faulty variant: the policy beside the client's own conditions, inside its tree.
InjectBeside(where, conds) ==
    IF conds = <<>> THEN where
    ELSE IF where # <<>> /\ where[1].t \in {"and", "or"}
         THEN <<[where[1] EXCEPT !.kids = @ \o conds]>>
         ELSE <<And(where \o conds)>>

\* where is <<>> or <<the client's condition>>.
InjectWhere(where, conds) == IF conds = <<>> THEN where ELSE <<And(where \o conds)>>

EvalPredicate(terms, claims, row, skipAbsent) ==
    \A k \in DOMAIN terms :
      LET t == terms[k]  rhs == ResolveRHS(t, claims)
      IN  IF t.col \notin DOMAIN row THEN skipAbsent
          ELSE rhs # <<>> /\ (t.op = "eq") = (Text(row[t.col]) = rhs[1])

\* A select list, empty for all columns, holds items [item, name]: "column" (its
\* base column, "*" for all), "aggregate" or "embed". Only columns are looked at.
GateSelect(gs, select) ==
    \/ AllColumns(gs)
    \/ /\ gs # {} /\ select # <<>>
       /\ \A k \in DOMAIN select : select[k].item = "column" =>
            select[k].name # "*" /\ select[k].name \in GrantedColumns(gs)
GateWriteColumns(gs, write) ==
    \/ AllColumns(gs)
    \/ gs # {} /\ write.columns \cup DOMAIN write.set \subseteq GrantedColumns(gs)

Denied == [ok |-> FALSE, err |-> "42501"]
Violation == [ok |-> FALSE, err |-> "42501 row"]

\* reg is [grants, policies], rc [role, claims], q a query [kind, rel, select,
\* where, embeds, write] with write [return, columns, rows, set]. Everything asked
\* here is about q.rel: the relations of q.embeds, a sequence of [rel, select,
\* where], have no grant looked up and no policy added.
Authorize(reg, rc, q) ==
    LET G(action) == Granted(reg.grants, rc.role, q.rel, action)
        projects == q.kind = "read" \/ q.write.return = "representation"
        using == PolicyTerms(reg.policies, rc.role, q.rel, "using")
        check == PolicyTerms(reg.policies, rc.role, q.rel, "check")
        where == IF q.kind = "insert" THEN q.where
                 ELSE InjectWhere(q.where, UsingConds(using, rc.claims))
        checked == CASE q.kind \in {"insert", "upsert"} ->
                          \A k \in DOMAIN q.write.rows :
                            EvalPredicate(check, rc.claims, q.write.rows[k], FALSE)
                     [] q.kind = "update" -> EvalPredicate(check, rc.claims, q.write.set, TRUE)
                     [] OTHER -> TRUE
    IN  IF \/ \E a \in ActionsFor(q.kind) : G(a) = {}
           \/ projects /\ ~GateSelect(G("select"), q.select)
           \/ \E a \in WriteColumnActions(q.kind) : ~GateWriteColumns(G(a), q.write)
        THEN Denied
        ELSE IF ~checked THEN Violation
        ELSE [ok |-> TRUE, query |-> [q EXCEPT !.where = where]]

-----------------------------------------------------------------------------
(* Predicates in the configuration: column = rhs and column != rhs joined  *)
(* with "and". A text is a sequence of symbols: words, digits, spaces,     *)
(* quotes and the operators; claims is a claim reference's prefix.         *)

Apostrophe == "'"
Words == {"and", "a", "b", "band", "true"}
Digits == {"1"}
IdentParts == Words \cup Digits

\* Inside(s, i): the quotes before position i do not pair up.
Inside(s, i) == Cardinality({j \in 1..i : s[j] = Apostrophe}) % 2 = 1
HasWordAt(s, i) ==
    /\ s[i] = "and"
    /\ i = 1 \/ s[i-1] = " "
    /\ i = Len(s) \/ s[i+1] = " "
SplitAnd(s) == {i \in 1..Len(s) : HasWordAt(s, i) /\ ~Inside(s, i)}

TrimSpace(s) ==
    LET ink == {i \in 1..Len(s) : s[i] # " "}
    IN  IF ink = {} THEN <<>> ELSE SubSeq(s, CHOOSE i \in ink : \A j \in ink : i <= j,
                                            CHOOSE i \in ink : \A j \in ink : i >= j)

Refused == [ok |-> FALSE]
FirstAt(s, sym) == LET at == {i \in 1..Len(s) : s[i] = sym}
                   IN  IF at = {} THEN 0 ELSE CHOOSE i \in at : \A j \in at : i <= j
IsIdent(s) == s # <<>> /\ \A k \in DOMAIN s : s[k] \in IdentParts

\* != before =, wherever it stands.
ParseTerm(src) ==
    LET s == TrimSpace(src)
        neq == FirstAt(s, "!=") # 0
        i == FirstAt(s, IF neq THEN "!=" ELSE "=")
        col == TrimSpace(SubSeq(s, 1, i - 1))
        val == TrimSpace(SubSeq(s, i + 1, Len(s)))
        Term(claim, lit) == [ok |-> TRUE, v |-> [col |-> col, op |-> IF neq THEN "neq" ELSE "eq",
                                                 claim |-> claim, lit |-> lit]]
    IN  CASE i = 0 \/ val = <<>> -> Refused
          [] i # 0 /\ ~IsIdent(col) -> Refused
          [] OTHER ->
               CASE val[1] = "claims." -> IF Len(val) = 1 THEN Refused ELSE Term(Tail(val), <<>>)
                 [] val[1] = Apostrophe ->
                      IF Len(val) < 2 \/ val[Len(val)] # Apostrophe THEN Refused
                      ELSE Term(<<>>, SubSeq(val, 2, Len(val) - 1))
                 [] val = <<"true">> \/ \A k \in DOMAIN val : val[k] \in Digits -> Term(<<>>, val)
                 [] OTHER -> Refused

ParsePredicate(src) ==
    LET cuts == SplitAnd(src)
        at == <<0>> \o SelectSeq([i \in 1..Len(src) |-> i], LAMBDA i : i \in cuts) \o <<Len(src) + 1>>
        terms == [k \in 1..Len(at) - 1 |-> ParseTerm(SubSeq(src, at[k] + 1, at[k+1] - 1))]
    IN  IF TrimSpace(src) = <<>> THEN [ok |-> TRUE, v |-> <<>>]
        ELSE IF \E k \in DOMAIN terms : ~terms[k].ok THEN Refused
        ELSE [ok |-> TRUE, v |-> [k \in DOMAIN terms |-> terms[k].v]]

ValidActions == {"select", "insert", "update", "delete"}

\* The configuration's document: grants [role, rel, actions, cols] expand to one
\* grant per action, policies [role, rel, using, check] hold predicate texts.
\* Whatever is not understood refuses the whole document.
ParseRegistry(doc) ==
    LET using == [k \in DOMAIN doc.policies |-> ParsePredicate(doc.policies[k].using)]
        check == [k \in DOMAIN doc.policies |-> ParsePredicate(doc.policies[k].check)]
    IN  IF \/ \E g \in doc.grants : g.role = "" \/ g.rel = "" \/ g.actions = {}
                                    \/ ~(g.actions \subseteq ValidActions)
           \/ \E k \in DOMAIN doc.policies :
                \/ doc.policies[k].role = "" \/ doc.policies[k].rel = ""
                \/ doc.policies[k].using = <<>> /\ doc.policies[k].check = <<>>
                \/ ~using[k].ok \/ ~check[k].ok
        THEN Refused
        ELSE [ok |-> TRUE,
              grants |-> UNION {{[role |-> g.role, rel |-> g.rel, action |-> a, cols |-> g.cols] :
                                   a \in g.actions} : g \in doc.grants},
              policies |-> [k \in DOMAIN doc.policies |->
                              [role |-> doc.policies[k].role, rel |-> doc.policies[k].rel,
                               using |-> using[k].v, check |-> check[k].v]]]
=============================================================================
