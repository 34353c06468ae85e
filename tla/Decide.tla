------------------------------- MODULE Decide -------------------------------
(***************************************************************************)
(* The decisions that are made for a request once it is parsed: which      *)
(* edges join two relations and which keys a view inherits (schema/),      *)
(* which overload a call runs and which functions there are (rpc/), and    *)
(* which rows a role may read or write (authz/). Every task is one such    *)
(* question; its answer is computed by the operators of the components and *)
(* the properties say what the answer is for. Catalogs, registries,        *)
(* policies, queries and rows are constants, so that the properties can be *)
(* proved for all of them.                                                 *)
(***************************************************************************)
EXTENDS Relate, Rpc, Authz

CONSTANTS
    EdgeTasks,      \* [kind, model, from, to, path]: the edges between two relations
    ViewTasks,      \* [kind, rels, order, depth]: the keys that views inherit
    OverloadTasks,  \* [kind, reg, name, args]: the function that a call runs
    MergeTasks,     \* [kind, declared, native, names]: the functions there are
    GateTasks,      \* [kind, reg, rc, q]: a query at the authorization gate
    TableRows,      \* the rows that a gated table may hold
    Truth(_, _)    \* what a condition means on a row: a truth value

VARIABLES task, out
decideVars == <<task, out>>

IsSequence(s) == s \in Seq(ElementsOf(s))
IsRecord(r, fields) == r = [f \in DOMAIN r |-> r[f]] /\ fields \subseteq DOMAIN r

-----------------------------------------------------------------------------
(* Assumptions.                                                            *)

\* The keys of a relation; a primary key that is <<>> is none.
KeysOf(r) == ({r.pk} \cup r.unique) \ {<<>>}

\* A foreign key refers to columns that hold a key of the relation it names, as
\* the engines demand of it, and the target's name leads to the target.
ASSUME EdgeAssumption ==
    \A t \in EdgeTasks :
      /\ t.kind = "edges"
      /\ {t.from, t.to} \subseteq DOMAIN t.model.rels /\ <<>> \notin DOMAIN t.model.rels
      /\ Lookup(t.model, t.to[2], t.path) = t.to
      /\ \A p \in DOMAIN t.model.rels : \A fk \in t.model.rels[p].fks :
           fk.ref \in DOMAIN t.model.rels =>
             \E u \in KeysOf(t.model.rels[fk.ref]) : ElementsOf(u) \subseteq ElementsOf(fk.refCols)

Bases(rels, v) == {v.viewCols[k].base : k \in DOMAIN v.viewCols} \cap DOMAIN rels

\* A view selects from relations that were there before it, so no view selects
\* from itself; depth counts the views below it.
ASSUME ViewAssumption ==
    \A t \in ViewTasks :
      /\ t.kind = "views"
      /\ t.rels = [key \in DOMAIN t.rels |-> t.rels[key]]
      /\ \A key \in DOMAIN t.rels :
           /\ IsRecord(t.rels[key], {"kind", "fks", "viewCols"})
           /\ \A fk \in t.rels[key].fks : IsRecord(fk, {"name", "cols", "source"})
      /\ t.order \in Seq(DOMAIN t.rels) /\ DOMAIN t.rels = ElementsOf(t.order)
      /\ t.depth \in [DOMAIN t.rels -> 0..Len(t.order)]
      /\ \A key \in DOMAIN t.rels : t.rels[key].kind = "view" =>
           \A base \in Bases(t.rels, t.rels[key]) : t.depth[base] < t.depth[key]

\* A function names its parameters apart, and has fewer than the bonus of an exact
\* match (PostgreSQL allows 100).
IsFunction(f) ==
    /\ IsSequence(f.params) /\ Len(f.params) < ExactBonus
    /\ \A i, j \in DOMAIN f.params : f.params[i].name = f.params[j].name => i = j
ASSUME OverloadAssumption ==
    \A t \in OverloadTasks :
      /\ t.kind = "overload"
      /\ IsSequence(t.reg) /\ IsFiniteSet(t.args)
      /\ \A k \in DOMAIN t.reg : IsFunction(t.reg[k])
ASSUME MergeAssumption ==
    \A t \in MergeTasks :
      /\ t.kind = "merge"
      /\ IsSequence(t.declared) /\ IsSequence(t.native) /\ IsSequence(t.names)
      /\ \A f \in ElementsOf(t.declared) \cup ElementsOf(t.native) : f.name \in ElementsOf(t.names)

IsTerm(x) == x.op \in {"eq", "neq"} /\ x.lit # Null
IsPolicy(p) ==
    /\ IsSequence(p.using) /\ IsSequence(p.check)
    /\ \A x \in ElementsOf(p.using) \cup ElementsOf(p.check) :
         IsTerm(x) /\ \A row \in TableRows : x.col \in DOMAIN row
ASSUME GateAssumption ==
    \A t \in GateTasks :
      /\ t.kind = "gate"
      /\ IsSequence(t.reg.policies) /\ \A k \in DOMAIN t.reg.policies : IsPolicy(t.reg.policies[k])
      /\ IsRecord(t.q, {"where"}) /\ (t.q.where = <<>> \/ t.q.where = <<t.q.where[1]>>)
      /\ t.q.kind \in {"read", "insert", "update", "delete", "upsert"}

\* The policy's conditions on t, and what the gate makes of the filter.
Injected(t) == UsingConds(PolicyTerms(t.reg.policies, t.rc.role, t.q.rel, "using"), t.rc.claims)
TruthValues == {False, Unknown, True}

\* The client's conditions may mean anything; comparisons and AND are SQL's.
MeansLikeSql(where, conds, row) ==
    LET kids == where \o conds
    IN  /\ \A k \in DOMAIN conds : Truth(conds[k], row) = EvalCompare(conds[k], row[conds[k].col])
        /\ \A k \in DOMAIN where : Truth(where[k], row) \in TruthValues
        /\ Truth(And(kids), row) = Least({Truth(kids[k], row) : k \in DOMAIN kids})
ASSUME TruthAssumption ==
    \A w \in {<<t.q.where, Injected(t)>> : t \in GateTasks} : \A row \in TableRows :
      MeansLikeSql(w[1], w[2], row)

-----------------------------------------------------------------------------
Answer(kind, value) == task.kind = kind /\ out = <<>> /\ out' = <<value>> /\ UNCHANGED task

Discover == Answer("edges", Relationships(task.model, task.from, task.to))
Project == Answer("views", NewModel(task.rels, task.order, {}).rels)
Overload == Answer("overload", Resolve(task.reg, task.name, task.args))
MergeRegistries == Answer("merge", Merge(task.declared, task.native, task.names))
Gate == Answer("gate", Authorize(task.reg, task.rc, task.q))
Answered(kind) == task.kind = kind /\ out # <<>>

DecideInit ==
    /\ out = <<>>
    /\ \/ task \in EdgeTasks \/ task \in ViewTasks \/ task \in OverloadTasks
       \/ task \in MergeTasks \/ task \in GateTasks
DecideNext == Discover \/ Project \/ Overload \/ MergeRegistries \/ Gate
DecideSpec == DecideInit /\ [][DecideNext]_decideVars

-----------------------------------------------------------------------------
(* Edges and views.                                                        *)

\* An edge that renders as one object leads to at most one row, whatever rows the
\* keys of the target allow: two rows that agree on the join columns agree on a
\* whole key (Relationships, isUnique, sameColumnSet).
Promised(m, from, to) == DeclaredEdges(m, from, to) \cup ComputedRelEdges(m, from, to)
Derived(t, e) == \A d \in Promised(t.model, t.from, t.to) : d.name # e.name
Lawful(r, agree) == \A u \in KeysOf(r) : ~(ElementsOf(u) \subseteq agree)
ToOneIsSingle ==
    Answered("edges") =>
      LET r == task.model.rels[task.to]
      IN  \A e \in out[1] : e.card = "one" /\ Derived(task, e) =>
            \A agree \in SUBSET DOMAIN r.cols : Lawful(r, agree) => ~(ElementsOf(e.foreign) \subseteq agree)

\* What can be embedded one way can be embedded the other way, over the same
\* columns and the same junction (the forward, backward and junction scans of
\* Relationships).
Join(local, foreign, via, jlocal, jforeign) ==
    [local |-> local, foreign |-> foreign, via |-> via, jlocal |-> jlocal, jforeign |-> jforeign]
Joins(es) == {Join(e.local, e.foreign, e.junction, e.jlocal, e.jforeign) : e \in es}
EdgesMirror ==
    Answered("edges") /\ Promised(task.model, task.from, task.to) \cup Promised(task.model, task.to, task.from) = {} =>
      Joins(Relationships(task.model, task.to, task.from)) =
        {Join(j.foreign, j.local, j.via, j.jforeign, j.jlocal) : j \in Joins(out[1])}

\* A declared relationship stands in for the foreign key of its name, also where
\* both directions of a self-reference would be ambiguous: its name, as a hint,
\* finds it unless an edge of another name or another promise answers to that too
\* (Relationships, resolveOne).
DeclaredWins ==
    Answered("edges") =>
      \A d \in task.model.declared :
        Declares(task.model, d, task.from, task.to) /\ d.name # "" =>
          LET rivals == {e \in out[1] : d.name \in e.hints /\ e # DeclaredEdge(d)}
          IN  /\ \A e \in rivals : e.name = d.name => e \in Promised(task.model, task.from, task.to)
              /\ rivals = {} => ResolveOne(task.model, task.from, task.to[2], d.name, task.path)
                                  = Found(DeclaredEdge(d))

\* A key of a base under the view's names.
ImageOf(v, base, fk) == [fk EXCEPT !.cols = MapColumns(v, base, fk.cols), !.source = base[2]]

\* Views at any depth, in whatever order the catalog lists them, end up with the
\* keys of what they select from: each key a view gained is one of a base under
\* the view's names, none whose columns it shows is missing, and nothing else of
\* any relation changed (projectViews, projectOneView).
InheritsExactly(rels, grown, key) ==
    LET old == rels[key]  v == grown[key]
    IN  /\ v = [old EXCEPT !.fks = v.fks] /\ old.fks \subseteq v.fks
        /\ v.kind # "view" => v = old
        /\ \A fk \in v.fks \ old.fks : \E base \in Bases(rels, old) :
             \E src \in grown[base].fks : fk = ImageOf(v, base, src) /\ fk.cols # <<>>
        /\ v.kind = "view" =>
             \A base \in Bases(rels, old) : \A src \in grown[base].fks :
               MapColumns(v, base, src.cols) # <<>> => HasProjectedFK(v, src, base)
ViewsComplete ==
    Answered("views") => \A key \in DOMAIN task.rels : InheritsExactly(task.rels, out[1], key)

\* Edges between relations mean what they render: one object only where the keys
\* allow one row, the same joins in both directions, a declared edge instead of
\* the derived one of its name, and for views the keys of what they show
\* (Relationships, projectViews).
EdgesSound == ToOneIsSingle /\ EdgesMirror /\ DeclaredWins /\ ViewsComplete

-----------------------------------------------------------------------------
(* Calls.                                                                  *)

\* The functions of a registry that its arguments fit, the ones that they fit best:
\* exactly, else with the most required parameters.
Fitting(t) == {k \in DOMAIN t.reg : t.reg[k].name = t.name /\ Required(t.reg[k]) \subseteq t.args
                                    /\ t.args \subseteq ParamNames(t.reg[k])}
Exactly(t) == {k \in Fitting(t) : ParamNames(t.reg[k]) = t.args}
Pool(t) == IF Exactly(t) # {} THEN Exactly(t) ELSE Fitting(t)
BestFit(t) ==
    {k \in Pool(t) : \A j \in Pool(t) : Cardinality(Required(t.reg[j])) <= Cardinality(Required(t.reg[k]))}

\* A call runs the one overload its arguments fit best, whatever the order of
\* declaration; it is ambiguous between the best ones when there are several and
\* unknown when none fits (Resolve, satisfiable, exactMatch).
OverloadDecided ==
    Answered("overload") =>
      LET best == BestFit(task)
      IN  /\ best = {} => out[1] = NoFunction
          /\ \A k \in best : best = {k} => out[1] = Chosen(task.reg[k])
          /\ \A j, k \in best : j # k => out[1] = AmbiguousFunction({Signature(task.reg[i]) : i \in best})

\* A declared function replaces the engine's functions of the same signature; every
\* other function of either side can still be called (Merge).
DeclaredShadowsNative ==
    Answered("merge") =>
      ElementsOf(out[1]) =
        ElementsOf(task.declared)
          \cup {f \in ElementsOf(task.native) :
                  \A d \in ElementsOf(task.declared) : Signature(d) # Signature(f)}

\* A call runs the one overload its arguments fit best in whatever order the
\* functions were declared, and a declaration hides only the engine's functions of
\* its signature (Resolve, Merge).
CallsDecided == OverloadDecided /\ DeclaredShadowsNative

-----------------------------------------------------------------------------
(* The gate.                                                               *)

\* The terms that the policies of the role state about the relation.
MyTerms(t, part) ==
    UNION {ElementsOf(t.reg.policies[k][part]) :
             k \in {k \in DOMAIN t.reg.policies : AppliesTo(t.reg.policies[k], t.rc.role, t.q.rel)}}
Admits(x, claims, row) ==
    /\ x.claim # <<>> => x.claim \in DOMAIN claims
    /\ row[x.col] # Null
    /\ (x.op = "eq") = (row[x.col] = IF x.claim = <<>> THEN x.lit ELSE Text(claims[x.claim]))
Selects(where, row) == where = <<>> \/ Truth(where[1], row) = True

\* The kinds whose filter the backends compile (CompileRead, CompileUpdate,
\* CompileDelete). The filter an upsert is given is never used: CompileInsert and
\* SQL Server's MERGE have no WHERE.
Filtered == {"read", "update", "delete"}

\* The rows of the gated relation that an accepted read, update or delete selects
\* are those its own filter and every USING term of every policy of the role
\* select; a term on a claim the token lacks selects none. Nothing is said of the
\* rows an upsert merges into or of the rows of embedded relations, which the gate
\* leaves alone (injectWhere, usingConds, NewRegistry).
PolicyHolds ==
    Answered("gate") /\ out[1].ok /\ task.q.kind \in Filtered =>
      \A row \in TableRows :
        Selects(out[1].query.where, row) <=>
          Selects(task.q.where, row) /\ \A x \in MyTerms(task, "using") : Admits(x, task.rc.claims, row)

\* An accepted write leaves rows that pass WITH CHECK: an inserted row gives every
\* checked column a value, so that it passes too after an upsert merged it into
\* any row, and an updated row passes the terms on the columns it sets and the
\* terms its old value already passed (evalPredicate).
After(row, set) == [c \in DOMAIN row |-> IF c \in DOMAIN set THEN set[c] ELSE row[c]]
Passes(x, claims, row) == row[x.col] # Null => Admits(x, claims, row)
WritesPassCheck ==
    Answered("gate") /\ out[1].ok =>
      LET q == task.q  check == MyTerms(task, "check")
      IN  /\ q.kind \in {"insert", "upsert"} =>
               \A k \in DOMAIN q.write.rows : \A x \in check :
                 /\ x.col \in DOMAIN q.write.rows[k] /\ Passes(x, task.rc.claims, q.write.rows[k])
                 /\ \A row \in TableRows : Passes(x, task.rc.claims, After(row, q.write.rows[k]))
          /\ q.kind = "update" =>
               \A row \in TableRows : Selects(out[1].query.where, row) =>
                 \A x \in check : x.col \in DOMAIN q.write.set \/ x \in MyTerms(task, "using") =>
                   Passes(x, task.rc.claims, After(row, q.write.set))

\* An accepted request writes granted columns only, and the plain columns it reads
\* or gets back are granted, all of them where it names none or a star. Aggregates
\* and embeds are not looked at (gateSelect, gateWriteColumns).
GrantsFor(t, action) == Granted(t.reg.grants, t.rc.role, t.q.rel, action)
Covered(t, action, cols) ==
    GrantsFor(t, action) # {} /\ \A c \in cols : \E g \in GrantsFor(t, action) : g.cols = {} \/ c \in g.cols
Named(select) == {select[k].name : k \in {k \in DOMAIN select : select[k].item = "column"}}
ColumnsGranted ==
    Answered("gate") /\ out[1].ok =>
      LET q == task.q
      IN  /\ \A a \in WriteColumnActions(q.kind) : Covered(task, a, q.write.columns \cup DOMAIN q.write.set)
          /\ q.kind = "read" \/ q.write.return = "representation" =>
               IF q.select = <<>> \/ "*" \in Named(q.select)
               THEN \E g \in GrantsFor(task, "select") : g.cols = {}
               ELSE Covered(task, "select", Named(q.select))

\* What the gate promises of the relation a request names: an accepted read, update
\* or delete reaches only rows that its filter and every policy of the role select,
\* an accepted write leaves only rows that pass WITH CHECK, and only granted columns
\* are named (Authorize, injectWhere, evalPredicate, gateSelect).
PoliciesEnforced == PolicyHolds /\ WritesPassCheck /\ ColumnsGranted
=============================================================================
