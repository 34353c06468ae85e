------------------------------- MODULE Relate -------------------------------
(***************************************************************************)
(* Relationship discovery (schema/relationship.go, schema/views.go): which *)
(* relations may be embedded in which, over which columns and with which   *)
(* cardinality. A model is [rels, order, declared]: rels maps a key        *)
(* <<schema, name>> to a relation [kind, cols, pk, unique, fks, viewCols,  *)
(* computedRels, computed], order is the catalog's order of the keys.      *)
(***************************************************************************)
EXTENDS Integers, Sequences, FiniteSets

ElementsOf(s) == {s[k] : k \in DOMAIN s}
LowestIn(S) == CHOOSE x \in S : \A y \in S : x <= y

\* The first schema of the path that has the name; <<>> when none has.
Lookup(m, name, path) ==
    LET at == {k \in DOMAIN path : <<path[k], name>> \in DOMAIN m.rels}
    IN  IF at = {} THEN <<>> ELSE <<path[LowestIn(at)], name>>

-----------------------------------------------------------------------------
(* Views inherit the foreign keys whose columns they select unchanged.     *)

\* The first view column that shows a column of base; <<>> when none does.
Exposed(v, base, col) ==
    LET at == {k \in DOMAIN v.viewCols : v.viewCols[k].base = base /\ v.viewCols[k].col = col}
    IN  IF at = {} THEN <<>> ELSE <<v.viewCols[LowestIn(at)].name>>
MapColumns(v, base, cols) ==
    IF \E k \in DOMAIN cols : Exposed(v, base, cols[k]) = <<>> THEN <<>>
    ELSE [k \in DOMAIN cols |-> Exposed(v, base, cols[k])[1]]

HasProjectedFK(v, fk, base) == \E own \in v.fks : own.name = fk.name /\ own.source = base[2]

\* Of the keys of one name that bases of one name offer, the view takes the first
\* it meets, which the order of a map decides when the bases are two.
OnePerName(keys) == {CHOOSE k \in keys : k.name = fk.name /\ k.source = fk.source : fk \in keys}

\* A foreign key is [name, cols, ref, refCols, source]; source is the relation
\* it was inherited from, "" for a key of the relation itself.
ProjectOneView(rels, key) ==
    LET v == rels[key]
        bases == {v.viewCols[k].base : k \in DOMAIN v.viewCols} \cap DOMAIN rels
        Inherited(base) ==
          {[fk EXCEPT !.cols = MapColumns(v, base, fk.cols), !.source = base[2]] :
             fk \in {fk \in rels[base].fks : /\ MapColumns(v, base, fk.cols) # <<>>
                                             /\ ~HasProjectedFK(v, fk, base)}}
    IN  IF v.kind # "view" THEN rels
        ELSE [rels EXCEPT ![key].fks = @ \cup OnePerName(UNION {Inherited(base) : base \in bases})]

\* One pass over the catalog: a view sees what earlier ones of the pass inherited.
ProjectInOrder(rels, order) ==
    LET at[n \in 0..Len(order)] ==
          IF n = 0 THEN rels ELSE ProjectOneView(at[n - 1], order[n])
    IN  at[Len(order)]

\* As many passes as there are relations. The code stops at the first pass that
\* changes nothing, after which the others would change nothing either.
ProjectViews(rels, order) ==
    LET pass[n \in 0..Len(order)] ==
          IF n = 0 THEN rels ELSE ProjectInOrder(pass[n - 1], order)
    IN  pass[Len(order)]

NewModel(rels, order, declared) ==
    [rels |-> ProjectViews(rels, order), order |-> order, declared |-> declared]

-----------------------------------------------------------------------------
(* Edges.                                                                  *)

HintNames(fk) == {fk.name} \cup ElementsOf(fk.cols) \cup ({fk.source} \ {""})

\* Faulty variant: a part of a key is as good as the key.
PartOfColumns(a, b) == a # <<>> /\ ElementsOf(b) \subseteq ElementsOf(a)

SameColumnSet(a, b) == a # <<>> /\ Len(a) = Len(b) /\ ElementsOf(a) \subseteq ElementsOf(b)
IsUnique(r, cols) == \E u \in {r.pk} \cup r.unique : SameColumnSet(u, cols)

Edge(name, card, cardinality, target, local, foreign, hints) ==
    [name |-> name, card |-> card, cardinality |-> cardinality, target |-> target,
     local |-> local, foreign |-> foreign, junction |-> <<>>, jlocal |-> <<>>,
     jforeign |-> <<>>, func |-> "", hints |-> hints]

ForwardEdges(m, parent, target) ==
    {Edge(fk.name, "one", IF IsUnique(m.rels[parent], fk.cols) THEN "one-to-one" ELSE "many-to-one",
          target, fk.cols, fk.refCols, HintNames(fk)) :
       fk \in {fk \in m.rels[parent].fks : fk.ref = target}}
BackwardEdges(m, parent, target) ==
    {LET one == IsUnique(m.rels[target], fk.cols)
     IN  Edge(fk.name, IF one THEN "one" ELSE "many", IF one THEN "one-to-one" ELSE "one-to-many",
              target, fk.refCols, fk.cols, HintNames(fk)) :
       fk \in {fk \in m.rels[target].fks : fk.ref = parent}}

\* The keys that make j a junction: theirs are columns of its primary key.
JunctionFKs(m, j, end) ==
    {fk \in m.rels[j].fks : fk.ref = end /\ fk.cols # <<>> /\ ElementsOf(fk.cols) \subseteq ElementsOf(m.rels[j].pk)}
JunctionEdges(m, parent, target) ==
    LET Pairs(j) == {q \in JunctionFKs(m, j, parent) \X JunctionFKs(m, j, target) : q[1] # q[2]}
        Through(j) ==
          {[Edge(j[2], "many", "many-to-many", target, q[1].refCols, q[2].refCols,
                 {j[2], q[2].name} \cup ElementsOf(q[2].cols))
            EXCEPT !.junction = j, !.jlocal = q[1].cols, !.jforeign = q[2].cols] : q \in Pairs(j)}
    IN  UNION {Through(j) : j \in DOMAIN m.rels \ {parent, target}}

DeclaredCardinality(card) == IF card = "many" THEN "one-to-many" ELSE "many-to-one"

\* A declared relationship is [name, parent, target, card, local, foreign, hints,
\* junction, jlocal, jforeign]; one whose junction is not in the model is
\* skipped.
DeclaredEdge(d) ==
    [Edge(d.name, d.card, IF d.junction # <<>> THEN "many-to-many" ELSE DeclaredCardinality(d.card),
          d.target, d.local, d.foreign, {d.name} \cup d.hints)
     EXCEPT !.junction = d.junction, !.jlocal = d.jlocal, !.jforeign = d.jforeign]
Declares(m, d, parent, target) ==
    /\ d.parent = parent /\ d.target = target
    /\ d.junction # <<>> => d.junction \in DOMAIN m.rels
DeclaredEdges(m, parent, target) ==
    {DeclaredEdge(d) : d \in {d \in m.declared : Declares(m, d, parent, target)}}

ComputedEdge(cr) ==
    [Edge(cr.name, cr.card, DeclaredCardinality(cr.card), cr.target, <<>>, <<>>, {cr.name})
     EXCEPT !.func = cr.name]
ComputedRelEdges(m, parent, target) ==
    {ComputedEdge(cr) : cr \in {cr \in m.rels[parent].computedRels : cr.target = target}}

Relationships(m, parent, target) ==
    LET derived == ForwardEdges(m, parent, target) \cup BackwardEdges(m, parent, target)
                     \cup JunctionEdges(m, parent, target)
        declared == DeclaredEdges(m, parent, target) \cup ComputedRelEdges(m, parent, target)
    IN  {e \in derived : \A d \in declared : d.name # e.name} \cup declared

\* A computed relationship is also embedded by its function's name.
ComputedRelByName(m, parent, name) ==
    {ComputedEdge(cr) : cr \in {cr \in m.rels[parent].computedRels :
                                  cr.name = name /\ cr.target \in DOMAIN m.rels}}

-----------------------------------------------------------------------------
(* The planner's choice of one edge: an embed is [target, hint, ...].      *)

NoRelationship == [ok |-> FALSE, err |-> "PGRST200"]
Ambiguous == [ok |-> FALSE, err |-> "PGRST201"]
Found(e) == [ok |-> TRUE, edge |-> e]

ChooseEdge(all, computed, hint) ==
    LET cands == IF hint = "" THEN all ELSE {e \in all : hint \in e.hints}
    IN  CASE all = {} /\ computed # {} -> Found(CHOOSE e \in computed : TRUE)
          [] all = {} /\ computed = {} -> NoRelationship
          [] all # {} /\ cands = {} -> NoRelationship
          [] Cardinality(cands) = 1 -> Found(CHOOSE e \in cands : TRUE)
          [] OTHER -> Ambiguous
ResolveOne(m, parent, name, hint, path) ==
    LET target == Lookup(m, name, path)
    IN  ChooseEdge(IF target = <<>> THEN {} ELSE Relationships(m, parent, target),
                   ComputedRelByName(m, parent, name), hint)
=============================================================================
