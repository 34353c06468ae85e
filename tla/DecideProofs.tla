---------------------------- MODULE DecideProofs ----------------------------
(***************************************************************************)
(* Proofs about the decisions made for a request, for every catalog, every *)
(* registry, every set of policies and every query.                        *)
(***************************************************************************)
EXTENDS Decide, SequenceTheorems, FiniteSetTheorems, TLAPS

(***************************************************************************)
(* Every task is answered by the operation for its kind, once.             *)
(***************************************************************************)
Asked ==
    \/ task \in EdgeTasks \/ task \in ViewTasks \/ task \in OverloadTasks
    \/ task \in MergeTasks \/ task \in GateTasks
AnswerInv ==
    /\ Asked
    /\ out # <<>> =>
         /\ task.kind = "edges" => out = <<Relationships(task.model, task.from, task.to)>>
         /\ task.kind = "views" => out = <<NewModel(task.rels, task.order, {}).rels>>
         /\ task.kind = "overload" => out = <<Resolve(task.reg, task.name, task.args)>>
         /\ task.kind = "merge" => out = <<Merge(task.declared, task.native, task.names)>>
         /\ task.kind = "gate" => out = <<Authorize(task.reg, task.rc, task.q)>>

\* A step answers the task with the operation of its kind and leaves the task.
LEMMA StepAnswers == AnswerInv /\ [DecideNext]_decideVars => AnswerInv'
<1> SUFFICES ASSUME AnswerInv, [DecideNext]_decideVars PROVE AnswerInv'
  OBVIOUS
<1>1. CASE Discover
  BY <1>1 DEF Discover, Answer, AnswerInv, Asked
<1>2. CASE Project
  BY <1>2 DEF Project, Answer, AnswerInv, Asked
<1>3. CASE Overload
  BY <1>3 DEF Overload, Answer, AnswerInv, Asked
<1>4. CASE MergeRegistries
  BY <1>4 DEF MergeRegistries, Answer, AnswerInv, Asked
<1>5. CASE Gate
  BY <1>5 DEF Gate, Answer, AnswerInv, Asked
<1>6. CASE UNCHANGED decideVars
  BY <1>6 DEF decideVars, AnswerInv, Asked
<1> QED
  BY <1>1, <1>2, <1>3, <1>4, <1>5, <1>6 DEF DecideNext

\* The invariant holds in every state.
LEMMA AnswersInvariant == DecideSpec => []AnswerInv
<1>1. DecideInit => AnswerInv
  BY DEF DecideInit, AnswerInv, Asked
<1> QED
  BY <1>1, StepAnswers, PTL DEF DecideSpec

\* The kind of a task tells which set it is from.
LEMMA KindOfTask ==
    ASSUME Asked
    PROVE  /\ task.kind = "edges" => task \in EdgeTasks
           /\ task.kind = "views" => task \in ViewTasks
           /\ task.kind = "overload" => task \in OverloadTasks
           /\ task.kind = "merge" => task \in MergeTasks
           /\ task.kind = "gate" => task \in GateTasks
<1>1. /\ \A t \in EdgeTasks : t.kind = "edges"
      /\ \A t \in ViewTasks : t.kind = "views"
      /\ \A t \in OverloadTasks : t.kind = "overload"
      /\ \A t \in MergeTasks : t.kind = "merge"
      /\ \A t \in GateTasks : t.kind = "gate"
  BY EdgeAssumption, ViewAssumption, OverloadAssumption, MergeAssumption, GateAssumption
<1> QED
  BY <1>1 DEF Asked

-----------------------------------------------------------------------------
(***************************************************************************)
(* Edges.                                                                  *)
(***************************************************************************)

\* The fields of an edge.
LEMMA EdgeFields ==
    ASSUME NEW name, NEW card, NEW cardinality, NEW target, NEW local, NEW foreign, NEW hints
    PROVE  LET e == Edge(name, card, cardinality, target, local, foreign, hints)
           IN  /\ e.name = name /\ e.card = card /\ e.local = local /\ e.foreign = foreign
               /\ e.junction = <<>> /\ e.jlocal = <<>> /\ e.jforeign = <<>> /\ e.hints = hints
BY DEF Edge

\* A forward edge is made of a foreign key of the parent.
LEMMA ForwardEdge ==
    ASSUME NEW m, NEW parent, NEW target, NEW e \in ForwardEdges(m, parent, target)
    PROVE  \E fk \in m.rels[parent].fks :
             /\ fk.ref = target /\ e.foreign = fk.refCols /\ e.local = fk.cols /\ e.name = fk.name
             /\ e.junction = <<>> /\ e.jlocal = <<>> /\ e.jforeign = <<>>
<1>1. PICK fk \in m.rels[parent].fks :
        /\ fk.ref = target
        /\ e = Edge(fk.name, "one", IF IsUnique(m.rels[parent], fk.cols) THEN "one-to-one" ELSE "many-to-one",
                    target, fk.cols, fk.refCols, HintNames(fk))
  BY DEF ForwardEdges
<1> QED
  BY <1>1, EdgeFields

\* A backward edge is made of a foreign key of the target, and is to one row only
\* if its columns are those of a key.
LEMMA BackwardEdge ==
    ASSUME NEW m, NEW parent, NEW target, NEW e \in BackwardEdges(m, parent, target)
    PROVE  \E fk \in m.rels[target].fks :
             /\ fk.ref = parent /\ e.foreign = fk.cols /\ e.local = fk.refCols /\ e.name = fk.name
             /\ e.junction = <<>> /\ e.jlocal = <<>> /\ e.jforeign = <<>>
             /\ e.card = "one" => IsUnique(m.rels[target], fk.cols)
<1>1. PICK fk \in m.rels[target].fks :
        /\ fk.ref = parent
        /\ e = LET one == IsUnique(m.rels[target], fk.cols)
               IN  Edge(fk.name, IF one THEN "one" ELSE "many", IF one THEN "one-to-one" ELSE "one-to-many",
                        target, fk.refCols, fk.cols, HintNames(fk))
  BY DEF BackwardEdges
<1>2. /\ e.foreign = fk.cols /\ e.local = fk.refCols /\ e.name = fk.name
      /\ e.junction = <<>> /\ e.jlocal = <<>> /\ e.jforeign = <<>>
      /\ e.card = IF IsUnique(m.rels[target], fk.cols) THEN "one" ELSE "many"
  BY <1>1, EdgeFields
<1> QED
  BY <1>1, <1>2

\* An edge through a junction is made of two of the junction's keys.
LEMMA JunctionEdge ==
    ASSUME NEW m, NEW parent, NEW target, NEW e \in JunctionEdges(m, parent, target)
    PROVE  /\ e.card = "many"
           /\ \E j \in DOMAIN m.rels \ {parent, target} :
                \E p \in JunctionFKs(m, j, parent) : \E q \in JunctionFKs(m, j, target) :
                  /\ p # q /\ e.local = p.refCols /\ e.foreign = q.refCols
                  /\ e.junction = j /\ e.jlocal = p.cols /\ e.jforeign = q.cols
<1>1. PICK j \in DOMAIN m.rels \ {parent, target} :
        \E r \in {r \in JunctionFKs(m, j, parent) \X JunctionFKs(m, j, target) : r[1] # r[2]} :
          e = [Edge(j[2], "many", "many-to-many", target, r[1].refCols, r[2].refCols,
                    {j[2], r[2].name} \cup ElementsOf(r[2].cols))
               EXCEPT !.junction = j, !.jlocal = r[1].cols, !.jforeign = r[2].cols]
  BY ZenonT(40) DEF JunctionEdges
<1>2. PICK p \in JunctionFKs(m, j, parent), q \in JunctionFKs(m, j, target) :
        /\ p # q
        /\ e = [Edge(j[2], "many", "many-to-many", target, p.refCols, q.refCols,
                     {j[2], q.name} \cup ElementsOf(q.cols))
                EXCEPT !.junction = j, !.jlocal = p.cols, !.jforeign = q.cols]
  BY <1>1
<1>3. /\ e.card = "many" /\ e.local = p.refCols /\ e.foreign = q.refCols
      /\ e.junction = j /\ e.jlocal = p.cols /\ e.jforeign = q.cols
  BY <1>2 DEF Edge
<1> QED
  BY <1>1, <1>2, <1>3

\* An edge that is not promised by a declaration or a function comes from keys.
LEMMA DerivedEdge ==
    ASSUME NEW m, NEW parent, NEW target, NEW e \in Relationships(m, parent, target),
           \A d \in Promised(m, parent, target) : d.name # e.name
    PROVE  e \in ForwardEdges(m, parent, target) \cup BackwardEdges(m, parent, target)
                   \cup JunctionEdges(m, parent, target)
BY DEF Relationships, Promised

\* Unique columns hold a key.
LEMMA UniqueHoldsKey ==
    ASSUME NEW r, NEW cols, IsUnique(r, cols)
    PROVE  \E u \in KeysOf(r) : ElementsOf(u) \subseteq ElementsOf(cols)
BY DEF IsUnique, SameColumnSet, KeysOf

\* What ToOneIsSingle says of the answer to a task.
LEMMA SingleAnswer ==
    ASSUME NEW t \in EdgeTasks, NEW e \in Relationships(t.model, t.from, t.to),
           e.card = "one", Derived(t, e),
           NEW agree \in SUBSET DOMAIN t.model.rels[t.to].cols, Lawful(t.model.rels[t.to], agree)
    PROVE  ~(ElementsOf(e.foreign) \subseteq agree)
<1> DEFINE r == t.model.rels[t.to]
<1>1. e \in ForwardEdges(t.model, t.from, t.to) \cup BackwardEdges(t.model, t.from, t.to)
              \cup JunctionEdges(t.model, t.from, t.to)
  BY DerivedEdge DEF Derived
<1>2. \E u \in KeysOf(r) : ElementsOf(u) \subseteq ElementsOf(e.foreign)
  <2>1. CASE e \in ForwardEdges(t.model, t.from, t.to)
    <3>1. PICK fk \in t.model.rels[t.from].fks : fk.ref = t.to /\ e.foreign = fk.refCols
      BY <2>1, ForwardEdge
    <3>2. t.from \in DOMAIN t.model.rels /\ t.to \in DOMAIN t.model.rels
      BY EdgeAssumption
    <3> QED
      BY <3>1, <3>2, EdgeAssumption
  <2>2. CASE e \in BackwardEdges(t.model, t.from, t.to)
    <3>1. PICK fk \in r.fks : e.foreign = fk.cols /\ IsUnique(r, fk.cols)
      BY <2>2, BackwardEdge
    <3> QED
      BY <3>1, UniqueHoldsKey
  <2>3. CASE e \in JunctionEdges(t.model, t.from, t.to)
    <3>1. e.card = "many"
      BY <2>3, JunctionEdge
    <3> QED
      BY <3>1
  <2> QED
    BY <1>1, <2>1, <2>2, <2>3
<1> QED
  BY <1>2 DEF Lawful

\* A foreign key gives a forward edge of its relation and a backward edge of the
\* relation it refers to, two keys of a junction an edge through it.
LEMMA EdgesOfKeys ==
    ASSUME NEW m, NEW a, NEW b
    PROVE  /\ \A fk \in m.rels[a].fks : fk.ref = b =>
                /\ \E e \in ForwardEdges(m, a, b) :
                     Join(e.local, e.foreign, e.junction, e.jlocal, e.jforeign)
                       = Join(fk.cols, fk.refCols, <<>>, <<>>, <<>>)
                /\ \E e \in BackwardEdges(m, b, a) :
                     Join(e.local, e.foreign, e.junction, e.jlocal, e.jforeign)
                       = Join(fk.refCols, fk.cols, <<>>, <<>>, <<>>)
           /\ \A j \in DOMAIN m.rels \ {a, b} :
                \A p \in JunctionFKs(m, j, a), q \in JunctionFKs(m, j, b) : p # q =>
                  \E e \in JunctionEdges(m, a, b) :
                    Join(e.local, e.foreign, e.junction, e.jlocal, e.jforeign)
                      = Join(p.refCols, q.refCols, j, p.cols, q.cols)
<1>1. ASSUME NEW fk \in m.rels[a].fks, fk.ref = b
      PROVE  \E e \in ForwardEdges(m, a, b) :
               Join(e.local, e.foreign, e.junction, e.jlocal, e.jforeign)
                 = Join(fk.cols, fk.refCols, <<>>, <<>>, <<>>)
  <2>1. PICK e : e = Edge(fk.name, "one", IF IsUnique(m.rels[a], fk.cols) THEN "one-to-one" ELSE "many-to-one",
                          b, fk.cols, fk.refCols, HintNames(fk))
    OBVIOUS
  <2>2. e \in ForwardEdges(m, a, b)
    BY <1>1, <2>1 DEF ForwardEdges
  <2> QED
    BY <2>1, <2>2, EdgeFields
<1>2. ASSUME NEW fk \in m.rels[a].fks, fk.ref = b
      PROVE  \E e \in BackwardEdges(m, b, a) :
               Join(e.local, e.foreign, e.junction, e.jlocal, e.jforeign)
                 = Join(fk.refCols, fk.cols, <<>>, <<>>, <<>>)
  <2>1. PICK e : e = LET one == IsUnique(m.rels[a], fk.cols)
                     IN  Edge(fk.name, IF one THEN "one" ELSE "many", IF one THEN "one-to-one" ELSE "one-to-many",
                              a, fk.refCols, fk.cols, HintNames(fk))
    OBVIOUS
  <2>2. e \in BackwardEdges(m, b, a)
    BY <1>2, <2>1 DEF BackwardEdges
  <2> QED
    BY <2>1, <2>2, EdgeFields
<1>3. ASSUME NEW j \in DOMAIN m.rels \ {a, b},
             NEW p \in JunctionFKs(m, j, a), NEW q \in JunctionFKs(m, j, b), p # q
      PROVE  \E e \in JunctionEdges(m, a, b) :
               Join(e.local, e.foreign, e.junction, e.jlocal, e.jforeign)
                 = Join(p.refCols, q.refCols, j, p.cols, q.cols)
  <2>1. PICK e : e = [Edge(j[2], "many", "many-to-many", b, p.refCols, q.refCols,
                           {j[2], q.name} \cup ElementsOf(q.cols))
                      EXCEPT !.junction = j, !.jlocal = p.cols, !.jforeign = q.cols]
    OBVIOUS
  <2>2. PICK r : r = <<p, q>>
    OBVIOUS
  <2>3. r \in {x \in JunctionFKs(m, j, a) \X JunctionFKs(m, j, b) : x[1] # x[2]} /\ r[1] = p /\ r[2] = q
    BY <1>3, <2>2
  <2> DEFINE Through(i) ==
               {[Edge(i[2], "many", "many-to-many", b, x[1].refCols, x[2].refCols,
                      {i[2], x[2].name} \cup ElementsOf(x[2].cols))
                 EXCEPT !.junction = i, !.jlocal = x[1].cols, !.jforeign = x[2].cols] :
                  x \in {x \in JunctionFKs(m, i, a) \X JunctionFKs(m, i, b) : x[1] # x[2]}}
  <2>4. e \in Through(j)
    BY <2>1, <2>3, Zenon
  <2>5. e \in JunctionEdges(m, a, b)
    <3>1. JunctionEdges(m, a, b) = UNION {Through(i) : i \in DOMAIN m.rels \ {a, b}}
      BY Zenon DEF JunctionEdges
    <3> HIDE DEF Through
    <3> QED
      BY <3>1, <2>4
  <2>6. /\ e.local = p.refCols /\ e.foreign = q.refCols
        /\ e.junction = j /\ e.jlocal = p.cols /\ e.jforeign = q.cols
    BY <2>1 DEF Edge
  <2> QED
    BY <2>5, <2>6
<1> QED
  BY <1>1, <1>2, <1>3

\* Every edge from a to b has its mirror from b to a.
LEMMA MirrorEdge ==
    ASSUME NEW m, NEW a, NEW b, Promised(m, a, b) = {}, Promised(m, b, a) = {},
           NEW e \in Relationships(m, a, b)
    PROVE  \E f \in Relationships(m, b, a) :
             Join(f.local, f.foreign, f.junction, f.jlocal, f.jforeign)
               = Join(e.foreign, e.local, e.junction, e.jforeign, e.jlocal)
<1>1. e \in ForwardEdges(m, a, b) \cup BackwardEdges(m, a, b) \cup JunctionEdges(m, a, b)
  BY DEF Relationships, Promised
<1>2. Relationships(m, b, a) = ForwardEdges(m, b, a) \cup BackwardEdges(m, b, a) \cup JunctionEdges(m, b, a)
  BY DEF Relationships, Promised
<1>3. CASE e \in ForwardEdges(m, a, b)
  <2>1. PICK fk \in m.rels[a].fks :
             /\ fk.ref = b /\ e.foreign = fk.refCols /\ e.local = fk.cols
             /\ e.junction = <<>> /\ e.jlocal = <<>> /\ e.jforeign = <<>>
    BY <1>3, ForwardEdge
  <2>2. PICK f \in BackwardEdges(m, b, a) :
          Join(f.local, f.foreign, f.junction, f.jlocal, f.jforeign) = Join(fk.refCols, fk.cols, <<>>, <<>>, <<>>)
    BY <2>1, EdgesOfKeys
  <2> QED
    BY <1>2, <2>1, <2>2
<1>4. CASE e \in BackwardEdges(m, a, b)
  <2>1. PICK fk \in m.rels[b].fks :
             /\ fk.ref = a /\ e.foreign = fk.cols /\ e.local = fk.refCols
             /\ e.junction = <<>> /\ e.jlocal = <<>> /\ e.jforeign = <<>>
    BY <1>4, BackwardEdge
  <2>2. PICK f \in ForwardEdges(m, b, a) :
          Join(f.local, f.foreign, f.junction, f.jlocal, f.jforeign) = Join(fk.cols, fk.refCols, <<>>, <<>>, <<>>)
    BY <2>1, EdgesOfKeys
  <2> QED
    BY <1>2, <2>1, <2>2
<1>5. CASE e \in JunctionEdges(m, a, b)
  <2>0. PICK j \in DOMAIN m.rels \ {a, b} :
          \E p \in JunctionFKs(m, j, a) : \E q \in JunctionFKs(m, j, b) :
            /\ p # q /\ e.local = p.refCols /\ e.foreign = q.refCols
            /\ e.junction = j /\ e.jlocal = p.cols /\ e.jforeign = q.cols
    BY <1>5, JunctionEdge
  <2>1. PICK p \in JunctionFKs(m, j, a), q \in JunctionFKs(m, j, b) :
          /\ p # q /\ e.local = p.refCols /\ e.foreign = q.refCols
          /\ e.junction = j /\ e.jlocal = p.cols /\ e.jforeign = q.cols
    BY <2>0
  <2>2. j \in DOMAIN m.rels \ {b, a}
    OBVIOUS
  <2>3. PICK f \in JunctionEdges(m, b, a) :
          Join(f.local, f.foreign, f.junction, f.jlocal, f.jforeign) = Join(q.refCols, p.refCols, j, q.cols, p.cols)
    BY <2>1, <2>2, EdgesOfKeys
  <2> QED
    BY <1>2, <2>1, <2>3
<1> QED
  BY <1>1, <1>3, <1>4, <1>5

\* What EdgesMirror says of the answer to a task.
LEMMA MirrorAnswer ==
    ASSUME NEW m, NEW a, NEW b, Promised(m, a, b) \cup Promised(m, b, a) = {}
    PROVE  Joins(Relationships(m, b, a)) =
             {Join(j.foreign, j.local, j.via, j.jforeign, j.jlocal) : j \in Joins(Relationships(m, a, b))}
<1> DEFINE Swap(j) == Join(j.foreign, j.local, j.via, j.jforeign, j.jlocal)
           J(e) == Join(e.local, e.foreign, e.junction, e.jlocal, e.jforeign)
           R == Relationships(m, a, b)
           M == Relationships(m, b, a)
<1>1. Promised(m, a, b) = {} /\ Promised(m, b, a) = {}
  OBVIOUS
<1>2. ASSUME NEW e PROVE Swap(J(e)) = Join(e.foreign, e.local, e.junction, e.jforeign, e.jlocal)
  BY DEF Join
<1>3. \A e \in R : \E f \in M : J(f) = Swap(J(e))
  BY <1>1, <1>2, MirrorEdge
<1>4. \A f \in M : \E e \in R : J(e) = Swap(J(f))
  BY <1>1, <1>2, MirrorEdge
<1>5. \A e : Swap(Swap(J(e))) = J(e)
  BY DEF Join
<1>6. Joins(M) = {J(f) : f \in M} /\ Joins(R) = {J(e) : e \in R}
  BY DEF Joins
<1>7. {J(f) : f \in M} = {Swap(j) : j \in {J(e) : e \in R}}
  <2> HIDE DEF Swap, J, R, M
  <2>1. ASSUME NEW x \in {J(f) : f \in M} PROVE \E e \in R : x = Swap(J(e))
    <3>1. PICK f \in M : x = J(f)
      OBVIOUS
    <3>2. PICK e \in R : J(e) = Swap(J(f))
      BY <1>4
    <3>3. x = Swap(J(e))
      BY <3>1, <3>2, <1>5
    <3> QED
      BY <3>3
  <2>2. ASSUME NEW e \in R PROVE Swap(J(e)) \in {J(f) : f \in M}
    BY <1>3
  <2> QED
    BY <2>1, <2>2
<1> QED
  BY <1>6, <1>7, Zenon DEF Swap, J, R, M

\* A declared edge has the declaration's name, which is one of its hints.
LEMMA DeclaredEdgeNamed ==
    ASSUME NEW d PROVE DeclaredEdge(d).name = d.name /\ DeclaredEdge(d).hints = {d.name} \cup d.hints
BY DEF DeclaredEdge, Edge

\* What DeclaredWins says of the answer to a task.
LEMMA DeclaredAnswer ==
    ASSUME NEW t \in EdgeTasks, NEW d \in t.model.declared,
           Declares(t.model, d, t.from, t.to), d.name # "", NEW rivals,
           rivals = {e \in Relationships(t.model, t.from, t.to) : d.name \in e.hints /\ e # DeclaredEdge(d)}
    PROVE  /\ \A e \in rivals : e.name = d.name => e \in Promised(t.model, t.from, t.to)
           /\ rivals = {} => ResolveOne(t.model, t.from, t.to[2], d.name, t.path) = Found(DeclaredEdge(d))
<1>1. PICK all : all = Relationships(t.model, t.from, t.to)
  OBVIOUS
<1>2. PICK D : D = DeclaredEdge(d)
  OBVIOUS
<1>3. D.name = d.name /\ D.hints = {d.name} \cup d.hints
  BY <1>2, DeclaredEdgeNamed
<1>4. D \in Promised(t.model, t.from, t.to)
  BY <1>2 DEF Promised, DeclaredEdges
<1>5. /\ D \in all
      /\ \A e \in all : e \in Promised(t.model, t.from, t.to)
                          \/ \A p \in Promised(t.model, t.from, t.to) : p.name # e.name
  BY <1>1, <1>4 DEF Relationships, Promised
<1>6. \A e \in rivals : e.name = d.name => e \in Promised(t.model, t.from, t.to)
  BY <1>1, <1>3, <1>4, <1>5
<1>7. ASSUME rivals = {}
      PROVE  ResolveOne(t.model, t.from, t.to[2], d.name, t.path) = Found(D)
  <2>1. Lookup(t.model, t.to[2], t.path) = t.to /\ t.to # <<>>
    BY EdgeAssumption
  <2>2. PICK computed : computed = ComputedRelByName(t.model, t.from, t.to[2])
    OBVIOUS
  <2>3. ResolveOne(t.model, t.from, t.to[2], d.name, t.path) = ChooseEdge(all, computed, d.name)
    BY <1>1, <2>1, <2>2 DEF ResolveOne
  <2>4. PICK cands : cands = {e \in all : d.name \in e.hints}
    OBVIOUS
  <2>5. cands = {D}
    BY <1>1, <1>2, <1>3, <1>5, <1>7, <2>4
  <2>6. Cardinality(cands) = 1 /\ (CHOOSE e \in cands : TRUE) = D
    BY <2>5, FS_Singleton
  <2>7. all # {} /\ cands # {}
    BY <1>5, <2>5
  <2>8. ChooseEdge(all, computed, d.name) =
          CASE all = {} /\ computed # {} -> Found(CHOOSE e \in computed : TRUE)
            [] all = {} /\ computed = {} -> NoRelationship
            [] all # {} /\ cands = {} -> NoRelationship
            [] Cardinality(cands) = 1 -> Found(CHOOSE e \in cands : TRUE)
            [] OTHER -> Ambiguous
    BY <2>4 DEF ChooseEdge
  <2> QED
    BY <2>3, <2>6, <2>7, <2>8
<1> QED
  BY <1>2, <1>6, <1>7

-----------------------------------------------------------------------------
(***************************************************************************)
(* Loops. A recursive function stands for the history of a loop; that      *)
(* there is one is shown by the least length for which there is none.      *)
(***************************************************************************)

\* The least-number principle, for a set.
LEMMA LeastNumber ==
    ASSUME NEW S \in SUBSET Nat, S # {}
    PROVE  \E i \in S : \A k \in S : i <= k
<1> DEFINE R == OpToRel(<, Nat)
<1>1. IsWellFoundedOn(R, Nat)
  BY NatLessThanWellFounded
<1>2. PICK x \in S : \A y \in S : <<y, x>> \notin R
  <2> HIDE DEF R
  <2> QED
    BY <1>1, WFMin, Zenon
<1>3. ASSUME NEW k \in S PROVE x <= k
  <2>1. ~(k < x)
    BY <1>2 DEF OpToRel
  <2> QED
    BY <2>1
<1> QED
  BY <1>3

\* A pass over the catalog is well defined: each view continues what the ones
\* before it left.
LEMMA PassUnfolds ==
    ASSUME NEW rels, NEW order, Len(order) \in Nat
    PROVE  \E f : /\ f[0] = rels
                  /\ \A n \in 1 .. Len(order) : f[n] = ProjectOneView(f[n - 1], order[n])
                  /\ ProjectInOrder(rels, order) = f[Len(order)]
<1> DEFINE len == Len(order)
           Round(x, n) == ProjectOneView(x, order[n])
           Loop(f, m) == [n \in 0 .. m |-> IF n = 0 THEN rels ELSE Round(f[n - 1], n)]
           Bad == {m \in Nat : m <= len /\ ~ \E f : f = Loop(f, m)}
           g == CHOOSE f : f = Loop(f, len)
<1>1. ProjectInOrder(rels, order) = g[len]
  BY DEF ProjectInOrder
<1>2. len \in Nat
  OBVIOUS
<1> HIDE DEF len, Round, g
<1>3. Bad = {}
  <2> SUFFICES ASSUME Bad # {} PROVE FALSE
    OBVIOUS
  <2>1. PICK m \in Bad : \A k \in Bad : m <= k
    <3> HIDE DEF Bad
    <3>1. Bad \in SUBSET Nat
      BY DEF Bad
    <3> QED
      BY <3>1, LeastNumber
  <2>2. CASE m = 0
    <3>1. PICK f : f = [n \in 0 .. 0 |-> rels]
      OBVIOUS
    <3>2. f = Loop(f, 0)
      BY <3>1
    <3> QED
      BY <2>1, <2>2, <3>2
  <2>3. CASE m # 0
    <3>1. m - 1 \in Nat /\ m - 1 <= len /\ m \in Nat /\ m >= 1 /\ ~(m <= m - 1)
      BY <1>2, <2>1, <2>3
    <3>2. PICK f : f = Loop(f, m - 1)
      BY <2>1, <3>1
    <3>3. PICK h : h = [n \in 0 .. m |-> IF n = m THEN Round(f[m - 1], m) ELSE f[n]]
      OBVIOUS
    <3>4. ASSUME NEW n \in 0 .. m PROVE h[n] = IF n = 0 THEN rels ELSE Round(h[n - 1], n)
      <4>1. CASE n = 0
        <5>1. 0 \in 0 .. m - 1 /\ n # m
          BY <2>3, <3>1, <4>1
        <5> QED
          BY <3>2, <3>3, <4>1, <5>1
      <4>2. CASE n # 0
        <5>1. n - 1 \in 0 .. m /\ n - 1 # m
          BY <3>1, <4>2
        <5>2. h[n - 1] = f[n - 1]
          BY <3>3, <5>1
        <5>3. CASE n = m
          BY <3>3, <4>2, <5>2, <5>3
        <5>4. CASE n # m
          <6>1. n \in 0 .. m - 1
            BY <3>1, <5>4
          <6>2. f[n] = Round(f[n - 1], n)
            BY <3>2, <4>2, <6>1
          <6> QED
            BY <3>3, <4>2, <5>2, <5>4, <6>2
        <5> QED
          BY <5>3, <5>4
      <4> QED
        BY <4>1, <4>2
    <3>5. h = Loop(h, m)
      BY <3>3, <3>4
    <3> QED
      BY <2>1, <3>5
  <2> QED
    BY <2>2, <2>3
<1>4. g = Loop(g, len)
  <2>1. \E f : f = Loop(f, len)
    BY <1>2, <1>3
  <2> HIDE DEF Loop
  <2> QED
    BY <2>1, Zenon DEF g
<1>5. \A n \in 0 .. len : g[n] = IF n = 0 THEN rels ELSE Round(g[n - 1], n)
  <2> DEFINE E(n) == IF n = 0 THEN rels ELSE Round(g[n - 1], n)
  <2>1. g = [n \in 0 .. len |-> E(n)]
    BY <1>4
  <2> HIDE DEF E
  <2>2. \A n \in 0 .. len : g[n] = E(n)
    BY <2>1
  <2> QED
    BY <2>2 DEF E
<1>6. g[0] = rels
  BY <1>2, <1>5
<1>7. ASSUME NEW n \in 1 .. len PROVE g[n] = Round(g[n - 1], n)
  <2>1. n \in 0 .. len /\ n # 0
    BY <1>2
  <2> QED
    BY <1>5, <2>1
<1> QED
  BY <1>1, <1>6, <1>7 DEF len, Round

\* The passes are well defined: each continues the one before.
LEMMA PassesUnfold ==
    ASSUME NEW rels, NEW order, Len(order) \in Nat
    PROVE  \E f : /\ f[0] = rels
                  /\ \A n \in 1 .. Len(order) : f[n] = ProjectInOrder(f[n - 1], order)
                  /\ ProjectViews(rels, order) = f[Len(order)]
<1> DEFINE len == Len(order)
           Round(x, n) == ProjectInOrder(x, order)
           Loop(f, m) == [n \in 0 .. m |-> IF n = 0 THEN rels ELSE Round(f[n - 1], n)]
           Bad == {m \in Nat : m <= len /\ ~ \E f : f = Loop(f, m)}
           g == CHOOSE f : f = Loop(f, len)
<1>1. ProjectViews(rels, order) = g[len]
  BY DEF ProjectViews
<1>2. len \in Nat
  OBVIOUS
<1> HIDE DEF len, Round, g
<1>3. Bad = {}
  <2> SUFFICES ASSUME Bad # {} PROVE FALSE
    OBVIOUS
  <2>1. PICK m \in Bad : \A k \in Bad : m <= k
    <3> HIDE DEF Bad
    <3>1. Bad \in SUBSET Nat
      BY DEF Bad
    <3> QED
      BY <3>1, LeastNumber
  <2>2. CASE m = 0
    <3>1. PICK f : f = [n \in 0 .. 0 |-> rels]
      OBVIOUS
    <3>2. f = Loop(f, 0)
      BY <3>1
    <3> QED
      BY <2>1, <2>2, <3>2
  <2>3. CASE m # 0
    <3>1. m - 1 \in Nat /\ m - 1 <= len /\ m \in Nat /\ m >= 1 /\ ~(m <= m - 1)
      BY <1>2, <2>1, <2>3
    <3>2. PICK f : f = Loop(f, m - 1)
      BY <2>1, <3>1
    <3>3. PICK h : h = [n \in 0 .. m |-> IF n = m THEN Round(f[m - 1], m) ELSE f[n]]
      OBVIOUS
    <3>4. ASSUME NEW n \in 0 .. m PROVE h[n] = IF n = 0 THEN rels ELSE Round(h[n - 1], n)
      <4>1. CASE n = 0
        <5>1. 0 \in 0 .. m - 1 /\ n # m
          BY <2>3, <3>1, <4>1
        <5> QED
          BY <3>2, <3>3, <4>1, <5>1
      <4>2. CASE n # 0
        <5>1. n - 1 \in 0 .. m /\ n - 1 # m
          BY <3>1, <4>2
        <5>2. h[n - 1] = f[n - 1]
          BY <3>3, <5>1
        <5>3. CASE n = m
          BY <3>3, <4>2, <5>2, <5>3
        <5>4. CASE n # m
          <6>1. n \in 0 .. m - 1
            BY <3>1, <5>4
          <6>2. f[n] = Round(f[n - 1], n)
            BY <3>2, <4>2, <6>1
          <6> QED
            BY <3>3, <4>2, <5>2, <5>4, <6>2
        <5> QED
          BY <5>3, <5>4
      <4> QED
        BY <4>1, <4>2
    <3>5. h = Loop(h, m)
      BY <3>3, <3>4
    <3> QED
      BY <2>1, <3>5
  <2> QED
    BY <2>2, <2>3
<1>4. g = Loop(g, len)
  <2>1. \E f : f = Loop(f, len)
    BY <1>2, <1>3
  <2> HIDE DEF Loop
  <2> QED
    BY <2>1, Zenon DEF g
<1>5. \A n \in 0 .. len : g[n] = IF n = 0 THEN rels ELSE Round(g[n - 1], n)
  <2> DEFINE E(n) == IF n = 0 THEN rels ELSE Round(g[n - 1], n)
  <2>1. g = [n \in 0 .. len |-> E(n)]
    BY <1>4
  <2> HIDE DEF E
  <2>2. \A n \in 0 .. len : g[n] = E(n)
    BY <2>1
  <2> QED
    BY <2>2 DEF E
<1>6. g[0] = rels
  BY <1>2, <1>5
<1>7. ASSUME NEW n \in 1 .. len PROVE g[n] = Round(g[n - 1], n)
  <2>1. n \in 0 .. len /\ n # 0
    BY <1>2
  <2> QED
    BY <1>5, <2>1
<1> QED
  BY <1>1, <1>6, <1>7 DEF len, Round

-----------------------------------------------------------------------------
(***************************************************************************)
(* Views. Whatever the passes have done so far, the relations only gained  *)
(* keys that bases have under the view's names.                            *)
(***************************************************************************)
IsKey(fk) == IsRecord(fk, {"name", "cols", "source"})
Catalog(rels) ==
    /\ rels = [key \in DOMAIN rels |-> rels[key]]
    /\ \A key \in DOMAIN rels :
         IsRecord(rels[key], {"kind", "fks", "viewCols"}) /\ \A fk \in rels[key].fks : IsKey(fk)
Gained(r, rels, key, fk) ==
    \E base \in Bases(rels, rels[key]) : \E src \in r[base].fks :
      fk = ImageOf(rels[key], base, src) /\ fk.cols # <<>>
Grown(r, rels) ==
    /\ r = [key \in DOMAIN rels |-> r[key]]
    /\ \A key \in DOMAIN rels :
         /\ r[key] = [rels[key] EXCEPT !.fks = r[key].fks]
         /\ rels[key].fks \subseteq r[key].fks
         /\ rels[key].kind # "view" => r[key] = rels[key]
         /\ \A fk \in r[key].fks : IsKey(fk)
         /\ \A fk \in r[key].fks \ rels[key].fks : Gained(r, rels, key, fk)

\* The columns a view shows depend on its view columns only.
LEMMA ColumnsOfView ==
    ASSUME NEW v, NEW w, v.viewCols = w.viewCols, NEW base
    PROVE  /\ \A cols : MapColumns(v, base, cols) = MapColumns(w, base, cols)
           /\ \A fk : ImageOf(v, base, fk) = ImageOf(w, base, fk)
<1>1. ASSUME NEW col PROVE Exposed(v, base, col) = Exposed(w, base, col)
  BY DEF Exposed
<1>2. ASSUME NEW cols PROVE MapColumns(v, base, cols) = MapColumns(w, base, cols)
  BY <1>1 DEF MapColumns
<1> QED
  BY <1>2 DEF ImageOf

\* A key under the view's names keeps its name and tells the base.
LEMMA ImageFields ==
    ASSUME NEW v, NEW base, NEW fk, IsKey(fk)
    PROVE  /\ IsKey(ImageOf(v, base, fk)) /\ ImageOf(v, base, fk).name = fk.name
           /\ ImageOf(v, base, fk).cols = MapColumns(v, base, fk.cols)
           /\ ImageOf(v, base, fk).source = base[2]
BY DEF ImageOf, IsKey, IsRecord

\* A relation that only gained keys keeps its kind and its columns.
LEMMA GrownFields ==
    ASSUME NEW rels, Catalog(rels), NEW r, Grown(r, rels), NEW key \in DOMAIN rels
    PROVE  /\ DOMAIN r = DOMAIN rels
           /\ DOMAIN r[key] = DOMAIN rels[key] /\ IsRecord(r[key], {"kind", "fks", "viewCols"})
           /\ r[key].kind = rels[key].kind /\ r[key].viewCols = rels[key].viewCols
<1>1. DOMAIN r = DOMAIN rels
  BY DEF Grown
<1>2. IsRecord(rels[key], {"kind", "fks", "viewCols"})
  BY DEF Catalog
<1>3. PICK old : old = rels[key]
  OBVIOUS
<1>4. PICK F : F = r[key].fks
  OBVIOUS
<1>5. r[key] = [old EXCEPT !.fks = F]
  BY <1>3, <1>4 DEF Grown
<1> QED
  BY <1>1, <1>2, <1>3, <1>5 DEF IsRecord

\* Of the keys that are offered, one of each name and base is taken.
LEMMA TakenOnce ==
    ASSUME NEW keys
    PROVE  /\ OnePerName(keys) \subseteq keys
           /\ \A k \in keys : \E taken \in OnePerName(keys) : taken.name = k.name /\ taken.source = k.source
<1>1. ASSUME NEW fk \in keys
      PROVE  LET taken == CHOOSE k \in keys : k.name = fk.name /\ k.source = fk.source
             IN  taken \in keys /\ taken.name = fk.name /\ taken.source = fk.source
  OBVIOUS
<1>2. \A k \in OnePerName(keys) : k \in keys
  BY <1>1 DEF OnePerName
<1>3. ASSUME NEW fk \in keys
      PROVE  \E taken \in OnePerName(keys) : taken.name = fk.name /\ taken.source = fk.source
  <2>1. PICK taken : taken = CHOOSE k \in keys : k.name = fk.name /\ k.source = fk.source
    OBVIOUS
  <2>2. taken \in OnePerName(keys)
    BY <2>1, Zenon DEF OnePerName
  <2>3. taken.name = fk.name /\ taken.source = fk.source
    BY <1>1, <2>1
  <2> QED
    BY <2>2, <2>3
<1> QED
  BY <1>2, <1>3

\* What a view is offered and gains in one step.
Offered(r, rels, key) ==
    UNION {{ImageOf(rels[key], base, src) :
              src \in {src \in r[base].fks : /\ MapColumns(rels[key], base, src.cols) # <<>>
                                             /\ ~HasProjectedFK(r[key], src, base)}} :
             base \in Bases(rels, rels[key])}
GainOf(r, rels, key) == OnePerName(Offered(r, rels, key))

\* A step of a view adds the keys it gains to that view and changes nothing else.
LEMMA OneView ==
    ASSUME NEW rels, Catalog(rels), NEW r, Grown(r, rels), NEW key \in DOMAIN rels,
           NEW q, q = ProjectOneView(r, key)
    PROVE  /\ q = [x \in DOMAIN rels |-> q[x]]
           /\ \A x \in DOMAIN rels : x # key => q[x] = r[x]
           /\ q[key] = [rels[key] EXCEPT !.fks = q[key].fks]
           /\ rels[key].kind # "view" => q = r
           /\ rels[key].kind = "view" => q[key].fks = r[key].fks \cup GainOf(r, rels, key)
<1>1. /\ DOMAIN r = DOMAIN rels
      /\ DOMAIN r[key] = DOMAIN rels[key] /\ IsRecord(r[key], {"kind", "fks", "viewCols"})
      /\ r[key].kind = rels[key].kind /\ r[key].viewCols = rels[key].viewCols
  BY GrownFields
<1>2. r = [x \in DOMAIN rels |-> r[x]] /\ r[key] = [rels[key] EXCEPT !.fks = r[key].fks]
  BY DEF Grown
<1>3. CASE rels[key].kind # "view"
  <2>1. q = r
    BY <1>1, <1>3 DEF ProjectOneView
  <2> QED
    BY <1>2, <1>3, <2>1
<1>4. CASE rels[key].kind = "view"
  <2>1. PICK gain : gain = GainOf(r, rels, key)
    OBVIOUS
  <2>2. q = [r EXCEPT ![key].fks = @ \cup gain]
    <3> DEFINE v == r[key]
               bases == {v.viewCols[k].base : k \in DOMAIN v.viewCols} \cap DOMAIN r
               Inherited(base) ==
                 {[fk EXCEPT !.cols = MapColumns(v, base, fk.cols), !.source = base[2]] :
                    fk \in {fk \in r[base].fks : /\ MapColumns(v, base, fk.cols) # <<>>
                                                 /\ ~HasProjectedFK(v, fk, base)}}
               Image(base) ==
                 {ImageOf(rels[key], base, src) :
                    src \in {src \in r[base].fks : /\ MapColumns(rels[key], base, src.cols) # <<>>
                                                   /\ ~HasProjectedFK(r[key], src, base)}}
    <3>1. q = [r EXCEPT ![key].fks = @ \cup OnePerName(UNION {Inherited(base) : base \in bases})]
      BY <1>1, <1>4 DEF ProjectOneView
    <3>2. bases = Bases(rels, rels[key])
      BY <1>1 DEF Bases
    <3>3. ASSUME NEW base PROVE Inherited(base) = Image(base)
      <4>1. \A cols : MapColumns(v, base, cols) = MapColumns(rels[key], base, cols)
        BY <1>1, ColumnsOfView
      <4> QED
        BY <4>1 DEF ImageOf
    <3>4. Offered(r, rels, key) = UNION {Image(base) : base \in bases}
      BY <3>2, Zenon DEF Offered
    <3> HIDE DEF Inherited, Image, bases
    <3>5. UNION {Inherited(base) : base \in bases} = Offered(r, rels, key)
      BY <3>3, <3>4
    <3>6. gain = OnePerName(UNION {Inherited(base) : base \in bases})
      BY <2>1, <3>5 DEF GainOf
    <3> QED
      BY <3>1, <3>6
  <2>3. q = [x \in DOMAIN rels |-> q[x]] /\ \A x \in DOMAIN rels : x # key => q[x] = r[x]
    BY <1>1, <2>2
  <2>4. q[key] = [r[key] EXCEPT !.fks = r[key].fks \cup gain]
    BY <1>1, <2>2
  <2>5. q[key].fks = r[key].fks \cup gain
    BY <1>1, <2>4 DEF IsRecord
  <2>6. q[key] = [rels[key] EXCEPT !.fks = q[key].fks]
    <3>1. PICK old : old = rels[key]
      OBVIOUS
    <3>2. PICK v : v = r[key]
      OBVIOUS
    <3>3. PICK F : F = q[key].fks
      OBVIOUS
    <3>4. v = [old EXCEPT !.fks = v.fks] /\ q[key] = [v EXCEPT !.fks = F]
      BY <1>2, <2>4, <2>5, <3>1, <3>2, <3>3
    <3>5. [v EXCEPT !.fks = F] = [old EXCEPT !.fks = F]
      BY <3>4
    <3> QED
      BY <3>1, <3>3, <3>4, <3>5
  <2> QED
    BY <1>4, <2>1, <2>3, <2>5, <2>6
<1> QED
  BY <1>3, <1>4

\* A view's step keeps what the relations gained so far explained by their bases.
LEMMA OneViewGrows ==
    ASSUME NEW rels, Catalog(rels), NEW r, Grown(r, rels), NEW key \in DOMAIN rels,
           NEW q, q = ProjectOneView(r, key)
    PROVE  Grown(q, rels) /\ \A x \in DOMAIN rels : r[x].fks \subseteq q[x].fks
<1>1. /\ q = [x \in DOMAIN rels |-> q[x]]
      /\ \A x \in DOMAIN rels : x # key => q[x] = r[x]
      /\ q[key] = [rels[key] EXCEPT !.fks = q[key].fks]
      /\ rels[key].kind # "view" => q = r
      /\ rels[key].kind = "view" => q[key].fks = r[key].fks \cup GainOf(r, rels, key)
  BY OneView
<1>2. CASE rels[key].kind # "view"
  BY <1>1, <1>2
<1>3. CASE rels[key].kind = "view"
  <2>1. ASSUME NEW x \in DOMAIN rels PROVE r[x].fks \subseteq q[x].fks
    BY <1>1, <1>3
  <2>2. ASSUME NEW fk \in GainOf(r, rels, key) PROVE Gained(r, rels, key, fk) /\ IsKey(fk)
    <3>0. fk \in Offered(r, rels, key)
      BY TakenOnce DEF GainOf
    <3>1. PICK base \in Bases(rels, rels[key]) : \E src \in r[base].fks :
            fk = ImageOf(rels[key], base, src) /\ MapColumns(rels[key], base, src.cols) # <<>>
      BY <3>0 DEF Offered
    <3>2. PICK src \in r[base].fks :
            fk = ImageOf(rels[key], base, src) /\ MapColumns(rels[key], base, src.cols) # <<>>
      BY <3>1
    <3>3. base \in DOMAIN rels
      BY DEF Bases
    <3>4. IsKey(src)
      BY <3>3 DEF Grown
    <3>5. fk.cols # <<>> /\ IsKey(fk)
      BY <3>2, <3>4, ImageFields
    <3> QED
      BY <3>2, <3>5 DEF Gained
  <2>3. ASSUME NEW x \in DOMAIN rels, NEW fk, Gained(r, rels, x, fk) PROVE Gained(q, rels, x, fk)
    <3>1. \A base \in Bases(rels, rels[x]) : base \in DOMAIN rels
      BY DEF Bases
    <3> QED
      BY <2>1, <2>3, <3>1 DEF Gained
  <2>4. ASSUME NEW x \in DOMAIN rels
        PROVE  /\ q[x] = [rels[x] EXCEPT !.fks = q[x].fks]
               /\ rels[x].fks \subseteq q[x].fks
               /\ rels[x].kind # "view" => q[x] = rels[x]
               /\ \A fk \in q[x].fks : IsKey(fk)
               /\ \A fk \in q[x].fks \ rels[x].fks : Gained(q, rels, x, fk)
    <3>1. /\ r[x] = [rels[x] EXCEPT !.fks = r[x].fks]
          /\ rels[x].fks \subseteq r[x].fks
          /\ rels[x].kind # "view" => r[x] = rels[x]
          /\ \A fk \in r[x].fks : IsKey(fk)
          /\ \A fk \in r[x].fks \ rels[x].fks : Gained(r, rels, x, fk)
      BY DEF Grown
    <3>2. CASE x # key
      <4>1. q[x] = r[x]
        BY <1>1, <3>2
      <4> QED
        BY <2>3, <3>1, <4>1
    <3>3. CASE x = key
      <4>1. \A fk \in q[x].fks : IsKey(fk)
        BY <1>1, <1>3, <2>2, <3>1, <3>3
      <4>2. \A fk \in q[x].fks \ rels[x].fks : Gained(r, rels, x, fk)
        BY <1>1, <1>3, <2>2, <3>1, <3>3
      <4>3. q[x] = [rels[x] EXCEPT !.fks = q[x].fks] /\ rels[x].kind = "view"
        BY <1>1, <1>3, <3>3
      <4> QED
        BY <2>1, <2>3, <3>1, <4>1, <4>2, <4>3
    <3> QED
      BY <3>2, <3>3
  <2> QED
    BY <1>1, <2>1, <2>4 DEF Grown
<1> QED
  BY <1>2, <1>3

\* A relation has every key that its bases have and that it shows.
Closed(r, rels, key) ==
    rels[key].kind = "view" =>
      \A base \in Bases(rels, rels[key]) : \A src \in r[base].fks :
        MapColumns(rels[key], base, src.cols) # <<>> => HasProjectedFK(r[key], src, base)

\* A view that has everything gains nothing.
LEMMA ClosedGainsNothing ==
    ASSUME NEW rels, Catalog(rels), NEW r, Grown(r, rels), NEW key \in DOMAIN rels, Closed(r, rels, key)
    PROVE  ProjectOneView(r, key) = r
<1>1. PICK q : q = ProjectOneView(r, key)
  OBVIOUS
<1>2. /\ q = [x \in DOMAIN rels |-> q[x]]
      /\ \A x \in DOMAIN rels : x # key => q[x] = r[x]
      /\ q[key] = [rels[key] EXCEPT !.fks = q[key].fks]
      /\ rels[key].kind # "view" => q = r
      /\ rels[key].kind = "view" => q[key].fks = r[key].fks \cup GainOf(r, rels, key)
  BY <1>1, OneView
<1>3. CASE rels[key].kind = "view"
  <2>0. Offered(r, rels, key) = {}
    BY <1>3 DEF Closed, Offered
  <2>1. GainOf(r, rels, key) = {}
    BY <2>0, TakenOnce DEF GainOf
  <2>2. q[key].fks = r[key].fks
    BY <1>2, <1>3, <2>1
  <2>3. r = [x \in DOMAIN rels |-> r[x]] /\ r[key] = [rels[key] EXCEPT !.fks = r[key].fks]
    BY DEF Grown
  <2>4. q[key] = r[key]
    BY <1>2, <2>2, <2>3
  <2>5. \A x \in DOMAIN rels : q[x] = r[x]
    BY <1>2, <2>4
  <2>6. [x \in DOMAIN rels |-> q[x]] = [x \in DOMAIN rels |-> r[x]]
    BY <2>5
  <2> QED
    BY <1>1, <1>2, <2>3, <2>6
<1> QED
  BY <1>1, <1>2, <1>3

\* The depth of a view is above that of its bases.
Layered(rels, depth) ==
    /\ depth \in [DOMAIN rels -> Nat]
    /\ \A key \in DOMAIN rels : rels[key].kind = "view" =>
         \A base \in Bases(rels, rels[key]) : depth[base] < depth[key]

\* After its step a view has everything.
LEMMA OneViewCloses ==
    ASSUME NEW rels, Catalog(rels), NEW r, Grown(r, rels), NEW key \in DOMAIN rels,
           NEW depth, Layered(rels, depth)
    PROVE  Closed(ProjectOneView(r, key), rels, key)
<1>1. PICK q : q = ProjectOneView(r, key)
  OBVIOUS
<1>2. /\ q = [x \in DOMAIN rels |-> q[x]]
      /\ \A x \in DOMAIN rels : x # key => q[x] = r[x]
      /\ q[key] = [rels[key] EXCEPT !.fks = q[key].fks]
      /\ rels[key].kind # "view" => q = r
      /\ rels[key].kind = "view" => q[key].fks = r[key].fks \cup GainOf(r, rels, key)
  BY <1>1, OneView
<1>3. ASSUME rels[key].kind = "view", NEW base \in Bases(rels, rels[key]), NEW src \in q[base].fks,
             MapColumns(rels[key], base, src.cols) # <<>>
      PROVE  HasProjectedFK(q[key], src, base)
  <2>1. base \in DOMAIN rels /\ base # key
    BY <1>3 DEF Layered, Bases
  <2>2. src \in r[base].fks
    BY <1>2, <2>1
  <2>3. CASE HasProjectedFK(r[key], src, base)
    BY <1>2, <1>3, <2>3 DEF HasProjectedFK
  <2>4. CASE ~HasProjectedFK(r[key], src, base)
    <3>1. PICK own : own = ImageOf(rels[key], base, src)
      OBVIOUS
    <3>2. own \in Offered(r, rels, key)
      BY <1>3, <2>2, <2>4, <3>1 DEF Offered
    <3>3. IsKey(src)
      BY <2>1, <2>2 DEF Grown
    <3>4. own.name = src.name /\ own.source = base[2]
      BY <3>1, <3>3, ImageFields
    <3>5. PICK taken \in GainOf(r, rels, key) : taken.name = own.name /\ taken.source = own.source
      BY <3>2, TakenOnce DEF GainOf
    <3> QED
      BY <1>2, <1>3, <3>4, <3>5 DEF HasProjectedFK
  <2> QED
    BY <2>3, <2>4
<1> QED
  BY <1>1, <1>3 DEF Closed

\* A step leaves complete what is complete and not above the view, and
\* everything that is complete when the view is complete too.
LEMMA OneViewKeepsClosed ==
    ASSUME NEW rels, Catalog(rels), NEW r, Grown(r, rels), NEW key \in DOMAIN rels,
           NEW depth, Layered(rels, depth), NEW x \in DOMAIN rels, Closed(r, rels, x),
           depth[x] <= depth[key] \/ Closed(r, rels, key)
    PROVE  Closed(ProjectOneView(r, key), rels, x)
<1>1. CASE Closed(r, rels, key)
  BY <1>1, ClosedGainsNothing
<1>2. CASE depth[x] <= depth[key]
  <2>1. CASE x = key
    BY <2>1, OneViewCloses
  <2>2. CASE x # key
    <3>1. PICK q : q = ProjectOneView(r, key)
      OBVIOUS
    <3>2. /\ q = [y \in DOMAIN rels |-> q[y]]
          /\ \A y \in DOMAIN rels : y # key => q[y] = r[y]
          /\ q[key] = [rels[key] EXCEPT !.fks = q[key].fks]
          /\ rels[key].kind # "view" => q = r
          /\ rels[key].kind = "view" => q[key].fks = r[key].fks \cup GainOf(r, rels, key)
      BY <3>1, OneView
    <3>3. ASSUME rels[x].kind = "view", NEW base \in Bases(rels, rels[x]) PROVE base \in DOMAIN rels /\ base # key
      <4>1. base \in DOMAIN rels /\ depth[base] < depth[x]
        BY <3>3 DEF Layered, Bases
      <4>2. depth[base] \in Nat /\ depth[x] \in Nat /\ depth[key] \in Nat
        BY <4>1 DEF Layered
      <4> QED
        BY <1>2, <4>1, <4>2
    <3>4. Closed(q, rels, x)
      BY <2>2, <3>2, <3>3 DEF Closed
    <3> QED
      BY <3>1, <3>4
  <2> QED
    BY <2>1, <2>2
<1> QED
  BY <1>1, <1>2

\* All relations up to a depth have every key that their bases have.
ClosedTo(r, rels, depth, d) == \A x \in DOMAIN rels : depth[x] <= d => Closed(r, rels, x)

\* A pass completes the views of the next depth.
LEMMA PassCloses ==
    ASSUME NEW rels, Catalog(rels), NEW r, Grown(r, rels), NEW depth, Layered(rels, depth),
           NEW order \in Seq(DOMAIN rels), DOMAIN rels = ElementsOf(order),
           NEW d \in Nat, ClosedTo(r, rels, depth, d)
    PROVE  Grown(ProjectInOrder(r, order), rels) /\ ClosedTo(ProjectInOrder(r, order), rels, depth, d + 1)
<1>0. Len(order) \in Nat /\ DOMAIN order = 1 .. Len(order) /\ \A n \in 1 .. Len(order) : order[n] \in DOMAIN rels
  BY LenProperties, ElementOfSeq
<1>1. PICK f : /\ f[0] = r
               /\ \A n \in 1 .. Len(order) : f[n] = ProjectOneView(f[n - 1], order[n])
               /\ ProjectInOrder(r, order) = f[Len(order)]
  BY <1>0, PassUnfolds
<1> DEFINE Good(n) == /\ Grown(f[n], rels) /\ ClosedTo(f[n], rels, depth, d)
                      /\ \A j \in 1 .. n : depth[order[j]] <= d + 1 => Closed(f[n], rels, order[j])
           Bad == {n \in Nat : n <= Len(order) /\ ~Good(n)}
<1>2. Good(0)
  BY <1>1
<1>3. ASSUME NEW n \in 1 .. Len(order), Good(n - 1) PROVE Good(n)
  <2>1. PICK q, key : q = f[n - 1] /\ key = order[n]
    OBVIOUS
  <2>2. f[n] = ProjectOneView(q, key) /\ key \in DOMAIN rels
    BY <1>0, <1>1, <2>1
  <2>3. Grown(q, rels) /\ ClosedTo(q, rels, depth, d)
    BY <1>3, <2>1
  <2>4. Grown(f[n], rels)
    BY <2>2, <2>3, OneViewGrows
  <2>5. ASSUME NEW x \in DOMAIN rels, depth[x] <= d + 1, Closed(q, rels, x)
        PROVE  Closed(f[n], rels, x)
    <3>1. depth[x] <= depth[key] \/ Closed(q, rels, key)
      <4>1. depth[x] \in Nat /\ depth[key] \in Nat
        BY <2>2 DEF Layered
      <4>2. CASE depth[key] <= d
        BY <2>2, <2>3, <4>2 DEF ClosedTo
      <4>3. CASE ~(depth[key] <= d)
        BY <2>5, <4>1, <4>3
      <4> QED
        BY <4>2, <4>3
    <3> QED
      BY <2>2, <2>3, <2>5, <3>1, OneViewKeepsClosed
  <2>6. ClosedTo(f[n], rels, depth, d)
    <3>1. ASSUME NEW x \in DOMAIN rels, depth[x] <= d PROVE Closed(f[n], rels, x)
      <4>1. Closed(q, rels, x)
        BY <2>3, <3>1 DEF ClosedTo
      <4>2. depth[x] <= d + 1
        BY <3>1 DEF Layered
      <4> QED
        BY <2>5, <4>1, <4>2
    <3> QED
      BY <3>1 DEF ClosedTo
  <2>7. ASSUME NEW j \in 1 .. n, depth[order[j]] <= d + 1 PROVE Closed(f[n], rels, order[j])
    <3>1. order[j] \in DOMAIN rels
      BY <1>0
    <3>2. CASE j = n
      BY <2>1, <2>2, <2>3, <3>2, OneViewCloses
    <3>3. CASE j # n
      <4>1. j \in 1 .. n - 1
        BY <3>3
      <4>2. Closed(q, rels, order[j])
        BY <1>3, <2>1, <2>7, <4>1
      <4> QED
        BY <2>5, <2>7, <3>1, <4>2
    <3> QED
      BY <3>2, <3>3
  <2> QED
    BY <2>4, <2>6, <2>7
<1> HIDE DEF Good
<1>4. Bad = {}
  <2> SUFFICES ASSUME Bad # {} PROVE FALSE
    OBVIOUS
  <2>1. PICK m \in Bad : \A k \in Bad : m <= k
    <3> HIDE DEF Bad
    <3>1. Bad \in SUBSET Nat
      BY DEF Bad
    <3> QED
      BY <3>1, LeastNumber
  <2>2. m # 0
    BY <1>2, <2>1
  <2>3. m - 1 \in Nat /\ m - 1 <= Len(order) /\ m \in 1 .. Len(order) /\ ~(m <= m - 1)
    BY <1>0, <2>1, <2>2
  <2>4. Good(m - 1)
    BY <2>1, <2>3
  <2> QED
    BY <1>3, <2>1, <2>3, <2>4
<1>5. Good(Len(order))
  BY <1>0, <1>4
<1>6. ASSUME NEW x \in DOMAIN rels, depth[x] <= d + 1 PROVE Closed(f[Len(order)], rels, x)
  <2>1. PICK j \in 1 .. Len(order) : x = order[j]
    BY <1>0 DEF ElementsOf
  <2> QED
    BY <1>5, <1>6, <2>1 DEF Good
<1> QED
  BY <1>1, <1>5, <1>6 DEF Good, ClosedTo

\* After as many passes as there are relations every view is complete.
LEMMA PassesClose ==
    ASSUME NEW rels, Catalog(rels), NEW order \in Seq(DOMAIN rels), DOMAIN rels = ElementsOf(order),
           NEW depth \in [DOMAIN rels -> 0 .. Len(order)], Layered(rels, depth)
    PROVE  Grown(ProjectViews(rels, order), rels)
           /\ \A x \in DOMAIN rels : Closed(ProjectViews(rels, order), rels, x)
<1>0. Len(order) \in Nat
  BY LenProperties
<1>1. PICK f : /\ f[0] = rels
               /\ \A n \in 1 .. Len(order) : f[n] = ProjectInOrder(f[n - 1], order)
               /\ ProjectViews(rels, order) = f[Len(order)]
  BY <1>0, PassesUnfold
<1> DEFINE Good(n) == Grown(f[n], rels) /\ ClosedTo(f[n], rels, depth, n)
           Bad == {n \in Nat : n <= Len(order) /\ ~Good(n)}
<1>2. Good(0)
  <2>1. Grown(rels, rels)
    <3>1. ASSUME NEW key \in DOMAIN rels PROVE rels[key] = [rels[key] EXCEPT !.fks = rels[key].fks]
      BY DEF Catalog, IsRecord
    <3> QED
      BY <3>1 DEF Grown, Catalog
  <2>2. ASSUME NEW x \in DOMAIN rels, depth[x] <= 0 PROVE Closed(rels, rels, x)
    <3>1. ASSUME rels[x].kind = "view", NEW base \in Bases(rels, rels[x]) PROVE FALSE
      <4>1. base \in DOMAIN rels /\ depth[base] < depth[x]
        BY <3>1 DEF Layered, Bases
      <4>2. depth[base] \in Nat /\ depth[x] \in Nat
        BY <4>1 DEF Layered
      <4> QED
        BY <2>2, <4>1, <4>2
    <3> QED
      BY <3>1 DEF Closed
  <2> QED
    BY <1>1, <2>1, <2>2 DEF ClosedTo
<1>3. ASSUME NEW n \in 1 .. Len(order), Good(n - 1) PROVE Good(n)
  <2>1. PICK q, d : q = f[n - 1] /\ d = n - 1
    OBVIOUS
  <2>2. Grown(q, rels) /\ ClosedTo(q, rels, depth, d) /\ d \in Nat /\ d + 1 = n
    BY <1>0, <1>3, <2>1
  <2>3. Grown(ProjectInOrder(q, order), rels) /\ ClosedTo(ProjectInOrder(q, order), rels, depth, d + 1)
    BY <2>2, PassCloses
  <2> QED
    BY <1>1, <2>1, <2>2, <2>3
<1> HIDE DEF Good
<1>4. Bad = {}
  <2> SUFFICES ASSUME Bad # {} PROVE FALSE
    OBVIOUS
  <2>1. PICK m \in Bad : \A k \in Bad : m <= k
    <3> HIDE DEF Bad
    <3>1. Bad \in SUBSET Nat
      BY DEF Bad
    <3> QED
      BY <3>1, LeastNumber
  <2>2. m # 0
    BY <1>2, <2>1
  <2>3. m - 1 \in Nat /\ m - 1 <= Len(order) /\ m \in 1 .. Len(order) /\ ~(m <= m - 1)
    BY <1>0, <2>1, <2>2
  <2>4. Good(m - 1)
    BY <2>1, <2>3
  <2> QED
    BY <1>3, <2>1, <2>3, <2>4
<1>5. Good(Len(order))
  BY <1>0, <1>4
<1>6. \A x \in DOMAIN rels : depth[x] <= Len(order)
  OBVIOUS
<1> QED
  BY <1>1, <1>5, <1>6 DEF Good, ClosedTo

\* What ViewsComplete says of the answer to a task.
LEMMA ViewsAnswer ==
    ASSUME NEW t \in ViewTasks, NEW key \in DOMAIN t.rels
    PROVE  InheritsExactly(t.rels, NewModel(t.rels, t.order, {}).rels, key)
<1>0. PICK r, old, v : r = NewModel(t.rels, t.order, {}).rels /\ old = t.rels[key] /\ v = r[key]
  OBVIOUS
<1>1. /\ Catalog(t.rels) /\ t.order \in Seq(DOMAIN t.rels) /\ DOMAIN t.rels = ElementsOf(t.order)
      /\ t.depth \in [DOMAIN t.rels -> 0 .. Len(t.order)]
      /\ \A x \in DOMAIN t.rels : t.rels[x].kind = "view" =>
           \A base \in Bases(t.rels, t.rels[x]) : t.depth[base] < t.depth[x]
  BY ViewAssumption DEF Catalog, IsKey
<1>2. Layered(t.rels, t.depth)
  <2>1. Len(t.order) \in Nat
    BY <1>1, LenProperties
  <2>2. t.depth \in [DOMAIN t.rels -> Nat]
    BY <1>1, <2>1
  <2> QED
    BY <1>1, <2>2 DEF Layered
<1>3. r = ProjectViews(t.rels, t.order)
  BY <1>0 DEF NewModel
<1>4. Grown(r, t.rels) /\ Closed(r, t.rels, key)
  BY <1>1, <1>2, <1>3, PassesClose
<1>5. v.kind = old.kind /\ v.viewCols = old.viewCols
  BY <1>0, <1>1, <1>4, GrownFields
<1>6. /\ v = [old EXCEPT !.fks = v.fks] /\ old.fks \subseteq v.fks
      /\ old.kind # "view" => v = old
      /\ \A fk \in v.fks \ old.fks : Gained(r, t.rels, key, fk)
  BY <1>0, <1>4 DEF Grown
<1>7. \A base : /\ \A cols : MapColumns(v, base, cols) = MapColumns(old, base, cols)
                /\ \A fk : ImageOf(v, base, fk) = ImageOf(old, base, fk)
  BY <1>5, ColumnsOfView
<1>8. \A fk \in v.fks \ old.fks : \E base \in Bases(t.rels, old) :
        \E src \in r[base].fks : fk = ImageOf(v, base, src) /\ fk.cols # <<>>
  BY <1>0, <1>6, <1>7 DEF Gained
<1>9. v.kind = "view" =>
        \A base \in Bases(t.rels, old) : \A src \in r[base].fks :
          MapColumns(v, base, src.cols) # <<>> => HasProjectedFK(v, src, base)
  BY <1>0, <1>4, <1>5, <1>7 DEF Closed
<1>10. v.kind # "view" => v = old
  BY <1>5, <1>6
<1>11. old = t.rels[key] /\ v = r[key]
  BY <1>0
<1>12. InheritsExactly(t.rels, r, key)
  BY <1>6, <1>8, <1>9, <1>10, <1>11 DEF InheritsExactly
<1> QED
  BY <1>0, <1>12

\* Edges between relations mean what they render, for every catalog whose foreign
\* keys refer to keys and whose views select from earlier relations: an edge to one
\* row leads to one row, both directions have the same joins, declared edges win,
\* and views have exactly the keys of what they show (Relationships,
\* projectViews).
THEOREM EdgesAreSound == DecideSpec => []EdgesSound
<1>1. ASSUME AnswerInv PROVE EdgesSound
  <2>1. Answered("edges") => task \in EdgeTasks /\ out[1] = Relationships(task.model, task.from, task.to)
    BY <1>1, KindOfTask DEF AnswerInv, Answered
  <2>2. Answered("views") => task \in ViewTasks /\ out[1] = NewModel(task.rels, task.order, {}).rels
    BY <1>1, KindOfTask DEF AnswerInv, Answered
  <2>3. ToOneIsSingle
    <3> SUFFICES ASSUME Answered("edges"), NEW e \in out[1], e.card = "one", Derived(task, e),
                        NEW agree \in SUBSET DOMAIN task.model.rels[task.to].cols,
                        Lawful(task.model.rels[task.to], agree)
                 PROVE  ~(ElementsOf(e.foreign) \subseteq agree)
      BY DEF ToOneIsSingle
    <3> QED
      BY <2>1, SingleAnswer
  <2>4. EdgesMirror
    BY <2>1, MirrorAnswer DEF EdgesMirror
  <2>5. DeclaredWins
    <3> SUFFICES ASSUME Answered("edges"), NEW d \in task.model.declared,
                        Declares(task.model, d, task.from, task.to), d.name # "", NEW rivals,
                        rivals = {e \in out[1] : d.name \in e.hints /\ e # DeclaredEdge(d)}
                 PROVE  /\ \A e \in rivals : e.name = d.name => e \in Promised(task.model, task.from, task.to)
                        /\ rivals = {} => ResolveOne(task.model, task.from, task.to[2], d.name, task.path)
                                            = Found(DeclaredEdge(d))
      BY DEF DeclaredWins
    <3> QED
      BY <2>1, DeclaredAnswer
  <2>6. ViewsComplete
    BY <2>2, ViewsAnswer DEF ViewsComplete
  <2> QED
    BY <2>3, <2>4, <2>5, <2>6 DEF EdgesSound
<1> QED
  BY <1>1, AnswersInvariant, PTL

-----------------------------------------------------------------------------
(***************************************************************************)
(* Calls.                                                                  *)
(***************************************************************************)

\* The loop over the registry is well defined.
LEMMA RankUnfolds ==
    ASSUME NEW reg, NEW name, NEW args, Len(reg) \in Nat
    PROVE  \E f : /\ f[0] = [score |-> -1, tied |-> {}]
                  /\ \A n \in 1 .. Len(reg) : f[n] = IF Candidate(reg[n], name, args)
                               THEN Better(f[n - 1], n, Score(reg[n], args)) ELSE f[n - 1]
                  /\ Rank(reg, name, args) = f[Len(reg)]
<1> DEFINE len == Len(reg)
           Round(x, n) == IF Candidate(reg[n], name, args)
                               THEN Better(x, n, Score(reg[n], args)) ELSE x
           Loop(f, m) == [n \in 0 .. m |-> IF n = 0 THEN [score |-> -1, tied |-> {}] ELSE Round(f[n - 1], n)]
           Bad == {m \in Nat : m <= len /\ ~ \E f : f = Loop(f, m)}
           g == CHOOSE f : f = Loop(f, len)
<1>1. Rank(reg, name, args) = g[len]
  BY DEF Rank
<1>2. len \in Nat
  OBVIOUS
<1> HIDE DEF len, Round, g
<1>3. Bad = {}
  <2> SUFFICES ASSUME Bad # {} PROVE FALSE
    OBVIOUS
  <2>1. PICK m \in Bad : \A k \in Bad : m <= k
    <3> HIDE DEF Bad
    <3>1. Bad \in SUBSET Nat
      BY DEF Bad
    <3> QED
      BY <3>1, LeastNumber
  <2>2. CASE m = 0
    <3>1. PICK f : f = [n \in 0 .. 0 |-> [score |-> -1, tied |-> {}]]
      OBVIOUS
    <3>2. f = Loop(f, 0)
      BY <3>1
    <3> QED
      BY <2>1, <2>2, <3>2
  <2>3. CASE m # 0
    <3>1. m - 1 \in Nat /\ m - 1 <= len /\ m \in Nat /\ m >= 1 /\ ~(m <= m - 1)
      BY <1>2, <2>1, <2>3
    <3>2. PICK f : f = Loop(f, m - 1)
      BY <2>1, <3>1
    <3>3. PICK h : h = [n \in 0 .. m |-> IF n = m THEN Round(f[m - 1], m) ELSE f[n]]
      OBVIOUS
    <3>4. ASSUME NEW n \in 0 .. m PROVE h[n] = IF n = 0 THEN [score |-> -1, tied |-> {}] ELSE Round(h[n - 1], n)
      <4>1. CASE n = 0
        <5>1. 0 \in 0 .. m - 1 /\ n # m
          BY <2>3, <3>1, <4>1
        <5> QED
          BY <3>2, <3>3, <4>1, <5>1
      <4>2. CASE n # 0
        <5>1. n - 1 \in 0 .. m /\ n - 1 # m
          BY <3>1, <4>2
        <5>2. h[n - 1] = f[n - 1]
          BY <3>3, <5>1
        <5>3. CASE n = m
          BY <3>3, <4>2, <5>2, <5>3
        <5>4. CASE n # m
          <6>1. n \in 0 .. m - 1
            BY <3>1, <5>4
          <6>2. f[n] = Round(f[n - 1], n)
            BY <3>2, <4>2, <6>1
          <6> QED
            BY <3>3, <4>2, <5>2, <5>4, <6>2
        <5> QED
          BY <5>3, <5>4
      <4> QED
        BY <4>1, <4>2
    <3>5. h = Loop(h, m)
      BY <3>3, <3>4
    <3> QED
      BY <2>1, <3>5
  <2> QED
    BY <2>2, <2>3
<1>4. g = Loop(g, len)
  <2> HIDE DEF Loop
  <2>1. \E f : f = Loop(f, len)
    BY <1>2, <1>3
  <2> QED
    BY <2>1, Zenon DEF g
<1>5. \A n \in 0 .. len : g[n] = IF n = 0 THEN [score |-> -1, tied |-> {}] ELSE Round(g[n - 1], n)
  <2> DEFINE E(n) == IF n = 0 THEN [score |-> -1, tied |-> {}] ELSE Round(g[n - 1], n)
  <2>1. g = [n \in 0 .. len |-> E(n)]
    BY <1>4
  <2> HIDE DEF E
  <2>2. \A n \in 0 .. len : g[n] = E(n)
    BY <2>1
  <2> QED
    BY <2>2 DEF E
<1>6. g[0] = [score |-> -1, tied |-> {}]
  BY <1>2, <1>5
<1>7. ASSUME NEW n \in 1 .. len PROVE g[n] = Round(g[n - 1], n)
  <2>1. n \in 0 .. len /\ n # 0
    BY <1>2
  <2> QED
    BY <1>5, <2>1
<1> QED
  BY <1>1, <1>6, <1>7 DEF len, Round


\* A function has as many parameter names as parameters, fewer than the bonus, and
\* no more required ones.
LEMMA CountNames ==
    ASSUME NEW f, IsFunction(f)
    PROVE  /\ Len(f.params) \in Nat /\ Len(f.params) < ExactBonus
           /\ IsFiniteSet(ParamNames(f)) /\ Cardinality(ParamNames(f)) = Len(f.params)
           /\ Cardinality(Required(f)) \in 0 .. Len(f.params)
<1>1. PICK s : s = f.params
  OBVIOUS
<1>2. Len(s) \in Nat /\ DOMAIN s = 1 .. Len(s) /\ Len(s) < ExactBonus
  BY <1>1, LenProperties DEF IsFunction, IsSequence
<1>3. PICK N : N = ParamNames(f)
  OBVIOUS
<1>4. ExistsBijection(1 .. Len(s), N)
  <2>1. PICK g : g = [k \in 1 .. Len(s) |-> s[k].name]
    OBVIOUS
  <2>2. N = {s[k].name : k \in 1 .. Len(s)}
    BY <1>1, <1>2, <1>3 DEF ParamNames
  <2>3. \A i, j \in 1 .. Len(s) : s[i].name = s[j].name => i = j
    BY <1>1, <1>2 DEF IsFunction
  <2>4. g \in [1 .. Len(s) -> N]
    BY <2>1, <2>2
  <2>5. g \in Injection(1 .. Len(s), N)
    BY <2>1, <2>3, <2>4 DEF Injection, IsInjective
  <2>6. g \in Surjection(1 .. Len(s), N)
    BY <2>1, <2>2, <2>4 DEF Surjection
  <2> QED
    BY <2>5, <2>6 DEF ExistsBijection, Bijection
<1>5. IsFiniteSet(1 .. Len(s)) /\ Cardinality(1 .. Len(s)) = Len(s)
  <2>1. PICK n \in Nat : n = Len(s)
    BY <1>2
  <2>2. IsFiniteSet(1 .. n) /\ Cardinality(1 .. n) = IF 1 > n THEN 0 ELSE n - 1 + 1
    BY FS_Interval
  <2> QED
    BY <2>1, <2>2
<1>6. IsFiniteSet(N) /\ Cardinality(N) = Len(s)
  BY <1>4, <1>5, FS_Bijection
<1>7. Required(f) \in SUBSET N
  BY <1>3 DEF Required, ParamNames
<1>8. IsFiniteSet(Required(f)) /\ Cardinality(Required(f)) <= Len(s)
  BY <1>6, <1>7, FS_Subset
<1>9. Cardinality(Required(f)) \in Nat
  BY <1>8, FS_CardinalityType
<1> QED
  BY <1>1, <1>2, <1>3, <1>6, <1>8, <1>9

\* On arguments that a function can take, an exact match names all its parameters,
\* and the score puts exact matches above the others.
LEMMA ScoreMeans ==
    ASSUME NEW f, IsFunction(f), NEW args, IsFiniteSet(args), args \subseteq ParamNames(f)
    PROVE  /\ ExactMatch(f, args) <=> ParamNames(f) = args
           /\ Cardinality(Required(f)) \in 0 .. ExactBonus - 1
           /\ Score(f, args) = Cardinality(Required(f)) + (IF ParamNames(f) = args THEN ExactBonus ELSE 0)
           /\ Score(f, args) \in Nat
<1>1. /\ Len(f.params) \in Nat /\ Len(f.params) < ExactBonus
      /\ IsFiniteSet(ParamNames(f)) /\ Cardinality(ParamNames(f)) = Len(f.params)
      /\ Cardinality(Required(f)) \in 0 .. Len(f.params)
  BY CountNames
<1>2. ExactMatch(f, args) <=> ParamNames(f) = args
  <2>1. PICK N, len : N = ParamNames(f) /\ len = Len(f.params)
    OBVIOUS
  <2>2. ExactMatch(f, args) <=> Cardinality(args) = len /\ N \subseteq args
    BY <2>1 DEF ExactMatch
  <2>3. Cardinality(N) = len /\ args \subseteq N
    BY <1>1, <2>1
  <2>4. N = args => ExactMatch(f, args)
    BY <2>2, <2>3
  <2>5. ExactMatch(f, args) => N = args
    BY <2>2, <2>3
  <2> QED
    BY <2>1, <2>4, <2>5
<1>3. Cardinality(Required(f)) \in 0 .. ExactBonus - 1
  <2>1. PICK c, n : c = Cardinality(Required(f)) /\ n = Len(f.params)
    OBVIOUS
  <2>2. n \in Nat /\ n < 1000 /\ c \in 0 .. n
    BY <1>1, <2>1 DEF ExactBonus
  <2>3. c \in 0 .. 999
    BY <2>2
  <2> QED
    BY <2>1, <2>3 DEF ExactBonus
<1>4. Score(f, args) = Cardinality(Required(f)) + (IF ParamNames(f) = args THEN ExactBonus ELSE 0)
  <2>1. CASE ParamNames(f) = args
    BY <1>2, <2>1, Zenon DEF Score
  <2>2. CASE ParamNames(f) # args
    BY <1>2, <2>2, Zenon DEF Score
  <2> QED
    BY <2>1, <2>2
<1>5. Score(f, args) \in Nat
  <2>1. PICK c, s : c = Cardinality(Required(f)) /\ s = Score(f, args)
    OBVIOUS
  <2>2. c \in 0 .. 999
    BY <1>3, <2>1 DEF ExactBonus
  <2>3. s = c + 1000 \/ s = c + 0
    BY <1>4, <2>1 DEF ExactBonus
  <2> QED
    BY <2>1, <2>2, <2>3
<1> QED
  BY <1>2, <1>3, <1>4, <1>5

\* After n rounds the loop holds the best score of the first n functions and the
\* positions of the functions that have it.
Ranked(b, reg, name, args, n) ==
    /\ b.score \in Int /\ b.score >= -1 /\ b = [score |-> b.score, tied |-> b.tied]
    /\ b.tied = {k \in 1 .. n : Candidate(reg[k], name, args) /\ Score(reg[k], args) = b.score}
    /\ \A k \in 1 .. n : Candidate(reg[k], name, args) => Score(reg[k], args) <= b.score
    /\ b.score = -1 \/ b.tied # {}

\* One round keeps that.
LEMMA RankedRound ==
    ASSUME NEW reg, NEW name, NEW args, NEW n \in Nat, n >= 1, NEW b, Ranked(b, reg, name, args, n - 1),
           \A k \in 1 .. n : Candidate(reg[k], name, args) => Score(reg[k], args) \in Nat
    PROVE  Ranked(IF Candidate(reg[n], name, args) THEN Better(b, n, Score(reg[n], args)) ELSE b,
                  reg, name, args, n)
<1> DEFINE C(k) == Candidate(reg[k], name, args)
           S(k) == Score(reg[k], args)
<1>1. /\ b.score \in Int /\ b.score >= -1 /\ b = [score |-> b.score, tied |-> b.tied]
      /\ b.tied = {k \in 1 .. n - 1 : C(k) /\ S(k) = b.score}
      /\ \A k \in 1 .. n - 1 : C(k) => S(k) <= b.score
      /\ b.score = -1 \/ b.tied # {}
  BY DEF Ranked
<1>2. \A k \in 1 .. n : C(k) => S(k) \in Nat
  OBVIOUS
<1>3. /\ \A k \in 1 .. n : k \in 1 .. n - 1 \/ k = n
      /\ \A k \in 1 .. n - 1 : k \in 1 .. n /\ k # n
      /\ n \in 1 .. n
  OBVIOUS
<1>4. PICK q : q = IF C(n) THEN Better(b, n, S(n)) ELSE b
  OBVIOUS
<1> HIDE DEF C, S
<1>5. /\ q.score \in Int /\ q.score >= -1 /\ q = [score |-> q.score, tied |-> q.tied]
      /\ q.tied = {k \in 1 .. n : C(k) /\ S(k) = q.score}
      /\ \A k \in 1 .. n : C(k) => S(k) <= q.score
      /\ q.score = -1 \/ q.tied # {}
  <2>1. CASE ~C(n)
    BY <1>1, <1>3, <1>4, <2>1
  <2>2. CASE C(n) /\ S(n) > b.score
    <3>2. S(n) \in Nat /\ S(n) # b.score
      BY <1>1, <1>2, <1>3, <2>2
    <3>1. q = [score |-> S(n), tied |-> {n}]
      BY <1>4, <2>2, <3>2 DEF Better
    <3>3. q.score = S(n) /\ q.tied = {n}
      BY <3>1
    <3>4. \A k \in 1 .. n - 1 : C(k) => S(k) < S(n)
      BY <1>1, <1>2, <1>3, <2>2, <3>2
    <3> QED
      BY <1>2, <1>3, <2>2, <3>1, <3>2, <3>3, <3>4
  <2>3. CASE C(n) /\ S(n) = b.score
    <3>1. S(n) \in Nat /\ ~(S(n) > b.score)
      BY <1>2, <1>3, <2>3
    <3>2. q = [b EXCEPT !.tied = b.tied \cup {n}]
      BY <1>4, <2>3, <3>1 DEF Better
    <3>3. q.score = b.score /\ q.tied = b.tied \cup {n} /\ q = [score |-> q.score, tied |-> q.tied]
      BY <1>1, <3>2
    <3> QED
      BY <1>1, <1>3, <2>3, <3>1, <3>3
  <2>4. CASE C(n) /\ S(n) < b.score
    <3>1. S(n) \in Nat /\ ~(S(n) > b.score) /\ S(n) # b.score
      BY <1>1, <1>2, <1>3, <2>4
    <3>2. q = b
      BY <1>4, <2>4, <3>1 DEF Better
    <3> QED
      BY <1>1, <1>3, <2>4, <3>1, <3>2
  <2>5. C(n) => S(n) > b.score \/ S(n) = b.score \/ S(n) < b.score
    BY <1>1, <1>2, <1>3
  <2> QED
    BY <2>1, <2>2, <2>3, <2>4, <2>5
<1> QED
  BY <1>4, <1>5 DEF Ranked, C, S

\* The loop ends with the positions of the best score of the registry.
LEMMA RankMeans ==
    ASSUME NEW reg, Len(reg) \in Nat, NEW name, NEW args,
           \A k \in 1 .. Len(reg) : Candidate(reg[k], name, args) => Score(reg[k], args) \in Nat
    PROVE  Ranked(Rank(reg, name, args), reg, name, args, Len(reg))
<1>1. PICK f : /\ f[0] = [score |-> -1, tied |-> {}]
               /\ \A n \in 1 .. Len(reg) :
                    f[n] = IF Candidate(reg[n], name, args)
                           THEN Better(f[n - 1], n, Score(reg[n], args)) ELSE f[n - 1]
               /\ Rank(reg, name, args) = f[Len(reg)]
  BY RankUnfolds
<1> DEFINE Good(n) == Ranked(f[n], reg, name, args, n)
           Bad == {n \in Nat : n <= Len(reg) /\ ~Good(n)}
<1>2. Good(0)
  BY <1>1 DEF Ranked
<1>3. ASSUME NEW n \in 1 .. Len(reg), Good(n - 1) PROVE Good(n)
  <2>1. n \in Nat /\ n >= 1 /\ \A k \in 1 .. n : k \in 1 .. Len(reg)
    OBVIOUS
  <2>2. PICK b : b = f[n - 1]
    OBVIOUS
  <2>3. Ranked(b, reg, name, args, n - 1)
    BY <1>3, <2>2
  <2>4. Ranked(IF Candidate(reg[n], name, args) THEN Better(b, n, Score(reg[n], args)) ELSE b,
               reg, name, args, n)
    BY <2>1, <2>3, RankedRound
  <2> QED
    BY <1>1, <2>2, <2>4
<1> HIDE DEF Good
<1>4. Bad = {}
  <2> SUFFICES ASSUME Bad # {} PROVE FALSE
    OBVIOUS
  <2>1. PICK m \in Bad : \A k \in Bad : m <= k
    <3> HIDE DEF Bad
    <3>1. Bad \in SUBSET Nat
      BY DEF Bad
    <3> QED
      BY <3>1, LeastNumber
  <2>2. m # 0
    BY <1>2, <2>1
  <2>3. m - 1 \in Nat /\ m - 1 <= Len(reg) /\ m \in 1 .. Len(reg) /\ ~(m <= m - 1)
    BY <2>1, <2>2
  <2>4. Good(m - 1)
    BY <2>1, <2>3
  <2> QED
    BY <1>3, <2>1, <2>3, <2>4
<1>5. Good(Len(reg))
  BY <1>4
<1> QED
  BY <1>1, <1>5 DEF Good

\* The positions of the best score are those of the best fit.
LEMMA TiedAreBest ==
    ASSUME NEW t \in OverloadTasks
    PROVE  Rank(t.reg, t.name, t.args).tied = BestFit(t) /\ IsFiniteSet(BestFit(t))
<1>1. /\ IsSequence(t.reg) /\ IsFiniteSet(t.args) /\ \A k \in DOMAIN t.reg : IsFunction(t.reg[k])
  BY OverloadAssumption
<1>2. Len(t.reg) \in Nat /\ DOMAIN t.reg = 1 .. Len(t.reg)
  BY <1>1, LenProperties DEF IsSequence
<1>3. \A k \in DOMAIN t.reg : Candidate(t.reg[k], t.name, t.args) <=> k \in Fitting(t)
  BY DEF Candidate, Satisfiable, Fitting
<1>4. PICK req : req = [k \in DOMAIN t.reg |-> Cardinality(Required(t.reg[k]))]
  OBVIOUS
<1>5. PICK S : S = [k \in DOMAIN t.reg |-> Score(t.reg[k], t.args)]
  OBVIOUS
<1>6. PICK fit, exact : fit = Fitting(t) /\ exact = Exactly(t)
  OBVIOUS
<1>7. ASSUME NEW k \in fit
      PROVE  /\ k \in DOMAIN t.reg /\ req[k] \in 0 .. 999 /\ S[k] \in Nat
             /\ S[k] = req[k] + (IF k \in exact THEN 1000 ELSE 0)
  <2>1. k \in DOMAIN t.reg /\ t.args \subseteq ParamNames(t.reg[k])
    BY <1>6 DEF Fitting
  <2>2. k \in exact <=> ParamNames(t.reg[k]) = t.args
    BY <1>6 DEF Exactly
  <2>3. PICK f : f = t.reg[k]
    OBVIOUS
  <2>4. /\ Cardinality(Required(f)) \in 0 .. ExactBonus - 1
        /\ Score(f, t.args) = Cardinality(Required(f)) + (IF ParamNames(f) = t.args THEN ExactBonus ELSE 0)
        /\ Score(f, t.args) \in Nat
    BY <1>1, <2>1, <2>3, ScoreMeans
  <2>5. req[k] = Cardinality(Required(f)) /\ S[k] = Score(f, t.args)
    BY <1>4, <1>5, <2>1, <2>3
  <2>6. ExactBonus = 1000
    BY DEF ExactBonus
  <2>7. S[k] = req[k] + (IF k \in exact THEN 1000 ELSE 0)
    BY <2>2, <2>3, <2>4, <2>5, <2>6
  <2>8. req[k] \in 0 .. 999
    BY <2>4, <2>5, <2>6
  <2> QED
    BY <2>1, <2>4, <2>5, <2>7, <2>8
<1>8. PICK b : b = Rank(t.reg, t.name, t.args)
  OBVIOUS
<1>9. \A k \in 1 .. Len(t.reg) : Candidate(t.reg[k], t.name, t.args) => Score(t.reg[k], t.args) \in Nat
  <2>1. SUFFICES ASSUME NEW k \in 1 .. Len(t.reg), Candidate(t.reg[k], t.name, t.args)
                 PROVE  Score(t.reg[k], t.args) \in Nat
    OBVIOUS
  <2>2. k \in fit
    BY <1>2, <1>3, <1>6, <2>1
  <2>3. S[k] \in Nat /\ k \in DOMAIN t.reg
    BY <1>7, <2>2
  <2> QED
    BY <1>5, <2>3
<1>10. Ranked(b, t.reg, t.name, t.args, Len(t.reg))
  BY <1>2, <1>8, <1>9, RankMeans
<1>11. /\ b.score \in Int /\ b.tied = {k \in fit : S[k] = b.score}
       /\ \A k \in fit : S[k] <= b.score
       /\ b.score = -1 \/ b.tied # {}
  <2>1. fit \subseteq DOMAIN t.reg
    BY <1>7
  <2> QED
    BY <1>2, <1>3, <1>5, <1>6, <1>10, <2>1 DEF Ranked
<1>12. b.tied = {k \in fit : \A j \in fit : S[j] <= S[k]}
  <2>1. ASSUME NEW k \in fit, S[k] = b.score PROVE \A j \in fit : S[j] <= S[k]
    BY <1>11, <2>1
  <2>2. ASSUME NEW k \in fit, \A j \in fit : S[j] <= S[k] PROVE S[k] = b.score
    <3>1. S[k] \in Nat /\ S[k] <= b.score
      BY <1>7, <1>11
    <3>2. PICK x \in fit : S[x] = b.score
      BY <1>11, <3>1
    <3> QED
      BY <1>11, <2>2, <3>1, <3>2
  <2> QED
    BY <1>11, <2>1, <2>2
<1>13. exact \subseteq fit
  BY <1>6 DEF Exactly
<1>14. PICK pool : pool = IF exact # {} THEN exact ELSE fit
  OBVIOUS
<1>15. BestFit(t) = {k \in pool : \A j \in pool : req[j] <= req[k]}
  <2>1. pool = Pool(t)
    BY <1>6, <1>14, Zenon DEF Pool
  <2>2. pool \subseteq fit
    BY <1>13, <1>14
  <2>3. \A k \in pool : req[k] = Cardinality(Required(t.reg[k]))
    <3>1. \A k \in pool : k \in DOMAIN t.reg
      BY <1>7, <2>2
    <3> QED
      BY <1>4, <3>1
  <2>4. BestFit(t) = {k \in pool : \A j \in pool : Cardinality(Required(t.reg[j])) <= Cardinality(Required(t.reg[k]))}
    BY <2>1, Zenon DEF BestFit
  <2> QED
    BY <2>3, <2>4
<1>16. {k \in fit : \A j \in fit : S[j] <= S[k]} = {k \in pool : \A j \in pool : req[j] <= req[k]}
  <2>1. CASE exact = {}
    <3>1. ASSUME NEW k \in fit PROVE S[k] = req[k]
      <4>1. k \notin exact
        BY <2>1
      <4>2. req[k] \in 0 .. 999 /\ S[k] = req[k] + (IF k \in exact THEN 1000 ELSE 0)
        BY <1>7
      <4>3. PICK m \in 0 .. 999 : m = req[k]
        BY <4>2
      <4> QED
        BY <4>1, <4>2, <4>3
    <3>2. pool = fit
      BY <1>14, <2>1
    <3> QED
      BY <3>1, <3>2, Zenon
  <2>2. CASE exact # {}
    <3>1. ASSUME NEW k \in exact PROVE S[k] = req[k] + 1000 /\ req[k] \in 0 .. 999
      BY <1>7, <1>13
    <3>2. ASSUME NEW k \in fit, k \notin exact PROVE S[k] = req[k] /\ req[k] \in 0 .. 999
      BY <1>7, <3>2
    <3>3. ASSUME NEW k \in fit, k \notin exact PROVE ~ \A j \in fit : S[j] <= S[k]
      <4>1. PICK j \in exact : TRUE
        BY <2>2
      <4>2. S[j] = req[j] + 1000 /\ req[j] \in 0 .. 999 /\ S[k] = req[k] /\ req[k] \in 0 .. 999
        BY <3>1, <3>2, <3>3
      <4>3. PICK p, q, u, v : p = req[j] /\ q = req[k] /\ u = S[j] /\ v = S[k]
        OBVIOUS
      <4>4. p \in 0 .. 999 /\ q \in 0 .. 999 /\ u = p + 1000 /\ v = q
        BY <4>2, <4>3
      <4>5. ~(u <= v)
        BY <4>4
      <4> QED
        BY <1>13, <4>3, <4>5
    <3>4. ASSUME NEW k \in exact, NEW j \in fit, j \notin exact PROVE S[j] <= S[k]
      <4>1. S[k] = req[k] + 1000 /\ req[k] \in 0 .. 999 /\ S[j] = req[j] /\ req[j] \in 0 .. 999
        BY <3>1, <3>2, <3>4
      <4>3. PICK p, q, u, v : p = req[j] /\ q = req[k] /\ u = S[j] /\ v = S[k]
        OBVIOUS
      <4>4. p \in 0 .. 999 /\ q \in 0 .. 999 /\ u = p /\ v = q + 1000
        BY <4>1, <4>3
      <4>5. u <= v
        BY <4>4
      <4> QED
        BY <4>3, <4>5
    <3>5. ASSUME NEW k \in exact, NEW j \in exact PROVE S[j] <= S[k] <=> req[j] <= req[k]
      <4>1. S[k] = req[k] + 1000 /\ req[k] \in 0 .. 999 /\ S[j] = req[j] + 1000 /\ req[j] \in 0 .. 999
        BY <3>1
      <4>3. PICK p, q, u, v : p = req[j] /\ q = req[k] /\ u = S[j] /\ v = S[k]
        OBVIOUS
      <4>4. p \in 0 .. 999 /\ q \in 0 .. 999 /\ u = p + 1000 /\ v = q + 1000
        BY <4>1, <4>3
      <4>5. u <= v <=> p <= q
        BY <4>4
      <4> QED
        BY <4>3, <4>5
    <3> QED
      BY <1>13, <1>14, <2>2, <3>3, <3>4, <3>5
  <2> QED
    BY <2>1, <2>2
<1>17. IsFiniteSet(BestFit(t))
  <2>1. PICK n \in Nat : n = Len(t.reg)
    BY <1>2
  <2>2. IsFiniteSet(1 .. n)
    BY FS_Interval
  <2>3. BestFit(t) \in SUBSET (1 .. n)
    BY <1>2, <1>7, <1>13, <1>14, <1>15, <2>1
  <2> QED
    BY <2>2, <2>3, FS_Subset
<1> QED
  BY <1>8, <1>12, <1>15, <1>16, <1>17

\* What OverloadDecided says of the answer to a task.
LEMMA OverloadAnswer ==
    ASSUME NEW t \in OverloadTasks, NEW best, best = BestFit(t), NEW a, a = Resolve(t.reg, t.name, t.args)
    PROVE  /\ best = {} => a = NoFunction
           /\ \A k \in best : best = {k} => a = Chosen(t.reg[k])
           /\ \A j, k \in best : j # k => a = AmbiguousFunction({Signature(t.reg[i]) : i \in best})
<1>1. Rank(t.reg, t.name, t.args).tied = best /\ IsFiniteSet(best)
  BY TiedAreBest
<1>2. a = CASE best = {} -> NoFunction
            [] Cardinality(best) = 1 -> Chosen(t.reg[CHOOSE k \in best : TRUE])
            [] OTHER -> AmbiguousFunction({Signature(t.reg[k]) : k \in best})
  BY <1>1 DEF Resolve
<1>3. ASSUME best = {} PROVE a = NoFunction
  <2>1. Cardinality(best) = 0
    BY <1>3, FS_EmptySet
  <2> QED
    BY <1>2, <1>3, <2>1
<1>4. ASSUME NEW k \in best, best = {k} PROVE a = Chosen(t.reg[k])
  <2>1. Cardinality(best) = 1 /\ (CHOOSE i \in best : TRUE) = k
    BY <1>4, FS_Singleton
  <2> QED
    BY <1>2, <1>4, <2>1
<1>5. ASSUME NEW j \in best, NEW k \in best, j # k
      PROVE  a = AmbiguousFunction({Signature(t.reg[i]) : i \in best})
  <2>1. ~ \E x : best = {x}
    BY <1>5
  <2>2. Cardinality(best) # 1
    BY <1>1, <2>1, FS_Singleton
  <2> QED
    BY <1>2, <2>2
<1> QED
  BY <1>3, <1>4, <1>5

-----------------------------------------------------------------------------
(***************************************************************************)
(* Loops that collect into a list.                                         *)
(***************************************************************************)

\* The elements of a concatenation.
LEMMA ElementsOfConcat ==
    ASSUME NEW X, NEW s \in Seq(X), NEW r \in Seq(X)
    PROVE  s \o r \in Seq(X) /\ ElementsOf(s \o r) = ElementsOf(s) \cup ElementsOf(r)
<1>1. /\ s \o r \in Seq(X) /\ Len(s \o r) = Len(s) + Len(r)
      /\ \A i \in 1 .. Len(s) + Len(r) : (s \o r)[i] = IF i <= Len(s) THEN s[i] ELSE r[i - Len(s)]
  BY ConcatProperties
<1>2. Len(s) \in Nat /\ Len(r) \in Nat /\ DOMAIN s = 1 .. Len(s) /\ DOMAIN r = 1 .. Len(r)
      /\ DOMAIN (s \o r) = 1 .. Len(s) + Len(r)
  BY <1>1, LenProperties
<1>3. PICK q, m, n : q = s \o r /\ m = Len(s) /\ n = Len(r)
  OBVIOUS
<1>4. /\ m \in Nat /\ n \in Nat /\ DOMAIN s = 1 .. m /\ DOMAIN r = 1 .. n /\ DOMAIN q = 1 .. m + n
      /\ \A i \in 1 .. m + n : q[i] = IF i <= m THEN s[i] ELSE r[i - m]
  BY <1>1, <1>2, <1>3
<1>5. ASSUME NEW x \in ElementsOf(q) PROVE x \in ElementsOf(s) \cup ElementsOf(r)
  <2>1. PICK i \in 1 .. m + n : x = q[i]
    BY <1>4 DEF ElementsOf
  <2>2. CASE i <= m
    <3>1. i \in 1 .. m /\ x = s[i]
      BY <1>4, <2>1, <2>2
    <3> QED
      BY <1>4, <3>1 DEF ElementsOf
  <2>3. CASE ~(i <= m)
    <3>1. i - m \in 1 .. n /\ x = r[i - m]
      BY <1>4, <2>1, <2>3
    <3> QED
      BY <1>4, <3>1 DEF ElementsOf
  <2> QED
    BY <2>2, <2>3
<1>6. ASSUME NEW x \in ElementsOf(s) PROVE x \in ElementsOf(q)
  <2>1. PICK i \in 1 .. m : x = s[i]
    BY <1>4 DEF ElementsOf
  <2>2. i \in 1 .. m + n /\ i <= m
    BY <1>4
  <2>3. x = q[i]
    BY <1>4, <2>1, <2>2
  <2> QED
    BY <1>4, <2>2, <2>3 DEF ElementsOf
<1>7. ASSUME NEW x \in ElementsOf(r) PROVE x \in ElementsOf(q)
  <2>1. PICK i \in 1 .. n : x = r[i]
    BY <1>4 DEF ElementsOf
  <2>2. i + m \in 1 .. m + n /\ ~(i + m <= m) /\ (i + m) - m = i
    BY <1>4
  <2>3. x = q[i + m]
    BY <1>4, <2>1, <2>2
  <2> QED
    BY <1>4, <2>2, <2>3 DEF ElementsOf
<1> QED
  BY <1>1, <1>3, <1>5, <1>6, <1>7

\* The elements of the short lists.
LEMMA ElementsOfShort ==
    /\ ElementsOf(<<>>) = {} /\ \A X : <<>> \in Seq(X)
    /\ \A x : ElementsOf(<<x>>) = {x} /\ \A X : x \in X => <<x>> \in Seq(X)
BY DEF ElementsOf

\* Rounds that each append a part, and what all the parts hold.
Collects(X, len, part, f) ==
    /\ f[0] \in Seq(X)
    /\ \A n \in 1 .. len : part[n] \in Seq(X)
    /\ \A n \in 1 .. len : f[n - 1] \in Seq(X) => f[n] = f[n - 1] \o part[n]
AllParts(part, len) == UNION {ElementsOf(part[n]) : n \in 1 .. len}

\* A loop that appends a part in each round ends with the elements of all parts.
LEMMA Collected ==
    ASSUME NEW X, NEW len \in Nat, NEW part, NEW f, Collects(X, len, part, f)
    PROVE  f[len] \in Seq(X) /\ ElementsOf(f[len]) = ElementsOf(f[0]) \cup AllParts(part, len)
<1> DEFINE Good(n) == /\ f[n] \in Seq(X)
                      /\ ElementsOf(f[n]) = ElementsOf(f[0]) \cup UNION {ElementsOf(part[k]) : k \in 1 .. n}
           Bad == {n \in Nat : n <= len /\ ~Good(n)}
<1>1. Good(0)
  BY DEF Collects
<1>2. ASSUME NEW n \in 1 .. len, Good(n - 1) PROVE Good(n)
  <2>1. PICK p, r : p = f[n - 1] /\ r = part[n]
    OBVIOUS
  <2>2. f[n] = p \o r /\ p \in Seq(X) /\ r \in Seq(X)
    BY <1>2, <2>1 DEF Collects
  <2>3. f[n] \in Seq(X) /\ ElementsOf(f[n]) = ElementsOf(p) \cup ElementsOf(r)
    BY <2>2, ElementsOfConcat
  <2>4. ElementsOf(p) = ElementsOf(f[0]) \cup UNION {ElementsOf(part[k]) : k \in 1 .. n - 1}
    BY <1>2, <2>1
  <2>5. \A k : k \in 1 .. n <=> k \in 1 .. n - 1 \/ k = n
    OBVIOUS
  <2>6. UNION {ElementsOf(part[k]) : k \in 1 .. n}
          = ElementsOf(part[n]) \cup UNION {ElementsOf(part[k]) : k \in 1 .. n - 1}
    BY <2>5
  <2> QED
    BY <2>1, <2>3, <2>4, <2>6
<1> HIDE DEF Good
<1>3. Bad = {}
  <2> SUFFICES ASSUME Bad # {} PROVE FALSE
    OBVIOUS
  <2>1. PICK m \in Bad : \A k \in Bad : m <= k
    <3> HIDE DEF Bad
    <3>1. Bad \in SUBSET Nat
      BY DEF Bad
    <3> QED
      BY <3>1, LeastNumber
  <2>2. m # 0
    BY <1>1, <2>1
  <2>3. m - 1 \in Nat /\ m - 1 <= len /\ m \in 1 .. len /\ ~(m <= m - 1)
    BY <2>1, <2>2
  <2>4. Good(m - 1)
    BY <2>1, <2>3
  <2> QED
    BY <1>2, <2>1, <2>3, <2>4
<1>4. Good(len)
  BY <1>3
<1> QED
  BY <1>4 DEF Good, AllParts

\* The loop that collects the overloads of a name is well defined.
LEMMA OverloadsUnfold ==
    ASSUME NEW fns, NEW name, Len(fns) \in Nat
    PROVE  \E f : /\ f[0] = <<>>
                  /\ \A n \in 1 .. Len(fns) : f[n] = IF fns[n].name = name THEN Append(f[n - 1], fns[n]) ELSE f[n - 1]
                  /\ Overloads(fns, name) = f[Len(fns)]
<1> DEFINE len == Len(fns)
           Round(x, n) == IF fns[n].name = name THEN Append(x, fns[n]) ELSE x
           Loop(f, m) == [n \in 0 .. m |-> IF n = 0 THEN <<>> ELSE Round(f[n - 1], n)]
           Bad == {m \in Nat : m <= len /\ ~ \E f : f = Loop(f, m)}
           g == CHOOSE f : f = Loop(f, len)
<1>1. Overloads(fns, name) = g[len]
  BY DEF Overloads
<1>2. len \in Nat
  OBVIOUS
<1> HIDE DEF len, Round, g
<1>3. Bad = {}
  <2> SUFFICES ASSUME Bad # {} PROVE FALSE
    OBVIOUS
  <2>1. PICK m \in Bad : \A k \in Bad : m <= k
    <3> HIDE DEF Bad
    <3>1. Bad \in SUBSET Nat
      BY DEF Bad
    <3> QED
      BY <3>1, LeastNumber
  <2>2. CASE m = 0
    <3>1. PICK f : f = [n \in 0 .. 0 |-> <<>>]
      OBVIOUS
    <3>2. f = Loop(f, 0)
      BY <3>1
    <3> QED
      BY <2>1, <2>2, <3>2
  <2>3. CASE m # 0
    <3>1. m - 1 \in Nat /\ m - 1 <= len /\ m \in Nat /\ m >= 1 /\ ~(m <= m - 1)
      BY <1>2, <2>1, <2>3
    <3>2. PICK f : f = Loop(f, m - 1)
      BY <2>1, <3>1
    <3>3. PICK h : h = [n \in 0 .. m |-> IF n = m THEN Round(f[m - 1], m) ELSE f[n]]
      OBVIOUS
    <3>4. ASSUME NEW n \in 0 .. m PROVE h[n] = IF n = 0 THEN <<>> ELSE Round(h[n - 1], n)
      <4>1. CASE n = 0
        <5>1. 0 \in 0 .. m - 1 /\ n # m
          BY <2>3, <3>1, <4>1
        <5> QED
          BY <3>2, <3>3, <4>1, <5>1
      <4>2. CASE n # 0
        <5>1. n - 1 \in 0 .. m /\ n - 1 # m
          BY <3>1, <4>2
        <5>2. h[n - 1] = f[n - 1]
          BY <3>3, <5>1
        <5>3. CASE n = m
          BY <3>3, <4>2, <5>2, <5>3
        <5>4. CASE n # m
          <6>1. n \in 0 .. m - 1
            BY <3>1, <5>4
          <6>2. f[n] = Round(f[n - 1], n)
            BY <3>2, <4>2, <6>1
          <6> QED
            BY <3>3, <4>2, <5>2, <5>4, <6>2
        <5> QED
          BY <5>3, <5>4
      <4> QED
        BY <4>1, <4>2
    <3>5. h = Loop(h, m)
      BY <3>3, <3>4
    <3> QED
      BY <2>1, <3>5
  <2> QED
    BY <2>2, <2>3
<1>4. g = Loop(g, len)
  <2> HIDE DEF Loop
  <2>1. \E f : f = Loop(f, len)
    BY <1>2, <1>3
  <2> QED
    BY <2>1, Zenon DEF g
<1>5. \A n \in 0 .. len : g[n] = IF n = 0 THEN <<>> ELSE Round(g[n - 1], n)
  <2> DEFINE E(n) == IF n = 0 THEN <<>> ELSE Round(g[n - 1], n)
  <2>1. g = [n \in 0 .. len |-> E(n)]
    BY <1>4
  <2> HIDE DEF E
  <2>2. \A n \in 0 .. len : g[n] = E(n)
    BY <2>1
  <2> QED
    BY <2>2 DEF E
<1>6. g[0] = <<>>
  BY <1>2, <1>5
<1>7. ASSUME NEW n \in 1 .. len PROVE g[n] = Round(g[n - 1], n)
  <2>1. n \in 0 .. len /\ n # 0
    BY <1>2
  <2> QED
    BY <1>5, <2>1
<1> QED
  BY <1>1, <1>6, <1>7 DEF len, Round

\* The loop over the names of a registry is well defined.
LEMMA RegistryUnfolds ==
    ASSUME NEW fns, NEW names, Len(names) \in Nat
    PROVE  \E f : /\ f[0] = <<>>
                  /\ \A n \in 1 .. Len(names) : f[n] = f[n - 1] \o Overloads(fns, names[n])
                  /\ NewStaticRegistry(fns, names) = f[Len(names)]
<1> DEFINE len == Len(names)
           Round(x, n) == x \o Overloads(fns, names[n])
           Loop(f, m) == [n \in 0 .. m |-> IF n = 0 THEN <<>> ELSE Round(f[n - 1], n)]
           Bad == {m \in Nat : m <= len /\ ~ \E f : f = Loop(f, m)}
           g == CHOOSE f : f = Loop(f, len)
<1>1. NewStaticRegistry(fns, names) = g[len]
  BY DEF NewStaticRegistry
<1>2. len \in Nat
  OBVIOUS
<1> HIDE DEF len, Round, g
<1>3. Bad = {}
  <2> SUFFICES ASSUME Bad # {} PROVE FALSE
    OBVIOUS
  <2>1. PICK m \in Bad : \A k \in Bad : m <= k
    <3> HIDE DEF Bad
    <3>1. Bad \in SUBSET Nat
      BY DEF Bad
    <3> QED
      BY <3>1, LeastNumber
  <2>2. CASE m = 0
    <3>1. PICK f : f = [n \in 0 .. 0 |-> <<>>]
      OBVIOUS
    <3>2. f = Loop(f, 0)
      BY <3>1
    <3> QED
      BY <2>1, <2>2, <3>2
  <2>3. CASE m # 0
    <3>1. m - 1 \in Nat /\ m - 1 <= len /\ m \in Nat /\ m >= 1 /\ ~(m <= m - 1)
      BY <1>2, <2>1, <2>3
    <3>2. PICK f : f = Loop(f, m - 1)
      BY <2>1, <3>1
    <3>3. PICK h : h = [n \in 0 .. m |-> IF n = m THEN Round(f[m - 1], m) ELSE f[n]]
      OBVIOUS
    <3>4. ASSUME NEW n \in 0 .. m PROVE h[n] = IF n = 0 THEN <<>> ELSE Round(h[n - 1], n)
      <4>1. CASE n = 0
        <5>1. 0 \in 0 .. m - 1 /\ n # m
          BY <2>3, <3>1, <4>1
        <5> QED
          BY <3>2, <3>3, <4>1, <5>1
      <4>2. CASE n # 0
        <5>1. n - 1 \in 0 .. m /\ n - 1 # m
          BY <3>1, <4>2
        <5>2. h[n - 1] = f[n - 1]
          BY <3>3, <5>1
        <5>3. CASE n = m
          BY <3>3, <4>2, <5>2, <5>3
        <5>4. CASE n # m
          <6>1. n \in 0 .. m - 1
            BY <3>1, <5>4
          <6>2. f[n] = Round(f[n - 1], n)
            BY <3>2, <4>2, <6>1
          <6> QED
            BY <3>3, <4>2, <5>2, <5>4, <6>2
        <5> QED
          BY <5>3, <5>4
      <4> QED
        BY <4>1, <4>2
    <3>5. h = Loop(h, m)
      BY <3>3, <3>4
    <3> QED
      BY <2>1, <3>5
  <2> QED
    BY <2>2, <2>3
<1>4. g = Loop(g, len)
  <2> HIDE DEF Loop
  <2>1. \E f : f = Loop(f, len)
    BY <1>2, <1>3
  <2> QED
    BY <2>1, Zenon DEF g
<1>5. \A n \in 0 .. len : g[n] = IF n = 0 THEN <<>> ELSE Round(g[n - 1], n)
  <2> DEFINE E(n) == IF n = 0 THEN <<>> ELSE Round(g[n - 1], n)
  <2>1. g = [n \in 0 .. len |-> E(n)]
    BY <1>4
  <2> HIDE DEF E
  <2>2. \A n \in 0 .. len : g[n] = E(n)
    BY <2>1
  <2> QED
    BY <2>2 DEF E
<1>6. g[0] = <<>>
  BY <1>2, <1>5
<1>7. ASSUME NEW n \in 1 .. len PROVE g[n] = Round(g[n - 1], n)
  <2>1. n \in 0 .. len /\ n # 0
    BY <1>2
  <2> QED
    BY <1>5, <2>1
<1> QED
  BY <1>1, <1>6, <1>7 DEF len, Round

\* The loop that adds the engine's functions is well defined.
LEMMA BothUnfolds ==
    ASSUME NEW primary, NEW secondary, Len(secondary) \in Nat
    PROVE  \E f : /\ f[0] = primary
                  /\ \A n \in 1 .. Len(secondary) : f[n] = IF Hidden(primary, secondary[n]) THEN f[n - 1] ELSE Append(f[n - 1], secondary[n])
                  /\ Both(primary, secondary) = f[Len(secondary)]
<1> DEFINE len == Len(secondary)
           Round(x, n) == IF Hidden(primary, secondary[n]) THEN x ELSE Append(x, secondary[n])
           Loop(f, m) == [n \in 0 .. m |-> IF n = 0 THEN primary ELSE Round(f[n - 1], n)]
           Bad == {m \in Nat : m <= len /\ ~ \E f : f = Loop(f, m)}
           g == CHOOSE f : f = Loop(f, len)
<1>1. Both(primary, secondary) = g[len]
  BY DEF Both
<1>2. len \in Nat
  OBVIOUS
<1> HIDE DEF len, Round, g
<1>3. Bad = {}
  <2> SUFFICES ASSUME Bad # {} PROVE FALSE
    OBVIOUS
  <2>1. PICK m \in Bad : \A k \in Bad : m <= k
    <3> HIDE DEF Bad
    <3>1. Bad \in SUBSET Nat
      BY DEF Bad
    <3> QED
      BY <3>1, LeastNumber
  <2>2. CASE m = 0
    <3>1. PICK f : f = [n \in 0 .. 0 |-> primary]
      OBVIOUS
    <3>2. f = Loop(f, 0)
      BY <3>1
    <3> QED
      BY <2>1, <2>2, <3>2
  <2>3. CASE m # 0
    <3>1. m - 1 \in Nat /\ m - 1 <= len /\ m \in Nat /\ m >= 1 /\ ~(m <= m - 1)
      BY <1>2, <2>1, <2>3
    <3>2. PICK f : f = Loop(f, m - 1)
      BY <2>1, <3>1
    <3>3. PICK h : h = [n \in 0 .. m |-> IF n = m THEN Round(f[m - 1], m) ELSE f[n]]
      OBVIOUS
    <3>4. ASSUME NEW n \in 0 .. m PROVE h[n] = IF n = 0 THEN primary ELSE Round(h[n - 1], n)
      <4>1. CASE n = 0
        <5>1. 0 \in 0 .. m - 1 /\ n # m
          BY <2>3, <3>1, <4>1
        <5> QED
          BY <3>2, <3>3, <4>1, <5>1
      <4>2. CASE n # 0
        <5>1. n - 1 \in 0 .. m /\ n - 1 # m
          BY <3>1, <4>2
        <5>2. h[n - 1] = f[n - 1]
          BY <3>3, <5>1
        <5>3. CASE n = m
          BY <3>3, <4>2, <5>2, <5>3
        <5>4. CASE n # m
          <6>1. n \in 0 .. m - 1
            BY <3>1, <5>4
          <6>2. f[n] = Round(f[n - 1], n)
            BY <3>2, <4>2, <6>1
          <6> QED
            BY <3>3, <4>2, <5>2, <5>4, <6>2
        <5> QED
          BY <5>3, <5>4
      <4> QED
        BY <4>1, <4>2
    <3>5. h = Loop(h, m)
      BY <3>3, <3>4
    <3> QED
      BY <2>1, <3>5
  <2> QED
    BY <2>2, <2>3
<1>4. g = Loop(g, len)
  <2> HIDE DEF Loop
  <2>1. \E f : f = Loop(f, len)
    BY <1>2, <1>3
  <2> QED
    BY <2>1, Zenon DEF g
<1>5. \A n \in 0 .. len : g[n] = IF n = 0 THEN primary ELSE Round(g[n - 1], n)
  <2> DEFINE E(n) == IF n = 0 THEN primary ELSE Round(g[n - 1], n)
  <2>1. g = [n \in 0 .. len |-> E(n)]
    BY <1>4
  <2> HIDE DEF E
  <2>2. \A n \in 0 .. len : g[n] = E(n)
    BY <2>1
  <2> QED
    BY <2>2 DEF E
<1>6. g[0] = primary
  BY <1>2, <1>5
<1>7. ASSUME NEW n \in 1 .. len PROVE g[n] = Round(g[n - 1], n)
  <2>1. n \in 0 .. len /\ n # 0
    BY <1>2
  <2> QED
    BY <1>5, <2>1
<1> QED
  BY <1>1, <1>6, <1>7 DEF len, Round

\* The loop over the policies is well defined.
LEMMA TermsUnfold ==
    ASSUME NEW policies, NEW role, NEW rel, NEW part, Len(policies) \in Nat
    PROVE  \E f : /\ f[0] = <<>>
                  /\ \A n \in 1 .. Len(policies) : f[n] = IF AppliesTo(policies[n], role, rel) THEN f[n - 1] \o policies[n][part] ELSE f[n - 1]
                  /\ PolicyTerms(policies, role, rel, part) = f[Len(policies)]
<1> DEFINE len == Len(policies)
           Round(x, n) == IF AppliesTo(policies[n], role, rel) THEN x \o policies[n][part] ELSE x
           Loop(f, m) == [n \in 0 .. m |-> IF n = 0 THEN <<>> ELSE Round(f[n - 1], n)]
           Bad == {m \in Nat : m <= len /\ ~ \E f : f = Loop(f, m)}
           g == CHOOSE f : f = Loop(f, len)
<1>1. PolicyTerms(policies, role, rel, part) = g[len]
  BY DEF PolicyTerms
<1>2. len \in Nat
  OBVIOUS
<1> HIDE DEF len, Round, g
<1>3. Bad = {}
  <2> SUFFICES ASSUME Bad # {} PROVE FALSE
    OBVIOUS
  <2>1. PICK m \in Bad : \A k \in Bad : m <= k
    <3> HIDE DEF Bad
    <3>1. Bad \in SUBSET Nat
      BY DEF Bad
    <3> QED
      BY <3>1, LeastNumber
  <2>2. CASE m = 0
    <3>1. PICK f : f = [n \in 0 .. 0 |-> <<>>]
      OBVIOUS
    <3>2. f = Loop(f, 0)
      BY <3>1
    <3> QED
      BY <2>1, <2>2, <3>2
  <2>3. CASE m # 0
    <3>1. m - 1 \in Nat /\ m - 1 <= len /\ m \in Nat /\ m >= 1 /\ ~(m <= m - 1)
      BY <1>2, <2>1, <2>3
    <3>2. PICK f : f = Loop(f, m - 1)
      BY <2>1, <3>1
    <3>3. PICK h : h = [n \in 0 .. m |-> IF n = m THEN Round(f[m - 1], m) ELSE f[n]]
      OBVIOUS
    <3>4. ASSUME NEW n \in 0 .. m PROVE h[n] = IF n = 0 THEN <<>> ELSE Round(h[n - 1], n)
      <4>1. CASE n = 0
        <5>1. 0 \in 0 .. m - 1 /\ n # m
          BY <2>3, <3>1, <4>1
        <5> QED
          BY <3>2, <3>3, <4>1, <5>1
      <4>2. CASE n # 0
        <5>1. n - 1 \in 0 .. m /\ n - 1 # m
          BY <3>1, <4>2
        <5>2. h[n - 1] = f[n - 1]
          BY <3>3, <5>1
        <5>3. CASE n = m
          BY <3>3, <4>2, <5>2, <5>3
        <5>4. CASE n # m
          <6>1. n \in 0 .. m - 1
            BY <3>1, <5>4
          <6>2. f[n] = Round(f[n - 1], n)
            BY <3>2, <4>2, <6>1
          <6> QED
            BY <3>3, <4>2, <5>2, <5>4, <6>2
        <5> QED
          BY <5>3, <5>4
      <4> QED
        BY <4>1, <4>2
    <3>5. h = Loop(h, m)
      BY <3>3, <3>4
    <3> QED
      BY <2>1, <3>5
  <2> QED
    BY <2>2, <2>3
<1>4. g = Loop(g, len)
  <2> HIDE DEF Loop
  <2>1. \E f : f = Loop(f, len)
    BY <1>2, <1>3
  <2> QED
    BY <2>1, Zenon DEF g
<1>5. \A n \in 0 .. len : g[n] = IF n = 0 THEN <<>> ELSE Round(g[n - 1], n)
  <2> DEFINE E(n) == IF n = 0 THEN <<>> ELSE Round(g[n - 1], n)
  <2>1. g = [n \in 0 .. len |-> E(n)]
    BY <1>4
  <2> HIDE DEF E
  <2>2. \A n \in 0 .. len : g[n] = E(n)
    BY <2>1
  <2> QED
    BY <2>2 DEF E
<1>6. g[0] = <<>>
  BY <1>2, <1>5
<1>7. ASSUME NEW n \in 1 .. len PROVE g[n] = Round(g[n - 1], n)
  <2>1. n \in 0 .. len /\ n # 0
    BY <1>2
  <2> QED
    BY <1>5, <2>1
<1> QED
  BY <1>1, <1>6, <1>7 DEF len, Round

\* The overloads of a name are the functions of that name.
LEMMA OverloadsElements ==
    ASSUME NEW X, NEW fns \in Seq(X), NEW name
    PROVE  /\ Overloads(fns, name) \in Seq(X)
           /\ ElementsOf(Overloads(fns, name)) = {g \in ElementsOf(fns) : g.name = name}
<1>0. Len(fns) \in Nat /\ DOMAIN fns = 1 .. Len(fns) /\ \A n \in 1 .. Len(fns) : fns[n] \in X
  BY LenProperties, ElementOfSeq
<1>1. PICK f : /\ f[0] = <<>>
               /\ \A n \in 1 .. Len(fns) :
                    f[n] = IF fns[n].name = name THEN Append(f[n - 1], fns[n]) ELSE f[n - 1]
               /\ Overloads(fns, name) = f[Len(fns)]
  BY <1>0, OverloadsUnfold
<1>2. PICK part : part = [n \in 1 .. Len(fns) |-> IF fns[n].name = name THEN <<fns[n]>> ELSE <<>>]
  OBVIOUS
<1>3. ASSUME NEW n \in 1 .. Len(fns)
      PROVE  /\ part[n] \in Seq(X)
             /\ ElementsOf(part[n]) = {g \in {fns[n]} : g.name = name}
             /\ f[n - 1] \in Seq(X) => f[n] = f[n - 1] \o part[n]
  <2>1. PICK g, p : g = fns[n] /\ p = f[n - 1]
    OBVIOUS
  <2>2. g \in X /\ part[n] = (IF g.name = name THEN <<g>> ELSE <<>>)
        /\ f[n] = (IF g.name = name THEN Append(p, g) ELSE p)
    BY <1>0, <1>1, <1>2, <2>1
  <2>3. CASE g.name = name
    BY <2>1, <2>2, <2>3, ElementsOfShort, AppendIsConcat
  <2>4. CASE g.name # name
    BY <2>1, <2>2, <2>4, ElementsOfShort, ConcatEmptySeq
  <2> QED
    BY <2>3, <2>4
<1>4. /\ f[Len(fns)] \in Seq(X)
      /\ ElementsOf(f[Len(fns)]) = ElementsOf(f[0]) \cup AllParts(part, Len(fns))
  <2>1. Collects(X, Len(fns), part, f)
    BY <1>1, <1>3, ElementsOfShort DEF Collects
  <2> QED
    BY <1>0, <2>1, Collected
<1>5. ElementsOf(f[0]) = {}
  BY <1>1, ElementsOfShort
<1>6. AllParts(part, Len(fns)) = {g \in ElementsOf(fns) : g.name = name}
  <2>1. PICK I, all : I = 1 .. Len(fns) /\ all = ElementsOf(fns)
    OBVIOUS
  <2>2. \A g : g \in all <=> \E n \in I : g = fns[n]
    BY <1>0, <2>1 DEF ElementsOf
  <2>3. \A n \in I : ElementsOf(part[n]) = {g \in {fns[n]} : g.name = name}
    BY <1>3, <2>1
  <2>4. UNION {ElementsOf(part[n]) : n \in I} = {g \in all : g.name = name}
    BY <2>2, <2>3
  <2> QED
    BY <2>1, <2>4 DEF AllParts
<1> QED
  BY <1>1, <1>4, <1>5, <1>6

\* A registry has the functions whose names it is given.
LEMMA RegistryElements ==
    ASSUME NEW X, NEW fns \in Seq(X), NEW names, IsSequence(names)
    PROVE  ElementsOf(NewStaticRegistry(fns, names)) = {g \in ElementsOf(fns) : g.name \in ElementsOf(names)}
<1>0. Len(names) \in Nat /\ DOMAIN names = 1 .. Len(names)
  BY LenProperties DEF IsSequence
<1>1. PICK f : /\ f[0] = <<>>
               /\ \A n \in 1 .. Len(names) : f[n] = f[n - 1] \o Overloads(fns, names[n])
               /\ NewStaticRegistry(fns, names) = f[Len(names)]
  BY <1>0, RegistryUnfolds
<1>2. PICK part : part = [n \in 1 .. Len(names) |-> Overloads(fns, names[n])]
  OBVIOUS
<1>3. ASSUME NEW n \in 1 .. Len(names)
      PROVE  /\ part[n] \in Seq(X)
             /\ ElementsOf(part[n]) = {g \in ElementsOf(fns) : g.name = names[n]}
             /\ f[n] = f[n - 1] \o part[n]
  <2>1. part[n] = Overloads(fns, names[n]) /\ f[n] = f[n - 1] \o part[n]
    BY <1>1, <1>2
  <2> QED
    BY <2>1, OverloadsElements
<1>4. ElementsOf(f[Len(names)]) = ElementsOf(f[0]) \cup AllParts(part, Len(names))
  <2>1. Collects(X, Len(names), part, f)
    BY <1>1, <1>3, ElementsOfShort DEF Collects
  <2> QED
    BY <1>0, <2>1, Collected
<1>5. ElementsOf(f[0]) = {}
  BY <1>1, ElementsOfShort
<1>6. AllParts(part, Len(names)) = {g \in ElementsOf(fns) : g.name \in ElementsOf(names)}
  <2>1. PICK I, all, given : I = 1 .. Len(names) /\ all = ElementsOf(fns) /\ given = ElementsOf(names)
    OBVIOUS
  <2>2. \A x : x \in given <=> \E n \in I : x = names[n]
    BY <1>0, <2>1 DEF ElementsOf
  <2>3. \A n \in I : ElementsOf(part[n]) = {g \in all : g.name = names[n]}
    BY <1>3, <2>1
  <2>4. UNION {ElementsOf(part[n]) : n \in I} = {g \in all : g.name \in given}
    BY <2>2, <2>3
  <2> QED
    BY <2>1, <2>4 DEF AllParts
<1> QED
  BY <1>1, <1>4, <1>5, <1>6

\* Both registries together have the declared functions and those they do not hide.
LEMMA BothElements ==
    ASSUME NEW X, NEW primary \in Seq(X), NEW secondary \in Seq(X)
    PROVE  /\ Both(primary, secondary) \in Seq(X)
           /\ ElementsOf(Both(primary, secondary))
                = ElementsOf(primary) \cup {g \in ElementsOf(secondary) : ~Hidden(primary, g)}
<1>0. Len(secondary) \in Nat /\ DOMAIN secondary = 1 .. Len(secondary)
      /\ \A n \in 1 .. Len(secondary) : secondary[n] \in X
  BY LenProperties, ElementOfSeq
<1>1. PICK f : /\ f[0] = primary
               /\ \A n \in 1 .. Len(secondary) :
                    f[n] = IF Hidden(primary, secondary[n]) THEN f[n - 1] ELSE Append(f[n - 1], secondary[n])
               /\ Both(primary, secondary) = f[Len(secondary)]
  BY <1>0, BothUnfolds, ZenonT(40)
<1>2. PICK part : part = [n \in 1 .. Len(secondary) |->
                            IF Hidden(primary, secondary[n]) THEN <<>> ELSE <<secondary[n]>>]
  OBVIOUS
<1>3. ASSUME NEW n \in 1 .. Len(secondary)
      PROVE  /\ part[n] \in Seq(X)
             /\ ElementsOf(part[n]) = {g \in {secondary[n]} : ~Hidden(primary, g)}
             /\ f[n - 1] \in Seq(X) => f[n] = f[n - 1] \o part[n]
  <2>1. PICK g, p : g = secondary[n] /\ p = f[n - 1]
    OBVIOUS
  <2>2. g \in X /\ part[n] = (IF Hidden(primary, g) THEN <<>> ELSE <<g>>)
        /\ f[n] = (IF Hidden(primary, g) THEN p ELSE Append(p, g))
    BY <1>0, <1>1, <1>2, <2>1
  <2>3. CASE ~Hidden(primary, g)
    BY <2>1, <2>2, <2>3, ElementsOfShort, AppendIsConcat
  <2>4. CASE Hidden(primary, g)
    BY <2>1, <2>2, <2>4, ElementsOfShort, ConcatEmptySeq
  <2> QED
    BY <2>3, <2>4
<1>4. /\ f[Len(secondary)] \in Seq(X)
      /\ ElementsOf(f[Len(secondary)]) = ElementsOf(f[0]) \cup AllParts(part, Len(secondary))
  <2>1. Collects(X, Len(secondary), part, f)
    BY <1>1, <1>3 DEF Collects
  <2> QED
    BY <1>0, <2>1, Collected
<1>5. AllParts(part, Len(secondary)) = {g \in ElementsOf(secondary) : ~Hidden(primary, g)}
  <2>1. PICK I, all : I = 1 .. Len(secondary) /\ all = ElementsOf(secondary)
    OBVIOUS
  <2>2. \A g : g \in all <=> \E n \in I : g = secondary[n]
    BY <1>0, <2>1 DEF ElementsOf
  <2>3. \A n \in I : ElementsOf(part[n]) = {g \in {secondary[n]} : ~Hidden(primary, g)}
    BY <1>3, <2>1
  <2>4. UNION {ElementsOf(part[n]) : n \in I} = {g \in all : ~Hidden(primary, g)}
    BY <2>2, <2>3
  <2> QED
    BY <2>1, <2>4 DEF AllParts
<1> QED
  BY <1>1, <1>4, <1>5

\* What DeclaredShadowsNative says of the answer to a task.
LEMMA MergeAnswer ==
    ASSUME NEW t \in MergeTasks
    PROVE  ElementsOf(Merge(t.declared, t.native, t.names)) =
             ElementsOf(t.declared)
               \cup {f \in ElementsOf(t.native) : \A d \in ElementsOf(t.declared) : Signature(d) # Signature(f)}
<1>1. PICK D, N, names : D = t.declared /\ N = t.native /\ names = t.names
  OBVIOUS
<1>2. /\ IsSequence(D) /\ IsSequence(N) /\ IsSequence(names)
      /\ \A f \in ElementsOf(D) \cup ElementsOf(N) : f.name \in ElementsOf(names)
  BY <1>1, MergeAssumption
<1>3. \A f : Hidden(D, f) <=> \E d \in ElementsOf(D) : Signature(d) = Signature(f)
  BY DEF Hidden, ElementsOf
<1>4. CASE D = <<>>
  <2>1. ElementsOf(D) = {} /\ Merge(D, N, names) = N
    BY <1>4, ElementsOfShort DEF Merge
  <2> QED
    BY <1>1, <2>1
<1>5. CASE D # <<>> /\ N = <<>>
  <2>1. ElementsOf(N) = {} /\ Merge(D, N, names) = D
    BY <1>5, ElementsOfShort DEF Merge
  <2> QED
    BY <1>1, <2>1
<1>6. CASE D # <<>> /\ N # <<>>
  <2>1. Merge(D, N, names) = NewStaticRegistry(Both(D, N), names)
    BY <1>6 DEF Merge
  <2>2. PICK X : X = ElementsOf(D) \cup ElementsOf(N)
    OBVIOUS
  <2>3. D \in Seq(X) /\ N \in Seq(X)
    BY <1>2, <2>2, SeqMonotonic DEF IsSequence
  <2>4. /\ Both(D, N) \in Seq(X)
        /\ ElementsOf(Both(D, N)) = ElementsOf(D) \cup {g \in ElementsOf(N) : ~Hidden(D, g)}
    BY <2>3, BothElements
  <2>5. ElementsOf(NewStaticRegistry(Both(D, N), names))
          = {g \in ElementsOf(Both(D, N)) : g.name \in ElementsOf(names)}
    BY <1>2, <2>4, RegistryElements
  <2>6. ElementsOf(Merge(D, N, names)) = ElementsOf(D) \cup {g \in ElementsOf(N) : ~Hidden(D, g)}
    BY <1>2, <2>1, <2>4, <2>5
  <2> QED
    BY <1>1, <1>3, <2>6
<1> QED
  BY <1>4, <1>5, <1>6

\* A call runs the one overload its arguments fit best, for every registry in
\* whatever order, and is refused when there is none or no single one; a declared
\* function hides only the engine's functions of its signature (Resolve, Merge).
THEOREM CallsAreDecided == DecideSpec => []CallsDecided
<1>1. ASSUME AnswerInv PROVE CallsDecided
  <2>1. Answered("overload") => task \in OverloadTasks /\ out[1] = Resolve(task.reg, task.name, task.args)
    BY <1>1, KindOfTask DEF AnswerInv, Answered
  <2>2. Answered("merge") => task \in MergeTasks /\ out[1] = Merge(task.declared, task.native, task.names)
    BY <1>1, KindOfTask DEF AnswerInv, Answered
  <2>3. OverloadDecided
    <3>1. PICK best : best = BestFit(task)
      OBVIOUS
    <3> QED
      BY <2>1, <3>1, OverloadAnswer DEF OverloadDecided
  <2>4. DeclaredShadowsNative
    BY <2>2, MergeAnswer DEF DeclaredShadowsNative
  <2> QED
    BY <2>3, <2>4 DEF CallsDecided
<1> QED
  BY <1>1, AnswersInvariant, PTL

-----------------------------------------------------------------------------
(***************************************************************************)
(* The gate.                                                               *)
(***************************************************************************)

\* The terms that are collected are those of the role's policies.
LEMMA TermsElements ==
    ASSUME NEW policies, IsSequence(policies), NEW role, NEW rel, NEW part,
           \A k \in DOMAIN policies : IsSequence(policies[k][part]),
           NEW terms, terms = PolicyTerms(policies, role, rel, part)
    PROVE  /\ Len(terms) \in Nat /\ DOMAIN terms = 1 .. Len(terms)
           /\ ElementsOf(terms) =
                UNION {ElementsOf(policies[k][part]) :
                         k \in {k \in DOMAIN policies : AppliesTo(policies[k], role, rel)}}
<1>0. Len(policies) \in Nat /\ DOMAIN policies = 1 .. Len(policies)
  BY LenProperties DEF IsSequence
<1>1. PICK f : /\ f[0] = <<>>
               /\ \A n \in 1 .. Len(policies) :
                    f[n] = IF AppliesTo(policies[n], role, rel) THEN f[n - 1] \o policies[n][part] ELSE f[n - 1]
               /\ PolicyTerms(policies, role, rel, part) = f[Len(policies)]
  BY <1>0, TermsUnfold
<1>2. PICK X : X = UNION {ElementsOf(policies[k][part]) : k \in DOMAIN policies}
  OBVIOUS
<1>3. PICK parts : parts = [n \in 1 .. Len(policies) |->
                              IF AppliesTo(policies[n], role, rel) THEN policies[n][part] ELSE <<>>]
  OBVIOUS
<1>4. ASSUME NEW n \in 1 .. Len(policies)
      PROVE  /\ parts[n] \in Seq(X)
             /\ ElementsOf(parts[n]) =
                  IF AppliesTo(policies[n], role, rel) THEN ElementsOf(policies[n][part]) ELSE {}
             /\ f[n - 1] \in Seq(X) => f[n] = f[n - 1] \o parts[n]
  <2>1. PICK s, p : s = policies[n][part] /\ p = f[n - 1]
    OBVIOUS
  <2>2. s \in Seq(X)
    <3>1. ElementsOf(s) \subseteq X /\ s \in Seq(ElementsOf(s))
      BY <1>0, <1>2, <2>1 DEF IsSequence
    <3> QED
      BY <3>1, SeqMonotonic
  <2>3. /\ parts[n] = IF AppliesTo(policies[n], role, rel) THEN s ELSE <<>>
        /\ f[n] = IF AppliesTo(policies[n], role, rel) THEN p \o s ELSE p
    BY <1>1, <1>3, <2>1
  <2>4. CASE AppliesTo(policies[n], role, rel)
    BY <2>1, <2>2, <2>3, <2>4
  <2>5. CASE ~AppliesTo(policies[n], role, rel)
    BY <2>1, <2>3, <2>5, ElementsOfShort, ConcatEmptySeq
  <2> QED
    BY <2>4, <2>5
<1>5. f[Len(policies)] \in Seq(X)
      /\ ElementsOf(f[Len(policies)]) = ElementsOf(f[0]) \cup AllParts(parts, Len(policies))
  <2>1. Collects(X, Len(policies), parts, f)
    BY <1>1, <1>4, ElementsOfShort DEF Collects
  <2> QED
    BY <1>0, <2>1, Collected
<1>6. ElementsOf(f[0]) = {}
  BY <1>1, ElementsOfShort
<1>7. AllParts(parts, Len(policies)) =
        UNION {ElementsOf(policies[k][part]) :
                 k \in {k \in DOMAIN policies : AppliesTo(policies[k], role, rel)}}
  <2>1. PICK I : I = 1 .. Len(policies)
    OBVIOUS
  <2>2. \A n \in I : ElementsOf(parts[n]) =
          IF AppliesTo(policies[n], role, rel) THEN ElementsOf(policies[n][part]) ELSE {}
    BY <1>4, <2>1
  <2>3. UNION {ElementsOf(parts[n]) : n \in I} =
          UNION {ElementsOf(policies[k][part]) : k \in {k \in I : AppliesTo(policies[k], role, rel)}}
    BY <2>2
  <2> QED
    BY <1>0, <2>1, <2>3 DEF AllParts
<1> QED
  BY <1>1, <1>5, <1>6, <1>7, LenProperties

\* The least truth value is true when all are.
LEMMA LeastTrue ==
    ASSUME NEW S \in SUBSET TruthValues
    PROVE  Least(S) = True <=> \A v \in S : v = True
<1>1. CASE S = {}
  BY <1>1 DEF Least
<1>2. CASE S # {}
  <2>1. S \in SUBSET Nat
    BY DEF TruthValues, True, False, Unknown
  <2>2. \E x \in S : \A y \in S : x <= y
    BY <1>2, <2>1, LeastNumber
  <2>3. PICK m : m = CHOOSE x \in S : \A y \in S : x <= y
    OBVIOUS
  <2>4. m \in S /\ \A y \in S : m <= y
    BY <2>2, <2>3
  <2>5. Least(S) = m
    BY <1>2, <2>3 DEF Least
  <2> QED
    BY <2>4, <2>5 DEF TruthValues, True, False, Unknown
<1> QED
  BY <1>1, <1>2

\* What a term is compared with is a value, never null.
LEMMA RightHandSide ==
    ASSUME NEW x, IsTerm(x), NEW claims, NEW rhs, rhs = ResolveRHS(x, claims)
    PROVE  /\ rhs = <<>> <=> x.claim # <<>> /\ x.claim \notin DOMAIN claims
           /\ rhs # <<>> => /\ rhs = <<IF x.claim = <<>> THEN x.lit ELSE Text(claims[x.claim])>>
                            /\ rhs[1] = (IF x.claim = <<>> THEN x.lit ELSE Text(claims[x.claim]))
                            /\ rhs[1] # Null
<1>1. \A v : Text(v) # Null
  BY DEF Text, Blank, Null
<1>2. x.lit # Null
  BY DEF IsTerm
<1>3. CASE x.claim = <<>>
  BY <1>2, <1>3 DEF ResolveRHS
<1>4. CASE x.claim # <<>> /\ x.claim \in DOMAIN claims
  BY <1>1, <1>4 DEF ResolveRHS
<1>5. CASE x.claim # <<>> /\ x.claim \notin DOMAIN claims
  BY <1>5 DEF ResolveRHS
<1> QED
  BY <1>3, <1>4, <1>5

\* The condition that a term becomes.
CondOf(x, claims) ==
    LET rhs == ResolveRHS(x, claims)
    IN  IF rhs = <<>> THEN Compare(x.col, "in", FALSE, <<>>) ELSE Compare(x.col, x.op, FALSE, rhs)

\* A policy's condition is true exactly on the rows that its term admits.
LEMMA CondMeans ==
    ASSUME NEW x, IsTerm(x), NEW claims, NEW row, NEW c, c = CondOf(x, claims)
    PROVE  /\ c.col = x.col /\ EvalCompare(c, row[x.col]) \in TruthValues
           /\ EvalCompare(c, row[x.col]) = True <=> Admits(x, claims, row)
<1>1. PICK rhs, v : rhs = ResolveRHS(x, claims) /\ v = row[x.col]
  OBVIOUS
<1>2. CASE rhs = <<>>
  <2>1. c = Compare(x.col, "in", FALSE, <<>>)
    BY <1>1, <1>2 DEF CondOf
  <2>2. c.col = x.col /\ c.op = "in" /\ ~c.neg /\ c.val = <<>>
    <3>1. PICK e : e = Compare(x.col, "in", FALSE, <<>>)
      OBVIOUS
    <3>2. e.col = x.col /\ e.op = "in" /\ ~e.neg /\ e.val = <<>>
      BY <3>1 DEF Compare, Quantified
    <3>3. c = e
      BY <2>1, <3>1, Zenon
    <3> QED
      BY <3>2, <3>3, Zenon
  <2>3. EvalCompare(c, v) = Greatest({})
    <3>1. {Holds(IF c.op = "in" THEN "eq" ELSE c.op, v, c.val[k]) : k \in DOMAIN c.val} = {}
      BY <2>2
    <3> QED
      BY <2>2, <3>1 DEF EvalCompare
  <2>4. EvalCompare(c, v) = False
    BY <2>3 DEF Greatest
  <2>5. x.claim # <<>> /\ x.claim \notin DOMAIN claims
    BY <1>1, <1>2, RightHandSide
  <2> QED
    BY <1>1, <2>2, <2>4, <2>5 DEF TruthValues, True, False, Admits
<1>3. CASE rhs # <<>>
  <2>1. PICK w : w = IF x.claim = <<>> THEN x.lit ELSE Text(claims[x.claim])
    OBVIOUS
  <2>2. rhs = <<w>> /\ w # Null /\ (x.claim # <<>> => x.claim \in DOMAIN claims)
    BY <1>1, <1>3, <2>1, RightHandSide
  <2>3. c = Compare(x.col, x.op, FALSE, <<w>>)
    BY <1>1, <1>3, <2>2 DEF CondOf
  <2>4. c.col = x.col /\ c.op = x.op /\ ~c.neg /\ c.quant = "" /\ c.val = <<w>>
    <3>1. PICK e : e = Compare(x.col, x.op, FALSE, <<w>>)
      OBVIOUS
    <3>2. e.col = x.col /\ e.op = x.op /\ ~e.neg /\ e.quant = "" /\ e.val = <<w>>
      BY <3>1 DEF Compare, Quantified
    <3>3. c = e
      BY <2>3, <3>1, Zenon
    <3> QED
      BY <3>2, <3>3, Zenon
  <2>5. x.op = "eq" \/ x.op = "neq"
    BY DEF IsTerm
  <2>6. PICK h : h = Holds(x.op, v, w)
    OBVIOUS
  <2>7. {Holds(IF c.op = "in" THEN "eq" ELSE c.op, v, c.val[k]) : k \in DOMAIN c.val} = {h}
    <3>1. PICK val : val = c.val
      OBVIOUS
    <3>2. DOMAIN val = {1} /\ val[1] = w
      <4>1. \A y : DOMAIN <<y>> = {1} /\ <<y>>[1] = y
        OBVIOUS
      <4>2. val = <<w>>
        BY <2>4, <3>1
      <4> QED
        BY <4>1, <4>2, Zenon
    <3>3. (IF c.op = "in" THEN "eq" ELSE c.op) = x.op
      BY <2>4, <2>5
    <3>4. {Holds(x.op, v, val[k]) : k \in DOMAIN val} = {h}
      BY <2>6, <3>2
    <3> QED
      BY <3>1, <3>3, <3>4, Zenon
  <2>8. EvalCompare(c, v) = Least({h})
    BY <2>4, <2>5, <2>7 DEF EvalCompare
  <2>9. h = IF v = Null THEN Unknown ELSE IF x.op = "eq" THEN Bool(v = w) ELSE Bool(v # w)
    BY <2>2, <2>5, <2>6 DEF Holds
  <2>10. h \in TruthValues
    BY <2>9 DEF TruthValues, Bool
  <2>11. Least({h}) = h
    <3>1. h <= h
      BY <2>10 DEF TruthValues, True, False, Unknown
    <3> QED
      BY <3>1 DEF Least
  <2>12. h = True <=> v # Null /\ ((x.op = "eq") = (v = w))
    BY <2>5, <2>9 DEF Bool, True, False, Unknown
  <2>13. Admits(x, claims, row) <=> v # Null /\ ((x.op = "eq") = (v = w))
    BY <1>1, <2>1, <2>2 DEF Admits
  <2> QED
    BY <1>1, <2>4, <2>8, <2>10, <2>11, <2>12, <2>13
<1> QED
  BY <1>2, <1>3

\* The policy's terms of a task are terms on columns of every row, collected from
\* the role's policies.
LEMMA TaskTerms ==
    ASSUME NEW t \in GateTasks, NEW part \in {"using", "check"},
           NEW terms, terms = PolicyTerms(t.reg.policies, t.rc.role, t.q.rel, part)
    PROVE  /\ Len(terms) \in Nat /\ DOMAIN terms = 1 .. Len(terms)
           /\ ElementsOf(terms) = MyTerms(t, part)
           /\ \A x \in MyTerms(t, part) : IsTerm(x) /\ \A row \in TableRows : x.col \in DOMAIN row
<1>1. PICK policies : policies = t.reg.policies
  OBVIOUS
<1>2. IsSequence(policies) /\ \A k \in DOMAIN policies : IsPolicy(policies[k])
  BY <1>1, GateAssumption
<1>3. ASSUME NEW k \in DOMAIN policies
      PROVE  /\ IsSequence(policies[k][part])
             /\ \A x \in ElementsOf(policies[k][part]) : IsTerm(x) /\ \A row \in TableRows : x.col \in DOMAIN row
  <2>1. PICK p : p = policies[k]
    OBVIOUS
  <2>2. IsPolicy(p)
    BY <1>2, <2>1
  <2>3. p[part] = p.using \/ p[part] = p.check
    OBVIOUS
  <2> QED
    BY <2>1, <2>2, <2>3 DEF IsPolicy
<1>4. MyTerms(t, part) =
        UNION {ElementsOf(policies[k][part]) :
                 k \in {k \in DOMAIN policies : AppliesTo(policies[k], t.rc.role, t.q.rel)}}
  BY <1>1 DEF MyTerms
<1>5. /\ Len(terms) \in Nat /\ DOMAIN terms = 1 .. Len(terms) /\ ElementsOf(terms) = MyTerms(t, part)
  <2>1. PICK role, rel : role = t.rc.role /\ rel = t.q.rel
    OBVIOUS
  <2> QED
    BY <1>1, <1>2, <1>3, <1>4, <2>1, TermsElements
<1>6. \A x \in MyTerms(t, part) : IsTerm(x) /\ \A row \in TableRows : x.col \in DOMAIN row
  BY <1>3, <1>4
<1> QED
  BY <1>5, <1>6

\* The injected conditions are all true exactly on the rows every term admits.
LEMMA InjectedMeans ==
    ASSUME NEW t \in GateTasks, NEW row \in TableRows, NEW conds, conds = Injected(t)
    PROVE  /\ conds \in Seq(ElementsOf(conds))
           /\ conds = <<>> => MyTerms(t, "using") = {}
           /\ \A c \in ElementsOf(conds) : EvalCompare(c, row[c.col]) \in TruthValues
           /\ (\A c \in ElementsOf(conds) : EvalCompare(c, row[c.col]) = True)
                <=> \A x \in MyTerms(t, "using") : Admits(x, t.rc.claims, row)
<1>1. PICK terms, claims : terms = PolicyTerms(t.reg.policies, t.rc.role, t.q.rel, "using") /\ claims = t.rc.claims
  OBVIOUS
<1>2. /\ Len(terms) \in Nat /\ DOMAIN terms = 1 .. Len(terms)
      /\ ElementsOf(terms) = MyTerms(t, "using")
      /\ \A x \in MyTerms(t, "using") : IsTerm(x)
  BY <1>1, TaskTerms
<1>3. conds = [k \in DOMAIN terms |-> CondOf(terms[k], claims)]
  BY <1>1, Zenon DEF Injected, UsingConds, CondOf
<1>4. conds \in Seq(ElementsOf(conds))
  <2>1. PICK n \in Nat : n = Len(terms)
    BY <1>2
  <2>2. conds \in [1 .. n -> ElementsOf(conds)]
    BY <1>2, <1>3, <2>1 DEF ElementsOf
  <2> QED
    BY <2>2, SeqDef
<1>5. ElementsOf(conds) = {CondOf(x, claims) : x \in ElementsOf(terms)}
  BY <1>3 DEF ElementsOf
<1>6. conds = <<>> => ElementsOf(terms) = {}
  BY <1>5, ElementsOfShort
<1>7. \A x \in ElementsOf(terms) :
        /\ CondOf(x, claims).col = x.col /\ EvalCompare(CondOf(x, claims), row[x.col]) \in TruthValues
        /\ EvalCompare(CondOf(x, claims), row[x.col]) = True <=> Admits(x, claims, row)
  BY <1>2, CondMeans
<1> QED
  BY <1>1, <1>2, <1>4, <1>5, <1>6, <1>7

\* The filter that the gate makes selects the rows that the client's filter and
\* every term of the role's policies select.
LEMMA WhereMeans ==
    ASSUME NEW t \in GateTasks, NEW row \in TableRows, NEW where, NEW conds,
           where = t.q.where, conds = Injected(t)
    PROVE  Selects(InjectWhere(where, conds), row)
             <=> Selects(where, row) /\ \A x \in MyTerms(t, "using") : Admits(x, t.rc.claims, row)
<1>1. /\ conds \in Seq(ElementsOf(conds))
      /\ conds = <<>> => MyTerms(t, "using") = {}
      /\ \A c \in ElementsOf(conds) : EvalCompare(c, row[c.col]) \in TruthValues
      /\ (\A c \in ElementsOf(conds) : EvalCompare(c, row[c.col]) = True)
           <=> \A x \in MyTerms(t, "using") : Admits(x, t.rc.claims, row)
  BY InjectedMeans
<1>2. CASE conds = <<>>
  BY <1>1, <1>2 DEF InjectWhere
<1>3. CASE conds # <<>>
  <2>1. PICK kids : kids = where \o conds
    OBVIOUS
  <2>2. /\ \A k \in DOMAIN conds : Truth(conds[k], row) = EvalCompare(conds[k], row[conds[k].col])
        /\ \A k \in DOMAIN where : Truth(where[k], row) \in TruthValues
        /\ Truth(And(kids), row) = Least({Truth(kids[k], row) : k \in DOMAIN kids})
    <3>1. PICK w : w = <<where, conds>>
      OBVIOUS
    <3>2. w \in {<<g.q.where, Injected(g)>> : g \in GateTasks} /\ w[1] = where /\ w[2] = conds
      BY <3>1
    <3>3. MeansLikeSql(where, conds, row)
      BY <3>2, TruthAssumption
    <3> QED
      BY <2>1, <3>3 DEF MeansLikeSql
  <2>3. where \in Seq(ElementsOf(where)) /\ (where = <<>> \/ where = <<where[1]>>)
    <3>1. where = <<>> \/ where = <<where[1]>>
      BY GateAssumption
    <3>2. CASE where = <<>>
      BY <3>1, <3>2
    <3>3. CASE where = <<where[1]>>
      <4>1. PICK c : c = where[1]
        OBVIOUS
      <4>2. where = <<c>> /\ ElementsOf(where) = {c}
        BY <3>3, <4>1, ElementsOfShort
      <4>3. <<c>> \in Seq({c})
        BY ElementsOfShort
      <4> QED
        BY <3>1, <4>2, <4>3
    <3> QED
      BY <3>1, <3>2, <3>3
  <2>4. ElementsOf(kids) = ElementsOf(where) \cup ElementsOf(conds)
    <3>1. PICK X : X = ElementsOf(where) \cup ElementsOf(conds)
      OBVIOUS
    <3>2. where \in Seq(X) /\ conds \in Seq(X)
      BY <1>1, <2>3, <3>1, SeqMonotonic
    <3> QED
      BY <2>1, <3>2, ElementsOfConcat
  <2>5. PICK S : S = {Truth(c, row) : c \in ElementsOf(kids)}
    OBVIOUS
  <2>6. Truth(And(kids), row) = Least(S)
    <3>1. {Truth(kids[k], row) : k \in DOMAIN kids} = S
      BY <2>5 DEF ElementsOf
    <3> QED
      BY <2>2, <3>1
  <2>7. /\ \A c \in ElementsOf(conds) : Truth(c, row) = EvalCompare(c, row[c.col])
        /\ \A c \in ElementsOf(where) : Truth(c, row) \in TruthValues
    BY <2>2 DEF ElementsOf
  <2>8. S \in SUBSET TruthValues
    BY <1>1, <2>4, <2>5, <2>7
  <2>9. Least(S) = True <=> \A c \in ElementsOf(kids) : Truth(c, row) = True
    BY <2>5, <2>8, LeastTrue
  <2>10. Selects(InjectWhere(where, conds), row) <=> Truth(And(kids), row) = True
    <3>1. InjectWhere(where, conds) = <<And(kids)>>
      BY <1>3, <2>1 DEF InjectWhere
    <3>2. PICK a : a = And(kids)
      OBVIOUS
    <3>3. <<a>> # <<>> /\ <<a>>[1] = a
      OBVIOUS
    <3> QED
      BY <3>1, <3>2, <3>3 DEF Selects
  <2>11. Selects(where, row) <=> \A c \in ElementsOf(where) : Truth(c, row) = True
    <3>1. CASE where = <<>>
      BY <3>1, ElementsOfShort DEF Selects
    <3>2. CASE where # <<>>
      <4>1. PICK c : c = where[1]
        OBVIOUS
      <4>2. ElementsOf(where) = {c}
        BY <2>3, <3>2, <4>1, ElementsOfShort
      <4> QED
        BY <3>2, <4>1, <4>2 DEF Selects
    <3> QED
      BY <3>1, <3>2
  <2> QED
    BY <1>1, <2>4, <2>6, <2>7, <2>9, <2>10, <2>11
<1> QED
  BY <1>2, <1>3

\* What the gate let through, and with which filter.
LEMMA Accepted ==
    ASSUME NEW t \in GateTasks, NEW a, a = Authorize(t.reg, t.rc, t.q), a.ok,
           NEW check, check = PolicyTerms(t.reg.policies, t.rc.role, t.q.rel, "check")
    PROVE  /\ t.q.kind # "insert" => a.query.where = InjectWhere(t.q.where, Injected(t))
           /\ t.q.kind = "insert" => a.query.where = t.q.where
           /\ t.q.kind \in {"insert", "upsert"} =>
                \A k \in DOMAIN t.q.write.rows : EvalPredicate(check, t.rc.claims, t.q.write.rows[k], FALSE)
           /\ t.q.kind = "update" => EvalPredicate(check, t.rc.claims, t.q.write.set, TRUE)
           /\ \A act \in WriteColumnActions(t.q.kind) :
                GateWriteColumns(Granted(t.reg.grants, t.rc.role, t.q.rel, act), t.q.write)
           /\ t.q.kind = "read" \/ t.q.write.return = "representation" =>
                GateSelect(Granted(t.reg.grants, t.rc.role, t.q.rel, "select"), t.q.select)
<1> DEFINE q == t.q
           G(action) == Granted(t.reg.grants, t.rc.role, q.rel, action)
           projects == q.kind = "read" \/ q.write.return = "representation"
           using == PolicyTerms(t.reg.policies, t.rc.role, q.rel, "using")
           where == IF q.kind = "insert" THEN q.where
                    ELSE InjectWhere(q.where, UsingConds(using, t.rc.claims))
           checked == CASE q.kind \in {"insert", "upsert"} ->
                             \A k \in DOMAIN q.write.rows :
                               EvalPredicate(check, t.rc.claims, q.write.rows[k], FALSE)
                        [] q.kind = "update" -> EvalPredicate(check, t.rc.claims, q.write.set, TRUE)
                        [] OTHER -> TRUE
           denied == \/ \E act \in ActionsFor(q.kind) : G(act) = {}
                     \/ projects /\ ~GateSelect(G("select"), q.select)
                     \/ \E act \in WriteColumnActions(q.kind) : ~GateWriteColumns(G(act), q.write)
<1>1. a = IF denied THEN Denied ELSE IF ~checked THEN Violation
          ELSE [ok |-> TRUE, query |-> [q EXCEPT !.where = where]]
  BY Zenon DEF Authorize
<1>2. ~Denied.ok /\ ~Violation.ok
  BY DEF Denied, Violation
<1> HIDE DEF denied, checked, where
<1>3. ~denied /\ checked /\ a = [ok |-> TRUE, query |-> [q EXCEPT !.where = where]]
  BY <1>1, <1>2, Zenon
<1>4. a.query = [q EXCEPT !.where = where]
  BY <1>3
<1>5. a.query.where = where
  <2>1. "where" \in DOMAIN q
    BY GateAssumption DEF IsRecord
  <2> QED
    BY <1>4, <2>1
<1>6. /\ q.kind \in {"insert", "upsert"} =>
           \A k \in DOMAIN q.write.rows : EvalPredicate(check, t.rc.claims, q.write.rows[k], FALSE)
      /\ q.kind = "update" => EvalPredicate(check, t.rc.claims, q.write.set, TRUE)
  <2>1. CASE q.kind \in {"insert", "upsert"}
    <3>1. q.kind # "update"
      BY <2>1
    <3> QED
      BY <1>3, <2>1, <3>1 DEF checked
  <2>2. CASE q.kind = "update"
    <3>1. q.kind \notin {"insert", "upsert"}
      BY <2>2
    <3> QED
      BY <1>3, <2>2, <3>1 DEF checked
  <2> QED
    BY <2>1, <2>2
<1>7. /\ \A act \in WriteColumnActions(q.kind) : GateWriteColumns(G(act), q.write)
      /\ projects => GateSelect(G("select"), q.select)
  BY <1>3, Zenon DEF denied
<1>8. /\ q.kind # "insert" => where = InjectWhere(q.where, Injected(t))
      /\ q.kind = "insert" => where = q.where
  BY Zenon DEF where, Injected
<1> QED
  BY <1>5, <1>6, <1>7, <1>8

\* A term that the check passed passes on the row, wherever the row has the column.
LEMMA CheckedTerm ==
    ASSUME NEW t \in GateTasks, NEW check, check = PolicyTerms(t.reg.policies, t.rc.role, t.q.rel, "check"),
           NEW row, NEW skip \in BOOLEAN, EvalPredicate(check, t.rc.claims, row, skip),
           NEW x \in MyTerms(t, "check")
    PROVE  /\ x.col \notin DOMAIN row => skip
           /\ x.col \in DOMAIN row => Passes(x, t.rc.claims, row)
<1>1. IsTerm(x) /\ ElementsOf(check) = MyTerms(t, "check")
  BY TaskTerms
<1>2. PICK k \in DOMAIN check : x = check[k]
  BY <1>1 DEF ElementsOf
<1>3. PICK rhs, claims : rhs = ResolveRHS(x, claims) /\ claims = t.rc.claims
  OBVIOUS
<1>4. IF x.col \notin DOMAIN row THEN skip
      ELSE rhs # <<>> /\ (x.op = "eq") = (Text(row[x.col]) = rhs[1])
  BY <1>2, <1>3, Zenon DEF EvalPredicate
<1>5. ASSUME x.col \in DOMAIN row, row[x.col] # Null PROVE Admits(x, claims, row)
  <2>1. PICK v, w : v = row[x.col] /\ w = IF x.claim = <<>> THEN x.lit ELSE Text(claims[x.claim])
    OBVIOUS
  <2>2. rhs # <<>> /\ rhs[1] = w /\ (x.claim # <<>> => x.claim \in DOMAIN claims)
    BY <1>1, <1>3, <1>4, <1>5, <2>1, RightHandSide
  <2>3. Text(v) = v
    BY <1>5, <2>1 DEF Text
  <2>4. (x.op = "eq") = (v = w)
    BY <1>4, <1>5, <2>1, <2>2, <2>3
  <2> QED
    BY <1>5, <2>1, <2>2, <2>4 DEF Admits
<1> QED
  BY <1>3, <1>4, <1>5 DEF Passes

\* What PolicyHolds says of the answer to a task.
LEMMA PolicyAnswer ==
    ASSUME NEW t \in GateTasks, NEW a, a = Authorize(t.reg, t.rc, t.q), a.ok, t.q.kind \in Filtered,
           NEW row \in TableRows
    PROVE  Selects(a.query.where, row) <=>
             Selects(t.q.where, row) /\ \A x \in MyTerms(t, "using") : Admits(x, t.rc.claims, row)
<1>1. a.query.where = InjectWhere(t.q.where, Injected(t))
  BY Accepted DEF Filtered
<1>2. PICK where, conds : where = t.q.where /\ conds = Injected(t)
  OBVIOUS
<1> QED
  BY <1>1, <1>2, WhereMeans

\* What WritesPassCheck says of the rows an accepted insert or upsert gives.
LEMMA InsertAnswer ==
    ASSUME NEW t \in GateTasks, NEW a, a = Authorize(t.reg, t.rc, t.q), a.ok,
           t.q.kind \in {"insert", "upsert"},
           NEW k \in DOMAIN t.q.write.rows, NEW x \in MyTerms(t, "check")
    PROVE  /\ x.col \in DOMAIN t.q.write.rows[k] /\ Passes(x, t.rc.claims, t.q.write.rows[k])
           /\ \A old \in TableRows : Passes(x, t.rc.claims, After(old, t.q.write.rows[k]))
<1>1. PICK check, row, claims : /\ check = PolicyTerms(t.reg.policies, t.rc.role, t.q.rel, "check")
                                /\ row = t.q.write.rows[k] /\ claims = t.rc.claims
  OBVIOUS
<1>2. PICK skip \in BOOLEAN : skip = FALSE
  OBVIOUS
<1>3. EvalPredicate(check, claims, row, FALSE)
  BY <1>1, Accepted, Zenon
<1>4. EvalPredicate(check, claims, row, skip)
  BY <1>2, <1>3, Zenon
<1>5. /\ x.col \notin DOMAIN row => skip
      /\ x.col \in DOMAIN row => Passes(x, claims, row)
  BY <1>1, <1>4, CheckedTerm, Zenon
<1>6. x.col \in DOMAIN row /\ Passes(x, claims, row)
  BY <1>2, <1>5
<1>7. ASSUME NEW old \in TableRows PROVE Passes(x, claims, After(old, row))
  <2>1. PICK new : new = After(old, row)
    OBVIOUS
  <2>2. x.col \in DOMAIN old
    BY TaskTerms
  <2>3. new[x.col] = row[x.col]
    BY <1>6, <2>1, <2>2 DEF After
  <2> QED
    BY <1>6, <2>1, <2>3 DEF Passes, Admits
<1> QED
  BY <1>1, <1>6, <1>7

\* What WritesPassCheck says of the rows an accepted update leaves.
LEMMA UpdateAnswer ==
    ASSUME NEW t \in GateTasks, NEW a, a = Authorize(t.reg, t.rc, t.q), a.ok, t.q.kind = "update",
           NEW row \in TableRows, Selects(a.query.where, row), NEW x \in MyTerms(t, "check"),
           x.col \in DOMAIN t.q.write.set \/ x \in MyTerms(t, "using")
    PROVE  Passes(x, t.rc.claims, After(row, t.q.write.set))
<1>1. PICK check, set, claims : /\ check = PolicyTerms(t.reg.policies, t.rc.role, t.q.rel, "check")
                                /\ set = t.q.write.set /\ claims = t.rc.claims
  OBVIOUS
<1>2. PICK new : new = After(row, set)
  OBVIOUS
<1>3. x.col \in DOMAIN row
  BY <1>1, TaskTerms
<1>4. new[x.col] = IF x.col \in DOMAIN set THEN set[x.col] ELSE row[x.col]
  BY <1>2, <1>3 DEF After
<1>5. CASE x.col \in DOMAIN set
  <2>1. PICK skip \in BOOLEAN : skip = TRUE
    OBVIOUS
  <2>2. EvalPredicate(check, claims, set, TRUE)
    BY <1>1, Accepted, Zenon
  <2>3. EvalPredicate(check, claims, set, skip)
    BY <2>1, <2>2, Zenon
  <2>4. Passes(x, claims, set)
    BY <1>1, <1>5, <2>3, CheckedTerm, Zenon
  <2>5. new[x.col] = set[x.col]
    BY <1>4, <1>5
  <2>6. Passes(x, claims, new)
    BY <2>4, <2>5 DEF Passes, Admits
  <2> QED
    BY <1>1, <1>2, <2>6
<1>6. CASE x.col \notin DOMAIN set
  <2>1. x \in MyTerms(t, "using") /\ t.q.kind \in Filtered
    BY <1>1, <1>6 DEF Filtered
  <2>2. Admits(x, claims, row)
    BY <1>1, <2>1, PolicyAnswer
  <2>3. new[x.col] = row[x.col]
    BY <1>4, <1>6
  <2>4. Passes(x, claims, new)
    BY <2>2, <2>3 DEF Passes, Admits
  <2> QED
    BY <1>1, <1>2, <2>4
<1> QED
  BY <1>5, <1>6

\* What ColumnsGranted says of the columns an accepted write names.
LEMMA WrittenColumns ==
    ASSUME NEW t \in GateTasks, NEW a, a = Authorize(t.reg, t.rc, t.q), a.ok,
           NEW act \in WriteColumnActions(t.q.kind)
    PROVE  Covered(t, act, t.q.write.columns \cup DOMAIN t.q.write.set)
<1>1. PICK gs, cols : gs = GrantsFor(t, act) /\ cols = t.q.write.columns \cup DOMAIN t.q.write.set
  OBVIOUS
<1>2. GateWriteColumns(gs, t.q.write)
  BY <1>1, Accepted DEF GrantsFor
<1>3. gs # {} /\ \A c \in cols : \E g \in gs : g.cols = {} \/ c \in g.cols
  <2>1. CASE AllColumns(gs)
    BY <2>1 DEF AllColumns
  <2>2. CASE gs # {} /\ cols \subseteq GrantedColumns(gs)
    BY <2>2 DEF GrantedColumns
  <2> QED
    BY <1>1, <1>2, <2>1, <2>2 DEF GateWriteColumns
<1> QED
  BY <1>1, <1>3 DEF Covered

\* What ColumnsGranted says of the plain columns an accepted request reads.
LEMMA ReadColumns ==
    ASSUME NEW t \in GateTasks, NEW a, a = Authorize(t.reg, t.rc, t.q), a.ok,
           t.q.kind = "read" \/ t.q.write.return = "representation"
    PROVE  IF t.q.select = <<>> \/ "*" \in Named(t.q.select)
           THEN \E g \in GrantsFor(t, "select") : g.cols = {}
           ELSE Covered(t, "select", Named(t.q.select))
<1>1. PICK gs, select : gs = GrantsFor(t, "select") /\ select = t.q.select
  OBVIOUS
<1>2. GateSelect(gs, select)
  BY <1>1, Accepted DEF GrantsFor
<1>3. CASE AllColumns(gs)
  BY <1>1, <1>3 DEF AllColumns, Covered
<1>4. CASE /\ gs # {} /\ select # <<>>
           /\ \A k \in DOMAIN select : select[k].item = "column" =>
                select[k].name # "*" /\ select[k].name \in GrantedColumns(gs)
  <2>1. \A c \in Named(select) : c # "*" /\ c \in GrantedColumns(gs)
    BY <1>4 DEF Named
  <2>2. \A c \in Named(select) : \E g \in gs : c \in g.cols
    BY <2>1 DEF GrantedColumns
  <2> QED
    BY <1>1, <1>4, <2>1, <2>2 DEF Covered
<1> QED
  BY <1>2, <1>3, <1>4 DEF GateSelect

\* What the gate promises of the relation a request names, for all policies, grants,
\* queries and tables and whatever the client's own filter means: an accepted read,
\* update or delete reaches only rows that its filter and every policy of the role
\* select, an accepted write leaves only rows that pass WITH CHECK, and only granted
\* columns are named (Authorize, injectWhere, evalPredicate, gateSelect).
THEOREM PoliciesAreEnforced == DecideSpec => []PoliciesEnforced
<1>1. ASSUME AnswerInv PROVE PoliciesEnforced
  <2>1. Answered("gate") => task \in GateTasks /\ out[1] = Authorize(task.reg, task.rc, task.q)
    BY <1>1, KindOfTask DEF AnswerInv, Answered
  <2>2. PolicyHolds
    BY <2>1, PolicyAnswer DEF PolicyHolds
  <2>3. ASSUME Answered("gate"), out[1].ok
        PROVE  /\ task.q.kind \in {"insert", "upsert"} =>
                    \A k \in DOMAIN task.q.write.rows : \A x \in MyTerms(task, "check") :
                      /\ x.col \in DOMAIN task.q.write.rows[k] /\ Passes(x, task.rc.claims, task.q.write.rows[k])
                      /\ \A row \in TableRows : Passes(x, task.rc.claims, After(row, task.q.write.rows[k]))
               /\ task.q.kind = "update" =>
                    \A row \in TableRows : Selects(out[1].query.where, row) =>
                      \A x \in MyTerms(task, "check") :
                        x.col \in DOMAIN task.q.write.set \/ x \in MyTerms(task, "using") =>
                          Passes(x, task.rc.claims, After(row, task.q.write.set))
    <3>1. task \in GateTasks /\ out[1] = Authorize(task.reg, task.rc, task.q)
      BY <2>1, <2>3
    <3>2. task.q.kind \in {"insert", "upsert"} =>
            \A k \in DOMAIN task.q.write.rows : \A x \in MyTerms(task, "check") :
              /\ x.col \in DOMAIN task.q.write.rows[k] /\ Passes(x, task.rc.claims, task.q.write.rows[k])
              /\ \A row \in TableRows : Passes(x, task.rc.claims, After(row, task.q.write.rows[k]))
      BY <2>3, <3>1, InsertAnswer
    <3>3. task.q.kind = "update" =>
            \A row \in TableRows : Selects(out[1].query.where, row) =>
              \A x \in MyTerms(task, "check") :
                x.col \in DOMAIN task.q.write.set \/ x \in MyTerms(task, "using") =>
                  Passes(x, task.rc.claims, After(row, task.q.write.set))
      BY <2>3, <3>1, UpdateAnswer
    <3> QED
      BY <3>2, <3>3
  <2>4. WritesPassCheck
    BY <2>3, Zenon DEF WritesPassCheck
  <2>5. ASSUME Answered("gate"), out[1].ok
        PROVE  /\ \A act \in WriteColumnActions(task.q.kind) :
                    Covered(task, act, task.q.write.columns \cup DOMAIN task.q.write.set)
               /\ task.q.kind = "read" \/ task.q.write.return = "representation" =>
                    IF task.q.select = <<>> \/ "*" \in Named(task.q.select)
                    THEN \E g \in GrantsFor(task, "select") : g.cols = {}
                    ELSE Covered(task, "select", Named(task.q.select))
    <3>1. task \in GateTasks /\ out[1] = Authorize(task.reg, task.rc, task.q)
      BY <2>1, <2>5
    <3> QED
      BY <2>5, <3>1, WrittenColumns, ReadColumns
  <2>6. ColumnsGranted
    BY <2>5, Zenon DEF ColumnsGranted
  <2> QED
    BY <2>2, <2>4, <2>6 DEF PoliciesEnforced
<1> QED
  BY <1>1, AnswersInvariant, PTL

=============================================================================
