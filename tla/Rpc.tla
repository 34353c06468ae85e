--------------------------------- MODULE Rpc --------------------------------
(***************************************************************************)
(* The function registry (rpc/registry.go): overloads of a name, which one *)
(* an argument set calls, and how a declared registry and the engine's own *)
(* functions are merged. A function is [name, params, volatile, returns,   *)
(* source]; params is a sequence of [name, type, optional, variadic].      *)
(***************************************************************************)
EXTENDS Integers, Sequences, FiniteSets

ParamNames(f) == {f.params[k].name : k \in DOMAIN f.params}
Required(f) ==
    {f.params[k].name : k \in {j \in DOMAIN f.params : ~f.params[j].optional /\ ~f.params[j].variadic}}
Signature(f) == [name |-> f.name, params |-> [k \in DOMAIN f.params |-> <<f.params[k].name, f.params[k].type>>]]

Satisfiable(f, args) == Required(f) \subseteq args /\ args \subseteq ParamNames(f)
ExactMatch(f, args) == Cardinality(args) = Len(f.params) /\ ParamNames(f) \subseteq args

ExactBonus == 1000
Score(f, args) == Cardinality(Required(f)) + IF ExactMatch(f, args) THEN ExactBonus ELSE 0

NoFunction == [ok |-> FALSE, err |-> "PGRST202"]
AmbiguousFunction(sigs) == [ok |-> FALSE, err |-> "PGRST203", sigs |-> sigs]
Chosen(f) == [ok |-> TRUE, fn |-> f]

\* The registry is the sequence of its functions, as List gives them. One round
\* of the loop: the best score so far and the positions of the functions that
\* have it.
Better(acc, k, score) ==
    CASE score > acc.score -> [score |-> score, tied |-> {k}]
      [] score = acc.score -> [acc EXCEPT !.tied = @ \cup {k}]
      [] OTHER -> acc

Candidate(f, name, args) == f.name = name /\ Satisfiable(f, args)
Rank(reg, name, args) ==
    LET best[n \in 0..Len(reg)] ==
          IF n = 0 THEN [score |-> -1, tied |-> {}]
          ELSE IF Candidate(reg[n], name, args) THEN Better(best[n - 1], n, Score(reg[n], args))
          ELSE best[n - 1]
    IN  best[Len(reg)]
Resolve(reg, name, args) ==
    LET tied == Rank(reg, name, args).tied
    IN  CASE tied = {} -> NoFunction
          [] Cardinality(tied) = 1 -> Chosen(reg[CHOOSE k \in tied : TRUE])
          [] OTHER -> AmbiguousFunction({Signature(reg[k]) : k \in tied})

\* The functions of a name, as declared.
Overloads(fns, name) ==
    LET upTo[n \in 0..Len(fns)] ==
          IF n = 0 THEN <<>>
          ELSE IF fns[n].name = name THEN Append(upTo[n - 1], fns[n]) ELSE upTo[n - 1]
    IN  upTo[Len(fns)]

\* One name after the other in their sorted order, which names is.
NewStaticRegistry(fns, names) ==
    LET upTo[n \in 0..Len(names)] ==
          IF n = 0 THEN <<>> ELSE upTo[n - 1] \o Overloads(fns, names[n])
    IN  upTo[Len(names)]

\* Faulty variant: a declared function hides every function of its name.
HiddenByName(primary, f) == \E k \in DOMAIN primary : primary[k].name = f.name

\* A declared function hides the engine's one of the same signature, and only it.
Hidden(primary, f) == \E k \in DOMAIN primary : Signature(primary[k]) = Signature(f)
Both(primary, secondary) ==
    LET upTo[n \in 0..Len(secondary)] ==
          IF n = 0 THEN primary
          ELSE IF Hidden(primary, secondary[n]) THEN upTo[n - 1]
          ELSE Append(upTo[n - 1], secondary[n])
    IN  upTo[Len(secondary)]
Merge(primary, secondary, names) ==
    IF primary = <<>> THEN secondary
    ELSE IF secondary = <<>> THEN primary
    ELSE NewStaticRegistry(Both(primary, secondary), names)

\* The parameters of all overloads of a name decide what is an argument of a GET
\* call.
ParamNameSet(reg, name) == UNION {ParamNames(reg[k]) : k \in {j \in DOMAIN reg : reg[j].name = name}}
VariadicNameSet(reg, name) ==
    UNION {{reg[k].params[i].name : i \in {i \in DOMAIN reg[k].params : reg[k].params[i].variadic}} :
             k \in {j \in DOMAIN reg : reg[j].name = name}}

\* The overload the hint of a PGRST202 shows; 0 for none.
Closeness(f, args) ==
    Cardinality(ParamNames(f) \cap args) - Cardinality(ParamNames(f) \ args)
NearestSignature(reg, name, args) ==
    LET mine == {k \in DOMAIN reg : reg[k].name = name /\ Closeness(reg[k], args) > -1}
        best == {k \in mine : \A j \in mine : Closeness(reg[j], args) <= Closeness(reg[k], args)}
    IN  IF best = {} THEN 0 ELSE CHOOSE k \in best : \A j \in best : k <= j

\* ParseRegistry of the configuration: a schema prefix is dropped, a volatility
\* that is missing or unknown is volatile.
ParseDecl(d) ==
    [name |-> d.name, params |-> d.params, volatile |-> d.volatility \notin {"stable", "immutable"},
     returns |-> d.returns, source |-> "declared"]
=============================================================================
