--------------------------- MODULE EmulatedProofs ---------------------------
(***************************************************************************)
(* Proofs about the emulated data planes, for every number of requests,    *)
(* connections and keys and for every set of request shapes.               *)
(***************************************************************************)
EXTENDS Emulated, FiniteSetTheorems, TLAPS

(***************************************************************************)
(* The inductive invariant. It speaks of a data plane b, one handler j,    *)
(* the committed table t and the session ids l of the connections.         *)
(***************************************************************************)
Pages == {"count", "page", "stream"}
Transactional == {"begin", "capture", "detect", "mutate", "reselect", "enforce", "commit"}
Holding == {"stream", "capture", "detect", "mutate", "reselect", "enforce", "commit"}
Documents == {"insert", "upsert", "update", "delete"}
Early == {"idle", "count", "page", "check", "write", "begin", "capture", "detect", "mutate"}

\* Which handlers can be where, and with what.
Placed(b, j) ==
    /\ (j.conn # None) <=> (j.pc \in Holding)
    /\ j.conn = None => j.ws = Untouched
    /\ b = "sqlite" => j.conn \in {None} \cup PoolOf("sqlite")
    /\ j.pc \in Pages => j.shape.kind = "read"
    /\ j.pc \in Transactional => b # "mongo" /\ j.shape.kind # "read"
    /\ j.pc \in {"check", "write"} \cup Kinds =>
         b = "mongo" /\ j.shape.kind \in Documents
    /\ j.pc = "check" => j.shape.kind \in {"update", "delete"}
    /\ j.pc \in Kinds => j.pc = j.shape.kind
    /\ j.pc = "capture" => /\ b = "mysql" /\ j.shape.repr
                           /\ j.shape.kind = "delete" \/ (j.shape.kind = "update" /\ j.shape.single)
    /\ j.pc = "detect" => b = "sqlite" /\ j.shape.kind = "upsert" /\ ~j.shape.ignore
    /\ j.pc = "reselect" => b = "mysql" /\ j.shape.kind \in {"insert", "upsert", "update"}
    /\ j.pc \in Early => j.hit = {} /\ j.durable = {}
    /\ j.pc = "idle" => j.rows = {}

\* The bounds that a transaction has to meet before it commits.
Bounded(b, j) ==
    /\ j.shape.kind # "call" /\ j.shape.max # None => Cardinality(j.hit) <= j.shape.max
    /\ b = "sqlite" /\ j.shape.kind # "call" /\ j.shape.object => Cardinality(j.hit) = 1

\* SQL: nothing is durable before the commit, and the count that is enforced is
\* never below the number of rows touched.
Guarded(b, j) ==
    b # "mongo" =>
      /\ j.pc \in {"reselect", "enforce", "commit"} =>
           /\ Cardinality(j.hit) <= j.affected
           /\ b = "sqlite" => Cardinality(j.hit) = j.affected
      /\ j.pc = "commit" => ~j.shape.rollback /\ Bounded(b, j)
      /\ j.durable # {} => /\ j.pc = "done" /\ j.ending \in {"ok", "commit"}
                           /\ j.durable = j.hit /\ ~j.shape.rollback /\ Bounded(b, j)

\* MongoDB: what is touched is durable at once, and an insert has no more
\* documents to write than the bound let in.
Size(s) == IF s.auto > 0 THEN s.auto ELSE Cardinality(s.keys)
Visited(b, j) ==
    b = "mongo" =>
      /\ j.durable = j.hit
      /\ j.pc = "done" /\ j.ending \in {"max", "unsupported"} => j.hit = {}
      /\ j.pc \in {"write", "insert", "upsert"} /\ j.shape.kind \in {"insert", "upsert"} =>
           ~Exceeds(j.shape, Size(j.shape))
      /\ j.pc \in {"insert", "upsert"} =>
           IsFiniteSet(j.todo) /\ Cardinality(j.hit \cup j.todo) <= Size(j.shape)
      /\ j.pc \in {"update", "delete"} => j.todo \subseteq Ids
      /\ j.pc = "done" /\ j.shape.kind \in {"insert", "upsert"} =>
           ~Exceeds(j.shape, Cardinality(j.hit))

\* When the representation is the rows touched (the condition of ReturnsOwnRows).
Exact(b, j) ==
    CASE b = "mysql" ->
           /\ j.quiet /\ j.shape.single
           /\ j.shape.kind \in {"update", "delete", "call"} \/ j.shape.auto > 0
      [] b = "mongo" -> j.quiet /\ j.shape.kind = "delete"
      [] OTHER -> TRUE

\* What MySQL's selects found, what MongoDB's delete has still to visit, and what
\* is returned in the end.
Represented(b, j, t, l) ==
    /\ b = "mysql" /\ j.pc = "mutate" /\ j.shape.repr
       /\ (j.shape.kind = "delete" \/ (j.shape.kind = "update" /\ j.shape.single)) =>
         /\ j.quiet => j.keys = Matches(t, j.shape)
         /\ j.shape.kind = "delete" => j.rows = j.keys
    /\ j.pc = "reselect" /\ j.shape.repr =>
         /\ \A i \in j.hit : j.ws[i] \in Cells
         /\ j.shape.kind = "update" /\ j.quiet /\ j.shape.single => j.keys = j.hit
         /\ j.shape.auto > 0 => j.hit = l[j.conn] .. (l[j.conn] + j.affected - 1)
    /\ b # "mongo" /\ j.pc \in {"enforce", "commit"} /\ j.shape.repr /\ Exact(b, j) =>
         j.rows = j.hit
    /\ b = "mongo" /\ j.pc = "delete" /\ j.shape.repr /\ j.quiet =>
         j.rows = j.hit \cup (Matches(t, j.shape) \cap j.todo)
    /\ j.pc = "done" /\ j.ending = "ok" /\ j.shape.kind # "read" /\ j.shape.repr /\ Exact(b, j) =>
         j.rows = j.hit

\* The rows that an upsert on SQLite was found to create.
Detected(b, j, t) ==
    /\ j.made # None => b = "sqlite" /\ j.shape.kind = "upsert" /\ ~j.shape.ignore
    /\ j.pc \in Early \ {"mutate"} => j.made = None
    /\ j.pc = "mutate" /\ j.made # None =>
         j.made = Cardinality({i \in j.shape.keys : t[i] = None})
    /\ j.pc \in {"enforce", "commit"} /\ j.made # None => j.made = j.new

\* The total that a read counted.
Counted(j, t) ==
    /\ j.total # None => j.shape.kind = "read"
    /\ j.pc \in {"idle", "count"} => j.total = None
    /\ j.pc = "page" /\ j.total # None /\ j.quiet => j.total = Cardinality(Matches(t, j.shape))
    /\ j.pc = "stream" /\ j.total # None /\ j.quiet => j.total = Cardinality(j.rows)
    /\ j.pc = "done" /\ j.ending = "ok" /\ j.total # None /\ j.quiet =>
         j.total = Cardinality(j.rows)

Sound(b, j, t, l) ==
    /\ j \in JobState
    /\ Placed(b, j) /\ Guarded(b, j) /\ Visited(b, j) /\ Represented(b, j, t, l)
    /\ Detected(b, j, t) /\ Counted(j, t)

Served == \A r \in Reqs : Sound(backend, job[r], table, last)
IInv == TypeOK /\ Served

-----------------------------------------------------------------------------
(* Numbers and sets.                                                       *)

\* The least-number principle, for a set.
LEMMA LeastNumber ==
    ASSUME NEW S \in SUBSET Nat, S # {}
    PROVE  \E i \in S : \A k \in S : i <= k
<1> DEFINE R == OpToRel(<, Nat)
<1>1. IsWellFoundedOn(R, Nat)
  BY NatLessThanWellFounded
<1>2. PICK x \in S : \A y \in S : <<y, x>> \notin R
  <2> HIDE DEF R
  <2> QED
    BY <1>1, WFMin, Zenon
<1>3. ASSUME NEW k \in S PROVE x <= k
  <2>1. ~(k < x)
    BY <1>2 DEF OpToRel
  <2> QED
    BY <2>1
<1> QED
  BY <1>3

\* The documents of a command are visited from the least key on.
LEMMA LeastIsIn ==
    ASSUME NEW S \in SUBSET Nat, S # {}
    PROVE  Least(S) \in S
BY LeastNumber DEF Least

\* Sets of keys are finite and have a size.
LEMMA KeysFinite ==
    ASSUME NEW S \in SUBSET Ids
    PROVE  IsFiniteSet(S) /\ Cardinality(S) \in Nat
<1>1. IsFiniteSet(Ids)
  BY EmulatedAssumption, FS_Interval DEF Ids
<1> QED
  BY <1>1, FS_Subset, FS_CardinalityType

\* Where the counter goes after an insert: there is such a number.
LEMMA CounterMoves ==
    ASSUME NEW k \in 1 .. (MaxId + 1), NEW hit \in SUBSET Ids
    PROVE  \E n \in k .. (MaxId + 1) : (\A i \in hit : i < n) /\ (n = k \/ n - 1 \in hit)
<1> DEFINE S == {n \in Nat : n >= k /\ \A i \in hit : i < n}
<1>0. MaxId \in Nat /\ hit \subseteq 1 .. MaxId
  BY EmulatedAssumption DEF Ids
<1>1. MaxId + 1 \in S /\ S \subseteq Nat
  BY <1>0
<1>2. PICK n \in S : \A m \in S : n <= m
  BY <1>1, LeastNumber
<1>3. n <= MaxId + 1 /\ n \in Nat /\ n >= k /\ \A i \in hit : i < n
  BY <1>1, <1>2
<1>4. CASE n # k
  <2>1. n - 1 \in Nat /\ n - 1 >= k
    BY <1>3, <1>4
  <2>2. PICK i \in hit : ~(i < n - 1)
    BY <1>2, <2>1
  <2>3. i = n - 1
    BY <1>0, <1>3, <2>1, <2>2
  <2> QED
    BY <1>0, <1>3, <2>2, <2>3
<1>5. CASE n = k
  BY <1>0, <1>3, <1>5
<1> QED
  BY <1>4, <1>5

\* The counter stays a counter.
LEMMA AdvanceTypes ==
    ASSUME next \in 1 .. (MaxId + 1), NEW hit \in SUBSET Ids, Advance(hit)
    PROVE  next' \in 1 .. (MaxId + 1)
<1>0. MaxId \in Nat
  BY EmulatedAssumption
<1>1. \E n \in next .. (MaxId + 1) : (\A i \in hit : i < n) /\ (n = next \/ n - 1 \in hit)
  BY CounterMoves
<1>2. next' \in next .. (MaxId + 1)
  BY <1>1 DEF Advance
<1> QED
  BY <1>0, <1>2

\* The constants: shapes are shapes, the absent value is none of the others.
LEMMA Constants ==
    /\ MaxId \in Nat /\ Conns # {} /\ Backends \subseteq AllBackends
    /\ \A s \in Shapes : s \in Shape /\ (s.auto > 0 => s.kind = "insert")
    /\ None \notin Nat /\ None \notin Conns /\ None \notin Endings /\ None \notin Tables
    /\ None \notin Cells /\ Keep \notin Cells /\ Keep # None
    /\ PoolOf("sqlite") \subseteq Conns /\ \A x, y \in PoolOf("sqlite") : x = y
BY EmulatedAssumption DEF Row, Cells, PoolOf

\* What a filter matches are keys of rows.
LEMMA MatchesFinite ==
    ASSUME NEW t, NEW s
    PROVE  Matches(t, s) \in SUBSET Ids /\ Cardinality(Matches(t, s)) \in Nat
<1>1. Matches(t, s) \in SUBSET Ids
  BY DEF Matches
<1> QED
  BY <1>1, KeysFinite

-----------------------------------------------------------------------------
(* One handler moves.                                                      *)

\* A handler that ends is sound: it gives up its connection and its writes, and
\* what it answers was sound before.
LEMMA EndSound ==
    ASSUME NEW b \in AllBackends, NEW j, NEW t, NEW l, NEW e \in Endings,
           Sound(b, j, t, l), j.pc # "done",
           b = "mongo" /\ e \in {"max", "unsupported"} => j.hit = {},
           e = "ok" => /\ j.shape.kind # "read" /\ j.shape.repr /\ Exact(b, j) => j.rows = j.hit
                       /\ j.total # None /\ j.quiet => j.total = Cardinality(j.rows)
    PROVE  Sound(b, Ended(j, e), t, l)
<1> DEFINE n == Ended(j, e)
<1>0. j \in JobState /\ Untouched \in [Ids -> Row \cup {Keep}]
  BY DEF Sound, Untouched
<1>1. n \in JobState
  BY <1>0 DEF JobState, Ended, PCs
<1>2. /\ n.pc = "done" /\ n.conn = None /\ n.ws = Untouched /\ n.ending = e
      /\ n.shape = j.shape /\ n.hit = j.hit /\ n.rows = j.rows /\ n.total = j.total
      /\ n.made = j.made /\ n.durable = j.durable /\ n.quiet = j.quiet
  BY <1>0 DEF JobState, Ended
<1> HIDE DEF n
<1>3. Placed(b, n)
  BY <1>2, Constants DEF Placed, Holding, Pages, Transactional, Early, Kinds
<1>4. Guarded(b, n)
  BY <1>2 DEF Sound, Guarded
<1>5. Visited(b, n)
  <2>1. CASE j.pc \in Early
    <3>1. j.hit = {} /\ Cardinality({}) = 0
      BY <2>1, FS_EmptySet DEF Sound, Placed
    <3>2. j.shape.max # None => j.shape.max \in Nat
      BY <1>0, Constants DEF JobState, Shape
    <3> QED
      BY <1>2, <3>1, <3>2 DEF Sound, Visited, Exceeds
  <2>2. CASE b = "mongo" /\ j.pc \in {"insert", "upsert"}
    <3>1. /\ IsFiniteSet(j.todo) /\ IsFiniteSet(j.hit) /\ Cardinality(j.hit) \in Nat
      BY <1>0, <2>2, KeysFinite DEF Sound, Visited, JobState
    <3>2. /\ IsFiniteSet(j.hit \cup j.todo) /\ Cardinality(j.hit \cup j.todo) \in Nat
      BY <3>1, FS_Union, FS_CardinalityType
    <3>3. Cardinality(j.hit) <= Cardinality(j.hit \cup j.todo)
      BY <3>2, FS_Subset
    <3>4. j.shape.max # None => j.shape.max \in Nat
      BY <1>0, Constants DEF JobState, Shape
    <3>5. Size(j.shape) \in Nat
      BY <1>0, Constants, KeysFinite DEF JobState, Shape, Size
    <3>6. /\ ~Exceeds(j.shape, Size(j.shape)) /\ Cardinality(j.hit \cup j.todo) <= Size(j.shape)
      BY <2>2 DEF Sound, Visited, Placed, Kinds
    <3>7. ~Exceeds(j.shape, Cardinality(j.hit))
      BY <3>1, <3>2, <3>3, <3>4, <3>5, <3>6 DEF Exceeds
    <3> QED
      BY <1>2, <2>2, <3>7 DEF Sound, Visited
  <2>3. CASE b = "mongo" /\ j.pc \notin Early \cup {"insert", "upsert"}
    <3>1. j.shape.kind \notin {"insert", "upsert"}
      BY <1>0, <2>3 DEF Sound, Placed, JobState, PCs, Early, Transactional, Pages, Kinds
    <3> QED
      BY <1>2, <2>3, <3>1 DEF Sound, Visited
  <2>4. CASE b # "mongo"
    BY <2>4 DEF Visited
  <2> QED
    BY <2>1, <2>2, <2>3, <2>4
<1>6. Represented(b, n, t, l)
  BY <1>2 DEF Represented, Exact
<1>7. Detected(b, n, t)
  BY <1>2 DEF Sound, Detected, Early
<1>8. Counted(n, t)
  BY <1>2 DEF Sound, Counted
<1> QED
  BY <1>1, <1>3, <1>4, <1>5, <1>6, <1>7, <1>8 DEF Sound, n

-----------------------------------------------------------------------------
(* Everybody else stays sound.                                             *)

\* A step of r that writes no row: the others read the same table, and the session
\* id of their own connection.
LEMMA StepKeeps ==
    ASSUME IInv, NEW r \in Reqs, NEW n, Job(r, n), UNCHANGED <<backend, table>>,
           next' \in 1 .. (MaxId + 1), last' \in [Conns -> 0 .. MaxId],
           \A c \in Conns : c # job[r].conn => last'[c] = last[c],
           n.conn \in {None, job[r].conn} \cup IdleConns,
           Sound(backend, n, table, last')
    PROVE  IInv'
<1>1. /\ job \in [Reqs -> JobState] /\ n \in JobState
      /\ job' = [job EXCEPT ![r] = n] /\ backend' = backend /\ table' = table
  BY DEF IInv, TypeOK, Sound, Job
<1>2. ASSUME NEW q \in Reqs \ {r} PROVE Sound(backend, job[q], table, last')
  <2>1. Sound(backend, job[q], table, last)
    BY DEF IInv, Served
  <2>2. job[q].pc = "reselect" => last'[job[q].conn] = last[job[q].conn]
    <3>1. job[q].pc = "reselect" => job[q].conn # None /\ job[q].conn \in Conns
      BY <2>1 DEF Sound, Placed, Holding, JobState
    <3>2. job[q].conn # None => job[q].conn # job[r].conn
      BY DEF IInv, TypeOK
    <3> QED
      BY <3>1, <3>2
  <2>3. Represented(backend, job[q], table, last')
    BY <2>1, <2>2 DEF Sound, Represented
  <2> QED
    BY <2>1, <2>3 DEF Sound
<1>3. Served'
  <2> SUFFICES ASSUME NEW q \in Reqs PROVE Sound(backend, job'[q], table, last')
    BY <1>1 DEF Served
  <2>1. CASE q = r
    BY <1>1, <2>1
  <2>2. CASE q # r
    BY <1>1, <1>2, <2>2
  <2> QED
    BY <2>1, <2>2
<1>4. ASSUME NEW p \in Reqs, NEW q \in Reqs, p # q, job'[p].conn = job'[q].conn
      PROVE  job'[p].conn = None
  <2>1. ASSUME NEW x \in Reqs \ {r}, n.conn = job[x].conn PROVE n.conn = None
    BY <2>1 DEF IInv, TypeOK, IdleConns
  <2> QED
    BY <1>1, <1>4, <2>1 DEF IInv, TypeOK
<1>5. job' \in [Reqs -> JobState]
  BY <1>1
<1>6. ASSUME NEW q \in Reqs, job'[q].conn = None PROVE job'[q].ws = Untouched
  BY <1>3, <1>6 DEF Served, Sound, Placed
<1> QED
  BY <1>1, <1>3, <1>4, <1>5, <1>6 DEF IInv, TypeOK

\* The common case: nothing but r's own state changes.
LEMMA OwnStepKeeps ==
    ASSUME IInv, NEW r \in Reqs, NEW n, Job(r, n), UNCHANGED <<backend, table, next, last>>,
           n.conn \in {None, job[r].conn} \cup IdleConns,
           Sound(backend, n, table, last)
    PROVE  IInv'
BY StepKeeps DEF IInv, TypeOK

\* A step of r that makes a write visible: the others are no longer quiet, and on
\* SQLite nobody else has the connection that a detecting upsert holds.
LEMMA PublishKeeps ==
    ASSUME IInv, NEW r \in Reqs, NEW t \in Tables, NEW n, Publish(r, t, n),
           UNCHANGED <<backend, next, last>>,
           n.conn \in {None, job[r].conn},
           backend = "sqlite" => job[r].conn # None,
           Sound(backend, n, t, last)
    PROVE  IInv'
<1> DEFINE Seen(q) == [job[q] EXCEPT !.quiet = @ /\ (t = table \/ job[q].pc \in {"idle", "done"})]
<1>1. /\ job \in [Reqs -> JobState] /\ n \in JobState
      /\ backend' = backend /\ table' = t /\ next' = next /\ last' = last
      /\ job' = [q \in Reqs |-> IF q = r THEN n ELSE Seen(q)]
  BY DEF IInv, TypeOK, Sound, Publish
<1>2. ASSUME NEW q \in Reqs \ {r}
      PROVE  Sound(backend, Seen(q), t, last) /\ Seen(q).conn = job[q].conn
  <2> DEFINE j == job[q]
             m == Seen(q)
  <2>1. j \in JobState /\ Sound(backend, j, table, last)
    BY <1>1 DEF IInv, Served
  <2>2. m \in JobState
    BY <2>1, ZenonT(40) DEF JobState
  <2>3. /\ m.pc = j.pc /\ m.shape = j.shape /\ m.conn = j.conn /\ m.ws = j.ws
        /\ m.keys = j.keys /\ m.todo = j.todo /\ m.hit = j.hit /\ m.rows = j.rows
        /\ m.affected = j.affected /\ m.total = j.total /\ m.made = j.made /\ m.new = j.new
        /\ m.durable = j.durable /\ m.ending = j.ending
    BY <2>1 DEF JobState
  <2>4. /\ m.quiet => j.quiet
        /\ m.quiet /\ j.pc \notin {"idle", "done"} => t = table
    BY <2>1 DEF JobState
  <2>5. j.pc = "mutate" /\ j.made # None => FALSE
    <3> SUFFICES ASSUME j.pc = "mutate", j.made # None PROVE FALSE
      OBVIOUS
    <3>1. backend = "sqlite" /\ j.conn # None /\ j.conn \in PoolOf("sqlite")
      BY <2>1 DEF Sound, Detected, Placed, Holding
    <3>2. job[r].conn # None /\ job[r].conn \in PoolOf("sqlite")
      BY <3>1 DEF IInv, Served, Sound, Placed
    <3>3. job[r].conn = j.conn
      BY <3>1, <3>2, Constants
    <3> QED
      BY <3>1, <3>3 DEF IInv, TypeOK
  <2> HIDE DEF j, m
  <2>6. Placed(backend, m)
    BY <2>1, <2>3 DEF Sound, Placed
  <2>7. Guarded(backend, m)
    BY <2>1, <2>3 DEF Sound, Guarded, Bounded
  <2>8. Visited(backend, m)
    BY <2>1, <2>3 DEF Sound, Visited
  <2>9. Represented(backend, m, t, last)
    BY <2>1, <2>3, <2>4 DEF Sound, Represented, Exact
  <2>10. Detected(backend, m, t)
    BY <2>1, <2>3, <2>5 DEF Sound, Detected
  <2>11. Counted(m, t)
    BY <2>1, <2>3, <2>4 DEF Sound, Counted
  <2>12. Sound(backend, m, t, last)
    BY <2>2, <2>6, <2>7, <2>8, <2>9, <2>10, <2>11 DEF Sound
  <2> QED
    BY <2>3, <2>12 DEF j, m
<1> HIDE DEF Seen
<1>3. Served'
  <2> SUFFICES ASSUME NEW q \in Reqs PROVE Sound(backend, job'[q], t, last)
    BY <1>1 DEF Served
  <2>1. CASE q = r
    BY <1>1, <2>1
  <2>2. CASE q # r
    BY <1>1, <1>2, <2>2
  <2> QED
    BY <2>1, <2>2
<1>4. ASSUME NEW p \in Reqs, NEW q \in Reqs, p # q, job'[p].conn = job'[q].conn
      PROVE  job'[p].conn = None
  BY <1>1, <1>2, <1>4 DEF IInv, TypeOK
<1>5. job' \in [Reqs -> JobState]
  BY <1>1, <1>2 DEF Sound
<1>6. ASSUME NEW q \in Reqs, job'[q].conn = None PROVE job'[q].ws = Untouched
  BY <1>3, <1>6 DEF Served, Sound, Placed
<1> QED
  BY <1>1, <1>3, <1>4, <1>5, <1>6 DEF IInv, TypeOK

-----------------------------------------------------------------------------
(* The actions, one by one.                                                *)

\* What the invariant says of one handler and of the state it runs in.
LEMMA Handler ==
    ASSUME IInv, NEW r \in Reqs
    PROVE  /\ Sound(backend, job[r], table, last) /\ job[r] \in JobState
           /\ job[r].shape \in Shapes /\ job[r].shape \in Shape
           /\ backend \in AllBackends /\ table \in Tables /\ next \in 1 .. (MaxId + 1)
           /\ last \in [Conns -> 0 .. MaxId]
BY Constants DEF IInv, TypeOK, Served, JobState

\* An insert writes as many keys as its payload has rows.
LEMMA NewKeysSize ==
    ASSUME NEW s \in Shapes, next \in 1 .. (MaxId + 1)
    PROVE  /\ IsFiniteSet(NewKeys(s)) /\ Cardinality(NewKeys(s)) = Size(s) /\ Size(s) \in Nat
           /\ NewKeys(s) \in SUBSET Nat /\ \A i \in NewKeys(s) : i > 0
<1>1. s \in Shape /\ MaxId \in Nat
  BY Constants
<1>2. CASE s.auto > 0
  <2>1. /\ IsFiniteSet(next .. (next + s.auto - 1))
        /\ Cardinality(next .. (next + s.auto - 1)) = s.auto
    <3>1. next \in Int /\ next + s.auto - 1 \in Int /\ ~(next > next + s.auto - 1)
      BY <1>1, <1>2 DEF Shape
    <3>2. /\ IsFiniteSet(next .. (next + s.auto - 1))
          /\ Cardinality(next .. (next + s.auto - 1)) = (next + s.auto - 1) - next + 1
      BY <3>1, FS_Interval
    <3> QED
      BY <1>1, <3>1, <3>2 DEF Shape
  <2> QED
    BY <1>1, <1>2, <2>1 DEF NewKeys, Size, Shape
<1>3. CASE ~(s.auto > 0)
  <2>1. s.keys \in SUBSET Ids
    BY <1>1 DEF Shape
  <2> QED
    BY <1>1, <1>3, <2>1, KeysFinite DEF NewKeys, Size, Ids
<1> QED
  BY <1>2, <1>3

\* Execute's first decision: an ending, or the first step of the handler.
LEMMA ArriveKeeps ==
    ASSUME IInv, NEW r \in Reqs, Arrive(r)
    PROVE  IInv'
<1> DEFINE j == job[r]
           s == job[r].shape
           n == [j EXCEPT !.pc = FirstStep(s)]
<1>1. /\ Sound(backend, j, table, last) /\ j \in JobState /\ s \in Shapes /\ s \in Shape
      /\ backend \in AllBackends /\ next \in 1 .. (MaxId + 1)
  BY Handler
<1>2. j.pc = "idle" /\ UNCHANGED <<backend, table, next, last>>
  BY DEF Arrive
<1>3. j.hit = {} /\ j.rows = {} /\ j.total = None
  BY <1>1, <1>2 DEF Sound, Placed, Counted, Early
<1>4. ASSUME NEW e \in Endings, Job(r, Ended(j, e)) PROVE IInv'
  <2>1. Sound(backend, Ended(j, e), table, last)
    BY <1>1, <1>2, <1>3, EndSound
  <2>2. Ended(j, e).conn = None
    BY <1>1 DEF Ended, JobState
  <2> QED
    BY <1>2, <1>4, <2>1, <2>2, OwnStepKeeps
<1>5. ASSUME ~(backend = "mongo" /\ (s.fn \/ s.kind = "call")),
             ~(/\ backend = "mongo" /\ s.kind \in {"insert", "upsert"}
               /\ Exceeds(s, Cardinality(NewKeys(s)))),
             Job(r, n)
      PROVE  IInv'
  <2>1. /\ n \in JobState /\ n.pc = FirstStep(s)
        /\ n.pc \in {"count", "page", "begin", "check", "write"}
        /\ n.pc \in {"count", "page"} => s.kind = "read"
        /\ n.pc = "begin" => backend # "mongo" /\ s.kind # "read"
        /\ n.pc \in {"check", "write"} => backend = "mongo" /\ s.kind \in Documents
        /\ n.pc = "check" => s.kind \in {"update", "delete"}
    BY <1>1, <1>5, SMTT(20) DEF JobState, PCs, FirstStep, Shape, Kinds, Documents
  <2>2. /\ n.shape = s /\ n.conn = j.conn /\ n.ws = j.ws /\ n.keys = j.keys /\ n.todo = j.todo
        /\ n.hit = j.hit /\ n.rows = j.rows /\ n.affected = j.affected /\ n.total = j.total
        /\ n.made = j.made /\ n.new = j.new /\ n.durable = j.durable /\ n.quiet = j.quiet
    BY <1>1 DEF JobState
  <2>3. Cardinality(NewKeys(s)) = Size(s)
    BY <1>1, NewKeysSize
  <2> HIDE DEF n
  <2>4. Placed(backend, n)
    BY <1>1, <1>2, <2>1, <2>2
       DEF Sound, Placed, Holding, Pages, Transactional, Documents, Early, Kinds
  <2>5. Guarded(backend, n)
    BY <1>1, <1>2, <2>1, <2>2 DEF Sound, Guarded, Placed, Early
  <2>6. Visited(backend, n)
    BY <1>1, <1>2, <1>5, <2>1, <2>2, <2>3 DEF Sound, Visited
  <2>7. Represented(backend, n, table, last)
    BY <2>1 DEF Represented
  <2>8. Detected(backend, n, table)
    BY <1>1, <1>2, <2>1, <2>2 DEF Sound, Detected, Early
  <2>9. Counted(n, table)
    BY <1>3, <2>1, <2>2 DEF Counted
  <2>10. Sound(backend, n, table, last)
    BY <2>1, <2>4, <2>5, <2>6, <2>7, <2>8, <2>9 DEF Sound
  <2> QED
    BY <1>2, <1>5, <2>2, <2>10, OwnStepKeeps
<1> HIDE DEF n
<1> QED
  BY <1>4, <1>5 DEF Arrive, Endings, Refusals, n

\* The pool hands out connections that nobody holds.
LEMMA PoolGives ==
    ASSUME IInv, NEW c \in IdleConns
    PROVE  c \in Conns /\ c # None /\ (backend = "sqlite" => c \in PoolOf("sqlite"))
BY Constants DEF IdleConns, PoolOf

\* The count, for a SQL data plane and for MongoDB.
LEMMA CountKeeps ==
    ASSUME IInv, NEW r \in Reqs, job[r].pc = "count", UNCHANGED <<backend, table, next, last>>,
           Job(r, [job[r] EXCEPT !.pc = "page",
                                 !.total = Cardinality(Matches(table, job[r].shape))])
    PROVE  IInv'
<1> DEFINE j == job[r]
           size == Cardinality(Matches(table, job[r].shape))
           n == [j EXCEPT !.pc = "page", !.total = size]
<1>1. Sound(backend, j, table, last) /\ j \in JobState
  BY Handler
<1>2. j.pc = "count" /\ Job(r, n)
  OBVIOUS
<1>3. size \in Nat
  BY MatchesFinite
<1> HIDE DEF size
<1>4. /\ n \in JobState /\ n.pc = "page" /\ n.total = size /\ n.shape = j.shape
      /\ n.conn = j.conn /\ n.ws = j.ws /\ n.hit = j.hit /\ n.made = j.made
      /\ n.durable = j.durable
  BY <1>1, <1>3 DEF JobState, PCs
<1> HIDE DEF n
<1>5. Placed(backend, n) /\ Guarded(backend, n) /\ Visited(backend, n)
  BY <1>1, <1>2, <1>4
     DEF Sound, Placed, Guarded, Visited, Holding, Pages, Transactional, Early, Kinds
<1>6. Represented(backend, n, table, last) /\ Detected(backend, n, table)
  BY <1>1, <1>2, <1>4 DEF Sound, Represented, Detected, Early
<1>7. Counted(n, table)
  BY <1>1, <1>2, <1>4 DEF Sound, Placed, Pages, Counted, size
<1>8. Sound(backend, n, table, last)
  BY <1>4, <1>5, <1>6, <1>7 DEF Sound
<1> QED
  BY <1>2, <1>4, <1>8, OwnStepKeeps

\* A page read into memory, for a SQL data plane and for MongoDB.
LEMMA PageSound ==
    ASSUME IInv, NEW r \in Reqs, job[r].pc = "page"
    PROVE  LET page == [job[r] EXCEPT !.rows = Matches(table, job[r].shape)]
           IN  /\ Sound(backend, page, table, last) /\ page \in JobState
               /\ page.pc = "page" /\ page.shape = job[r].shape /\ page.conn = None
               /\ page.rows = Matches(table, job[r].shape) /\ page.hit = {}
               /\ page.shape.kind = "read"
               /\ page.total # None /\ page.quiet => page.total = Cardinality(page.rows)
<1> DEFINE j == job[r]
           seen == Matches(table, job[r].shape)
           n == [j EXCEPT !.rows = seen]
<1>1. Sound(backend, j, table, last) /\ j \in JobState
  BY Handler
<1>2. seen \in SUBSET Ids
  BY MatchesFinite
<1> HIDE DEF seen
<1>3. /\ n \in JobState /\ n.pc = "page" /\ n.total = j.total /\ n.shape = j.shape
      /\ n.conn = j.conn /\ n.ws = j.ws /\ n.hit = j.hit /\ n.made = j.made
      /\ n.durable = j.durable /\ n.rows = seen /\ n.quiet = j.quiet
  BY <1>1, <1>2 DEF JobState
<1> HIDE DEF n
<1>4. Placed(backend, n) /\ Guarded(backend, n) /\ Visited(backend, n)
  BY <1>1, <1>3
     DEF Sound, Placed, Guarded, Visited, Holding, Pages, Transactional, Early, Kinds
<1>5. Represented(backend, n, table, last) /\ Detected(backend, n, table)
  BY <1>1, <1>3 DEF Sound, Represented, Detected, Early
<1>6. Counted(n, table) /\ (n.total # None /\ n.quiet => n.total = Cardinality(n.rows))
  BY <1>1, <1>3 DEF Sound, Placed, Pages, Counted, seen
<1>7. n.conn = None /\ n.hit = {} /\ n.shape.kind = "read"
  BY <1>1, <1>3, <1>4 DEF Placed, Holding, Pages, Early
<1>8. Sound(backend, n, table, last)
  BY <1>3, <1>4, <1>5, <1>6 DEF Sound
<1> QED
  BY <1>3, <1>6, <1>7, <1>8 DEF n, seen

\* The page is streamed from its connection, or buffered and answered.
LEMMA PageRowsKeeps ==
    ASSUME IInv, NEW r \in Reqs, PageRows(r)
    PROVE  IInv'
<1> DEFINE page == [job[r] EXCEPT !.rows = Matches(table, job[r].shape)]
<1>1. job[r].pc = "page" /\ UNCHANGED <<backend, table, next, last>> /\ backend \in AllBackends
  BY Handler DEF PageRows
<1>2. /\ Sound(backend, page, table, last) /\ page \in JobState /\ page.pc = "page"
      /\ page.conn = None /\ page.hit = {} /\ page.shape.kind = "read"
      /\ page.total # None /\ page.quiet => page.total = Cardinality(page.rows)
  BY <1>1, PageSound
<1>3. PICK c \in IdleConns :
        \/ Job(r, [page EXCEPT !.pc = "stream", !.conn = c])
        \/ \E e \in {"ok", "control"} : Job(r, Ended(page, e))
  BY DEF PageRows
<1> HIDE DEF page
<1>4. CASE Job(r, [page EXCEPT !.pc = "stream", !.conn = c])
  <2> DEFINE n == [page EXCEPT !.pc = "stream", !.conn = c]
  <2>1. c \in Conns /\ c # None /\ (backend = "sqlite" => c \in PoolOf("sqlite"))
    BY PoolGives
  <2>2. /\ n \in JobState /\ n.pc = "stream" /\ n.conn = c /\ n.total = page.total
        /\ n.shape = page.shape /\ n.hit = page.hit /\ n.made = page.made
        /\ n.durable = page.durable /\ n.rows = page.rows /\ n.quiet = page.quiet
    <3>1. page \in JobState /\ c \in Conns
      BY <1>2, <2>1
    <3> QED
      BY <3>1 DEF JobState, PCs
  <2> HIDE DEF n
  <2>3. Placed(backend, n) /\ Guarded(backend, n) /\ Visited(backend, n)
    BY <1>2, <2>1, <2>2
       DEF Sound, Placed, Guarded, Visited, Holding, Pages, Transactional, Early, Kinds
  <2>4. Represented(backend, n, table, last) /\ Detected(backend, n, table)
    BY <1>2, <2>2 DEF Sound, Represented, Detected, Early
  <2>5. Counted(n, table)
    BY <1>2, <2>2 DEF Sound, Counted
  <2>6. Sound(backend, n, table, last)
    BY <2>2, <2>3, <2>4, <2>5 DEF Sound
  <2> QED
    BY <1>1, <1>4, <2>2, <2>6, OwnStepKeeps DEF n
<1>5. ASSUME NEW e \in {"ok", "control"}, Job(r, Ended(page, e)) PROVE IInv'
  <2>1. e \in Endings /\ page.pc # "done" /\ ~(backend = "mongo" /\ e \in {"max", "unsupported"})
    BY <1>2 DEF Endings, Refusals
  <2>2. Sound(backend, Ended(page, e), table, last)
    BY <1>1, <1>2, <2>1, EndSound
  <2>3. Ended(page, e).conn = None
    BY <1>2 DEF Ended, JobState
  <2> QED
    BY <1>1, <1>5, <2>2, <2>3, OwnStepKeeps
<1> QED
  BY <1>3, <1>4, <1>5

\* A handler that only ends.
LEMMA EndKeeps ==
    ASSUME IInv, NEW r \in Reqs, NEW e \in Endings, job[r].pc # "done",
           Job(r, Ended(job[r], e)), UNCHANGED <<backend, table, next, last>>,
           backend = "mongo" /\ e \in {"max", "unsupported"} => job[r].hit = {},
           e = "ok" =>
             /\ job[r].shape.kind # "read" /\ job[r].shape.repr /\ Exact(backend, job[r]) =>
                  job[r].rows = job[r].hit
             /\ job[r].total # None /\ job[r].quiet => job[r].total = Cardinality(job[r].rows)
    PROVE  IInv'
<1>1. Sound(backend, job[r], table, last) /\ job[r] \in JobState /\ backend \in AllBackends
  BY Handler
<1>2. Sound(backend, Ended(job[r], e), table, last)
  BY <1>1, EndSound
<1>3. Ended(job[r], e).conn = None
  BY <1>1 DEF Ended, JobState
<1> QED
  BY <1>2, <1>3, OwnStepKeeps

\* The cursor is drained.
LEMMA StreamKeeps ==
    ASSUME IInv, NEW r \in Reqs, Stream(r)
    PROVE  IInv'
<1>1. Sound(backend, job[r], table, last)
  BY Handler
<1>2. job[r].shape.kind = "read"
  BY <1>1 DEF Stream, Sound, Placed, Pages
<1> QED
  BY <1>1, <1>2, EndKeeps DEF Stream, Endings, Sound, Counted

\* Whatever fails, the deferred rollback leaves a sound handler.
LEMMA FailKeeps ==
    ASSUME IInv, NEW r \in Reqs, Fail(r)
    PROVE  IInv'
BY EndKeeps DEF Fail, Endings, Refusals

\* BeginTx pins a connection that nobody holds.
LEMMA BeginKeeps ==
    ASSUME IInv, NEW r \in Reqs, Begin(r)
    PROVE  IInv'
<1> DEFINE j == job[r]
           s == job[r].shape
           captures == backend = "mysql" /\ s.repr
                       /\ (s.kind = "delete" \/ (s.kind = "update" /\ s.single))
           detects == backend = "sqlite" /\ s.kind = "upsert" /\ ~s.ignore
           to == IF captures THEN "capture" ELSE IF detects THEN "detect" ELSE "mutate"
<1>1. Sound(backend, j, table, last) /\ j \in JobState
  BY Handler
<1>2. j.pc = "begin" /\ UNCHANGED <<backend, table, next, last>>
  BY DEF Begin
<1>3. PICK c \in IdleConns : Job(r, [j EXCEPT !.conn = c, !.pc = to])
  BY DEF Begin
<1>4. c \in Conns /\ c # None /\ (backend = "sqlite" => c \in PoolOf("sqlite"))
  BY PoolGives
<1>5. /\ to \in {"capture", "detect", "mutate"}
      /\ to = "capture" => captures
      /\ to = "detect" => detects
      /\ to = "mutate" => ~captures
  OBVIOUS
<1> HIDE DEF to
<1> DEFINE n == [j EXCEPT !.conn = c, !.pc = to]
<1>6. /\ n \in JobState /\ n.pc = to /\ n.conn = c /\ n.shape = s /\ n.hit = j.hit
      /\ n.durable = j.durable /\ n.made = j.made /\ n.total = j.total
  <2>1. to \in PCs
    BY <1>5 DEF PCs
  <2> QED
    BY <1>1, <1>4, <2>1 DEF JobState
<1> HIDE DEF n
<1>7. Placed(backend, n)
  BY <1>1, <1>2, <1>4, <1>5, <1>6 DEF Sound, Placed, Holding, Pages, Transactional, Early, Kinds
<1>8. Guarded(backend, n) /\ Visited(backend, n)
  BY <1>1, <1>2, <1>5, <1>6 DEF Sound, Placed, Guarded, Visited, Transactional, Early
<1>9. Represented(backend, n, table, last)
  BY <1>5, <1>6 DEF Represented
<1>10. Detected(backend, n, table)
  BY <1>1, <1>2, <1>5, <1>6 DEF Sound, Detected, Early
<1>11. Counted(n, table)
  BY <1>1, <1>2, <1>5, <1>6 DEF Sound, Counted, Placed, Transactional
<1>12. Sound(backend, n, table, last)
  BY <1>6, <1>7, <1>8, <1>9, <1>10, <1>11 DEF Sound
<1> QED
  BY <1>2, <1>3, <1>6, <1>12, OwnStepKeeps DEF n

\* MySQL's first select finds the rows that match now.
LEMMA CaptureKeeps ==
    ASSUME IInv, NEW r \in Reqs, Capture(r)
    PROVE  IInv'
<1> DEFINE j == job[r]
           seen == Matches(table, job[r].shape)
           out == IF j.shape.kind = "delete" THEN seen ELSE {}
           n == [j EXCEPT !.pc = "mutate", !.snap = table, !.keys = seen, !.rows = out]
<1>1. Sound(backend, j, table, last) /\ j \in JobState /\ table \in Tables
  BY Handler
<1>2. j.pc = "capture" /\ UNCHANGED <<backend, table, next, last>> /\ Job(r, n)
  BY DEF Capture
<1>3. seen \in SUBSET Ids /\ out \in SUBSET Ids /\ (j.shape.kind = "delete" => out = seen)
  BY MatchesFinite
<1> HIDE DEF seen, out
<1>4. /\ n \in JobState /\ n.pc = "mutate" /\ n.conn = j.conn /\ n.ws = j.ws /\ n.shape = j.shape
      /\ n.hit = j.hit /\ n.durable = j.durable /\ n.made = j.made /\ n.total = j.total
      /\ n.keys = seen /\ n.rows = out
  BY <1>1, <1>3 DEF JobState, PCs
<1> HIDE DEF n
<1>5. Placed(backend, n)
  BY <1>1, <1>2, <1>4 DEF Sound, Placed, Holding, Pages, Transactional, Early, Kinds
<1>6. Guarded(backend, n) /\ Visited(backend, n)
  BY <1>1, <1>2, <1>4 DEF Sound, Placed, Guarded, Visited, Transactional, Early
<1>7. Represented(backend, n, table, last)
  BY <1>3, <1>4 DEF Represented, seen
<1>8. Detected(backend, n, table)
  BY <1>1, <1>2, <1>4 DEF Sound, Detected, Early
<1>9. Counted(n, table)
  BY <1>1, <1>2, <1>4 DEF Sound, Counted, Placed, Transactional
<1>10. Sound(backend, n, table, last)
  BY <1>4, <1>5, <1>6, <1>7, <1>8, <1>9 DEF Sound
<1> QED
  BY <1>2, <1>4, <1>10, OwnStepKeeps

\* detectUpsertInsert counts the keys that do not exist now.
LEMMA DetectKeeps ==
    ASSUME IInv, NEW r \in Reqs, Detect(r)
    PROVE  IInv'
<1> DEFINE j == job[r]
           size == Cardinality({i \in j.shape.keys : table[i] = None})
           n == [j EXCEPT !.pc = "mutate", !.made = size]
<1>1. Sound(backend, j, table, last) /\ j \in JobState /\ j.shape \in Shape
  BY Handler
<1>2. j.pc = "detect" /\ UNCHANGED <<backend, table, next, last>> /\ Job(r, n)
  BY DEF Detect
<1>3. size \in Nat
  <2>1. {i \in j.shape.keys : table[i] = None} \in SUBSET Ids
    BY <1>1 DEF Shape
  <2> QED
    BY <2>1, KeysFinite
<1> HIDE DEF size
<1>4. /\ n \in JobState /\ n.pc = "mutate" /\ n.conn = j.conn /\ n.ws = j.ws /\ n.shape = j.shape
      /\ n.hit = j.hit /\ n.durable = j.durable /\ n.made = size /\ n.total = j.total
  BY <1>1, <1>3 DEF JobState, PCs
<1> HIDE DEF n
<1>5. Placed(backend, n)
  BY <1>1, <1>2, <1>4 DEF Sound, Placed, Holding, Pages, Transactional, Early, Kinds
<1>6. Guarded(backend, n) /\ Visited(backend, n)
  BY <1>1, <1>2, <1>4 DEF Sound, Placed, Guarded, Visited, Transactional, Early
<1>7. Represented(backend, n, table, last)
  BY <1>1, <1>2, <1>4 DEF Represented, Sound, Placed
<1>8. Detected(backend, n, table)
  BY <1>1, <1>2, <1>4 DEF Sound, Detected, Placed, Early, size
<1>9. Counted(n, table)
  BY <1>1, <1>2, <1>4 DEF Sound, Counted, Placed, Transactional
<1>10. Sound(backend, n, table, last)
  BY <1>4, <1>5, <1>6, <1>7, <1>8, <1>9 DEF Sound
<1> QED
  BY <1>2, <1>4, <1>10, OwnStepKeeps

\* Only a handler that re-selects looks at the session's id.
LEMMA SessionFree ==
    ASSUME NEW b, NEW j, NEW t, NEW l, NEW m, Sound(b, j, t, l), j.pc # "reselect"
    PROVE  Sound(b, j, t, m)
BY DEF Sound, Represented

\* The rows that a mutation touches are rows of the table, unless it collides.
LEMMA TouchedRows ==
    ASSUME NEW s \in Shapes, table \in Tables, ~Collides(table, s)
    PROVE  /\ Touched(table, s) \in SUBSET Ids /\ Cardinality(Touched(table, s)) \in Nat
           /\ s.kind \notin {"insert", "upsert"} => Touched(table, s) = Matches(table, s)
           /\ s.kind = "insert" => Touched(table, s) = NewKeys(s)
           /\ s.kind = "upsert" /\ ~s.ignore => Touched(table, s) = s.keys
<1>1. s \in Shape
  BY Constants
<1>2. CASE s.kind = "insert"
  <2>1. Touched(table, s) = NewKeys(s) /\ NewKeys(s) \subseteq Ids
    BY <1>2 DEF Touched, Collides
  <2> QED
    BY <1>2, <2>1, KeysFinite
<1>3. CASE s.kind = "upsert"
  <2>1. /\ Touched(table, s) \in SUBSET Ids
        /\ ~s.ignore => Touched(table, s) = s.keys
    BY <1>1, <1>3 DEF Touched, Shape
  <2> QED
    BY <1>3, <2>1, KeysFinite
<1>4. CASE s.kind \notin {"insert", "upsert"}
  <2>1. Touched(table, s) = Matches(table, s)
    BY <1>4 DEF Touched
  <2> QED
    BY <1>4, <2>1, MatchesFinite
<1> QED
  BY <1>2, <1>3, <1>4

\* A mutation inside a transaction keeps the invariant when the count it reports
\* covers the rows it touched, and when what it returns, or what the re-select will
\* look for, is what it touched.
LEMMA StatementKeeps ==
    ASSUME IInv, NEW r \in Reqs, NEW k, NEW rows, NEW then,
           job[r].pc = "mutate", Statement(r, k, rows, then),
           last' \in [Conns -> 0 .. MaxId],
           \A c \in Conns : c # job[r].conn => last'[c] = last[c],
           then \in {"reselect", "enforce"},
           ~Collides(table, job[r].shape) =>
             LET s == job[r].shape
                 hit == Touched(table, s)
             IN  /\ k \in Nat /\ Cardinality(hit) <= k /\ rows \in SUBSET Ids
                 /\ backend = "sqlite" => Cardinality(hit) = k
                 /\ then = "enforce" /\ s.repr /\ Exact(backend, job[r]) => rows = hit
                 /\ then = "reselect" =>
                      /\ backend = "mysql" /\ s.kind \in {"insert", "upsert", "update"}
                      /\ s.auto > 0 =>
                           hit = last'[job[r].conn] .. (last'[job[r].conn] + k - 1)
    PROVE  IInv'
<1> DEFINE j == job[r]
           s == job[r].shape
           hit == Touched(table, s)
<1>1. /\ Sound(backend, j, table, last) /\ j \in JobState /\ s \in Shapes /\ s \in Shape
      /\ backend \in AllBackends /\ table \in Tables /\ next \in 1 .. (MaxId + 1)
  BY Handler
<1>2. UNCHANGED <<backend, table>>
  BY DEF Statement
<1>3. CASE Collides(table, s)
  <2>1. Job(r, Ended(j, "sql")) /\ UNCHANGED next
    BY <1>3 DEF Statement
  <2>2. Sound(backend, j, table, last')
    BY <1>1, SessionFree
  <2>3. "sql" \in Endings
    BY DEF Endings, Refusals
  <2>4. Sound(backend, Ended(j, "sql"), table, last')
    BY <1>1, <2>2, <2>3, EndSound
  <2>5. Ended(j, "sql").conn = None
    BY <1>1 DEF Ended, JobState
  <2> QED
    BY <1>1, <1>2, <2>1, <2>4, <2>5, StepKeeps
<1>4. CASE ~Collides(table, s)
  <2> DEFINE ws == WriteSet(table, s, hit)
             new == Cardinality({i \in hit : table[i] = None})
             out == IF Returns(s) THEN rows ELSE {}
             n == [j EXCEPT !.pc = then, !.hit = hit, !.ws = ws, !.affected = k,
                            !.new = new, !.rows = out]
  <2>1. Job(r, n) /\ Advance(IF s.kind \in {"insert", "upsert"} THEN hit ELSE {})
    BY <1>4 DEF Statement
  <2>2. /\ hit \in SUBSET Ids /\ Cardinality(hit) \in Nat
        /\ s.kind \notin {"insert", "upsert"} => hit = Matches(table, s)
        /\ s.kind = "upsert" /\ ~s.ignore => hit = s.keys
    BY <1>1, <1>4, TouchedRows
  <2>3. next' \in 1 .. (MaxId + 1)
    BY <1>1, <2>1, <2>2, AdvanceTypes
  <2>4. /\ ws \in [Ids -> Row \cup {Keep}]
        /\ s.kind # "delete" => \A i \in hit : ws[i] \in Cells
    BY <1>1, <2>2 DEF WriteSet, Tables, Row, Shape
  <2>5. new \in Nat
    <3>1. {i \in hit : table[i] = None} \in SUBSET Ids
      BY <2>2
    <3> QED
      BY <3>1, KeysFinite
  <2>6. out \in SUBSET Ids /\ (s.repr => out = rows)
    BY <1>4 DEF Returns
  <2>7. k \in Nat /\ then \in PCs
    BY <1>4 DEF PCs
  <2>8. /\ n \in JobState /\ n.pc = then /\ n.hit = hit /\ n.ws = ws /\ n.affected = k
        /\ n.new = new /\ n.rows = out /\ n.shape = s /\ n.conn = j.conn /\ n.durable = j.durable
        /\ n.made = j.made /\ n.total = j.total /\ n.quiet = j.quiet /\ n.keys = j.keys
    <3>1. /\ j \in JobState /\ then \in PCs /\ hit \in SUBSET Ids
          /\ ws \in [Ids -> Row \cup {Keep}] /\ k \in Nat /\ new \in Nat /\ out \in SUBSET Ids
      BY <1>1, <2>2, <2>4, <2>5, <2>6, <2>7
    <3> HIDE DEF hit, ws, new, out
    <3> QED
      BY <3>1 DEF JobState
  <2>9. /\ j.conn # None /\ backend # "mongo" /\ s.kind # "read" /\ j.durable = {}
        /\ j.total = None
    BY <1>1 DEF Sound, Placed, Counted, Holding, Transactional, Early
  <2>10. backend = "mysql" /\ s.kind = "update" /\ s.repr /\ s.single /\ j.quiet => j.keys = hit
    BY <1>1, <2>2 DEF Sound, Represented
  <2>11. j.made # None => j.made = new
    <3>1. j.made # None => /\ s.kind = "upsert" /\ ~s.ignore
                           /\ j.made = Cardinality({i \in s.keys : table[i] = None})
      BY <1>1 DEF Sound, Detected
    <3> QED
      BY <2>2, <3>1
  <2> HIDE DEF hit, ws, new, out, n
  <2>12. Placed(backend, n)
    BY <1>1, <1>4, <2>8, <2>9
       DEF Sound, Placed, Holding, Pages, Transactional, Early, Kinds, hit
  <2>13. Guarded(backend, n)
    BY <1>4, <2>8, <2>9 DEF Guarded, hit
  <2>14. Visited(backend, n)
    BY <2>9 DEF Visited
  <2>15. Represented(backend, n, table, last')
    <3>1. CASE then = "enforce"
      <4>1. s.repr /\ Exact(backend, n) => out = hit
        BY <1>4, <2>6, <2>8, <3>1 DEF Exact, hit
      <4> QED
        BY <2>8, <3>1, <4>1, <2>9 DEF Represented
    <3>2. CASE then = "reselect"
      <4>1. /\ s.kind # "delete" /\ backend = "mysql"
            /\ s.auto > 0 => hit = last'[j.conn] .. (last'[j.conn] + k - 1)
        BY <1>4, <3>2 DEF hit
      <4> QED
        BY <2>4, <2>8, <2>9, <2>10, <3>2, <4>1 DEF Represented
    <3> QED
      BY <3>1, <3>2
  <2>16. Detected(backend, n, table)
    BY <1>1, <2>8, <2>11 DEF Sound, Detected, Early
  <2>17. Counted(n, table)
    BY <2>8, <2>9 DEF Counted
  <2>18. Sound(backend, n, table, last')
    BY <2>8, <2>12, <2>13, <2>14, <2>15, <2>16, <2>17 DEF Sound
  <2> QED
    BY <1>2, <2>1, <2>3, <2>8, <2>18, StepKeeps
<1> QED
  BY <1>3, <1>4

\* RETURNING, OUTPUT and a drained function: the rows are those of the statement.
LEMMA NativeKeeps ==
    ASSUME IInv, NEW r \in Reqs, job[r].pc = "mutate", NativeStatement(r)
    PROVE  IInv'
<1> DEFINE hit == Touched(table, job[r].shape)
<1>1. Statement(r, Cardinality(hit), hit, "enforce") /\ UNCHANGED last
  BY DEF NativeStatement
<1>2. job[r].shape \in Shapes /\ table \in Tables /\ last \in [Conns -> 0 .. MaxId]
  BY Handler
<1>3. ~Collides(table, job[r].shape) => hit \in SUBSET Ids /\ Cardinality(hit) \in Nat
  BY <1>2, TouchedRows
<1>4. ~Collides(table, job[r].shape) => Cardinality(hit) <= Cardinality(hit)
  BY <1>3
<1> QED
  BY <1>1, <1>2, <1>3, <1>4, StatementKeeps

\* The generated keys are a range that starts at the session's id.
LEMMA MysqlInsertKeeps ==
    ASSUME IInv, NEW r \in Reqs, MysqlInsert(r)
    PROVE  IInv'
<1> DEFINE j == job[r]
           s == job[r].shape
           hit == Touched(table, s)
           twice == {i \in hit : ~s.ignore /\ table[i] \notin {None, s.set}}
           k == MysqlCount(s, hit)
           then == IF s.single THEN "reselect" ELSE "enforce"
<1>1. /\ Sound(backend, j, table, last) /\ j \in JobState /\ s \in Shapes /\ s \in Shape
      /\ table \in Tables /\ next \in 1 .. (MaxId + 1) /\ last \in [Conns -> 0 .. MaxId]
      /\ MaxId \in Nat /\ (s.auto > 0 => s.kind = "insert")
  BY Handler, Constants
<1>2. /\ backend = "mysql" /\ j.pc = "mutate" /\ s.kind \in {"insert", "upsert"}
      /\ Statement(r, k, {}, then)
      /\ last' = IF s.auto > 0 /\ ~Collides(table, s) THEN [last EXCEPT ![j.conn] = next] ELSE last
  BY DEF MysqlInsert
<1>3. j.conn \in Conns
  BY <1>1, <1>2 DEF Sound, Placed, Holding, JobState
<1>4. ~Collides(table, s) => hit \in SUBSET Ids /\ Cardinality(hit) \in Nat
  BY <1>1, TouchedRows
<1>5. ~Collides(table, s) => k \in Nat /\ Cardinality(hit) <= k
  <2> SUFFICES ASSUME ~Collides(table, s) PROVE k \in Nat /\ Cardinality(hit) <= k
    OBVIOUS
  <2>1. twice \in SUBSET Ids
    BY <1>4
  <2>2. Cardinality(twice) \in Nat /\ Cardinality(hit) \in Nat
    BY <1>4, <2>1, KeysFinite
  <2>3. k = Cardinality(hit) \/ k = Cardinality(hit) + Cardinality(twice)
    BY DEF MysqlCount
  <2> HIDE DEF k, hit, twice
  <2> QED
    BY <2>2, <2>3
<1>6. ~Collides(table, s) /\ s.auto > 0 =>
        /\ hit = next .. (next + s.auto - 1) /\ k = s.auto /\ next \in 0 .. MaxId
  <2> SUFFICES ASSUME ~Collides(table, s), s.auto > 0
               PROVE  hit = next .. (next + s.auto - 1) /\ k = s.auto /\ next \in 0 .. MaxId
    OBVIOUS
  <2>1. s.kind = "insert" /\ hit = NewKeys(s) /\ NewKeys(s) = next .. (next + s.auto - 1)
    BY <1>1, TouchedRows DEF NewKeys
  <2>2. Cardinality(hit) = Size(s) /\ Size(s) = s.auto
    BY <1>1, <2>1, NewKeysSize DEF Size
  <2>3. k = s.auto
    BY <2>1, <2>2 DEF MysqlCount
  <2>4. next \in hit
    BY <1>1, <2>1 DEF Shape
  <2>5. next \in Ids
    BY <1>4, <2>4
  <2> QED
    BY <1>1, <2>1, <2>3, <2>5 DEF Ids
<1>7. /\ last' \in [Conns -> 0 .. MaxId]
      /\ \A c \in Conns : c # j.conn => last'[c] = last[c]
      /\ ~Collides(table, s) /\ s.auto > 0 => last'[j.conn] = next
  BY <1>1, <1>2, <1>3, <1>6
<1>8. /\ then \in {"reselect", "enforce"}
      /\ then = "enforce" => ~s.single
  OBVIOUS
<1>9. then = "enforce" => ~Exact(backend, j)
  BY <1>2, <1>8 DEF Exact
<1> HIDE DEF hit, k, then
<1>10. ~Collides(table, s) /\ s.auto > 0 => hit = last'[j.conn] .. (last'[j.conn] + k - 1)
  BY <1>6, <1>7
<1> QED
  BY <1>2, <1>5, <1>7, <1>8, <1>9, <1>10, StatementKeeps DEF hit

\* The captured keys are still the rows that match, unless another write came in.
LEMMA MysqlUpdateKeeps ==
    ASSUME IInv, NEW r \in Reqs, MysqlUpdate(r)
    PROVE  IInv'
<1> DEFINE j == job[r]
           s == job[r].shape
           hit == Touched(table, s)
           then == IF j.keys # {} THEN "reselect" ELSE "enforce"
<1>1. /\ Sound(backend, j, table, last) /\ s \in Shapes /\ s \in Shape
      /\ table \in Tables /\ last \in [Conns -> 0 .. MaxId] /\ (s.auto > 0 => s.kind = "insert")
  BY Handler, Constants
<1>2. /\ backend = "mysql" /\ j.pc = "mutate" /\ s.kind = "update"
      /\ Statement(r, Cardinality(hit), {}, then) /\ UNCHANGED last
  BY DEF MysqlUpdate
<1>3. ~Collides(table, s)
  BY <1>2 DEF Collides, Vacuous
<1>4. Cardinality(hit) \in Nat /\ hit = Matches(table, s)
  BY <1>1, <1>2, <1>3, TouchedRows
<1>5. Cardinality(hit) <= Cardinality(hit)
  BY <1>4
<1>6. then \in {"reselect", "enforce"} /\ (then = "enforce" => j.keys = {})
  OBVIOUS
<1>7. s.repr /\ Exact(backend, j) => j.keys = hit
  BY <1>1, <1>2, <1>4 DEF Sound, Represented, Exact
<1>8. then = "enforce" /\ s.repr /\ Exact(backend, j) => {} = hit
  BY <1>6, <1>7
<1>9. ~(s.auto > 0)
  BY <1>1, <1>2
<1> HIDE DEF then
<1> QED
  BY <1>1, <1>2, <1>4, <1>5, <1>6, <1>8, <1>9, StatementKeeps

\* What was selected before the delete is still what it removes, unless a write came in.
LEMMA MysqlDeleteKeeps ==
    ASSUME IInv, NEW r \in Reqs, MysqlDelete(r)
    PROVE  IInv'
<1> DEFINE j == job[r]
           s == job[r].shape
           hit == Touched(table, s)
<1>1. /\ Sound(backend, j, table, last) /\ j \in JobState /\ s \in Shapes
      /\ table \in Tables /\ last \in [Conns -> 0 .. MaxId]
  BY Handler
<1>2. /\ backend = "mysql" /\ j.pc = "mutate" /\ s.kind = "delete"
      /\ Statement(r, Cardinality(hit), j.rows, "enforce") /\ UNCHANGED last
  BY DEF MysqlDelete
<1>3. ~Collides(table, s)
  BY <1>2 DEF Collides, Vacuous
<1>4. Cardinality(hit) \in Nat /\ hit = Matches(table, s)
  BY <1>1, <1>2, <1>3, TouchedRows
<1>5. Cardinality(hit) <= Cardinality(hit) /\ j.rows \in SUBSET Ids
  BY <1>1, <1>4 DEF JobState
<1>6. s.repr /\ Exact(backend, j) => j.rows = hit
  BY <1>1, <1>2, <1>4 DEF Sound, Represented, Exact
<1> QED
  BY <1>1, <1>2, <1>4, <1>5, <1>6, StatementKeeps

\* The re-select returns the rows written: they are in the write set, so whatever
\* snapshot it reads, it sees them.
LEMMA ReselectKeeps ==
    ASSUME IInv, NEW r \in Reqs, Reselect(r)
    PROVE  IInv'
<1> DEFINE j == job[r]
           s == job[r].shape
           base == IF j.snap = None THEN table ELSE j.snap
           seen == Overlay(base, j.ws)
           keys == IF s.kind = "update" THEN j.keys ELSE InsertedRange(r)
           out == {i \in keys \cap Ids : seen[i] # None}
           n == [j EXCEPT !.pc = "enforce", !.snap = base, !.rows = out]
<1>1. /\ Sound(backend, j, table, last) /\ j \in JobState /\ s \in Shapes
      /\ table \in Tables /\ (s.auto > 0 => s.kind = "insert")
  BY Handler, Constants
<1>2. j.pc = "reselect" /\ UNCHANGED <<backend, table, next, last>> /\ Job(r, n)
  BY DEF Reselect
<1>3. backend = "mysql" /\ s.kind \in {"insert", "upsert", "update"} /\ j.conn # None
  BY <1>1, <1>2 DEF Sound, Placed, Holding
<1>4. base \in Tables /\ out \in SUBSET Ids
  BY <1>1 DEF JobState
<1>5. s.repr /\ Exact(backend, j) => out = j.hit
  <2> SUFFICES ASSUME s.repr, Exact(backend, j) PROVE out = j.hit
    OBVIOUS
  <2>1. /\ \A i \in j.hit : j.ws[i] \in Cells
        /\ s.kind = "update" /\ j.quiet /\ s.single => j.keys = j.hit
        /\ s.auto > 0 => j.hit = last[j.conn] .. (last[j.conn] + j.affected - 1)
    BY <1>1, <1>2 DEF Sound, Represented
  <2>2. j.quiet /\ s.single /\ (s.kind = "update" \/ s.auto > 0)
    BY <1>3 DEF Exact
  <2>3. keys = j.hit
    BY <1>1, <2>1, <2>2 DEF InsertedRange
  <2>4. j.hit \subseteq Ids
    BY <1>1 DEF JobState
  <2>5. ASSUME NEW i \in j.hit PROVE seen[i] # None
    BY <2>1, <2>4, Constants DEF Overlay
  <2> HIDE DEF seen, keys
  <2> QED
    BY <2>3, <2>4, <2>5
<1> HIDE DEF base, out
<1>6. /\ n \in JobState /\ n.pc = "enforce" /\ n.hit = j.hit /\ n.ws = j.ws
      /\ n.affected = j.affected /\ n.new = j.new /\ n.rows = out /\ n.shape = s
      /\ n.conn = j.conn /\ n.durable = j.durable /\ n.made = j.made /\ n.total = j.total
      /\ n.quiet = j.quiet
  <2>1. j \in JobState /\ base \in Tables /\ out \in SUBSET Ids
    BY <1>1, <1>4
  <2> QED
    BY <2>1 DEF JobState, PCs
<1> HIDE DEF n
<1>7. Placed(backend, n)
  BY <1>1, <1>2, <1>6 DEF Sound, Placed, Holding, Pages, Transactional, Early, Kinds
<1>8. Guarded(backend, n) /\ Visited(backend, n)
  BY <1>1, <1>2, <1>3, <1>6 DEF Sound, Guarded, Visited
<1>9. Represented(backend, n, table, last)
  BY <1>3, <1>5, <1>6 DEF Represented, Exact
<1>10. Detected(backend, n, table)
  BY <1>1, <1>3, <1>6 DEF Sound, Detected, Early
<1>11. Counted(n, table)
  BY <1>1, <1>3, <1>6 DEF Sound, Counted
<1>12. Sound(backend, n, table, last)
  BY <1>6, <1>7, <1>8, <1>9, <1>10, <1>11 DEF Sound
<1> QED
  BY <1>2, <1>6, <1>12, OwnStepKeeps

\* A volatile function: its statement, or the refusal of its controls.
LEMMA CallKeeps ==
    ASSUME IInv, NEW r \in Reqs, Call(r)
    PROVE  IInv'
<1>1. job[r].pc = "mutate"
  BY DEF Call
<1>2. CASE NativeStatement(r)
  BY <1>1, <1>2, NativeKeeps
<1>3. CASE Job(r, Ended(job[r], "control")) /\ UNCHANGED <<backend, table, next, last>>
  <2>1. "control" \in Endings
    BY DEF Endings, Refusals
  <2> QED
    BY <1>1, <1>3, <2>1, EndKeeps
<1> QED
  BY <1>2, <1>3 DEF Call

\* The bounds are checked on the count, which covers the rows touched.
LEMMA EnforceKeeps ==
    ASSUME IInv, NEW r \in Reqs, Enforce(r)
    PROVE  IInv'
<1> DEFINE j == job[r]
           s == job[r].shape
           n == [j EXCEPT !.pc = "commit"]
           bad == s.kind # "call" /\ Exceeds(s, j.affected)
           plural == backend = "sqlite" /\ s.kind # "call" /\ s.object /\ j.affected # 1
<1>1. Sound(backend, j, table, last) /\ j \in JobState /\ s \in Shape
  BY Handler
<1>2. /\ j.pc = "enforce" /\ UNCHANGED <<backend, table, next, last>>
      /\ Job(r, IF bad THEN Ended(j, "max") ELSE IF plural THEN Ended(j, "singular")
                ELSE IF s.rollback THEN Ended(j, "ok") ELSE n)
  BY DEF Enforce
<1>3. /\ backend # "mongo" /\ s.kind # "read" /\ j.total = None
      /\ s.repr /\ Exact(backend, j) => j.rows = j.hit
  BY <1>1, <1>2 DEF Sound, Placed, Transactional, Counted, Represented
<1>4. ASSUME NEW e \in {"max", "singular", "ok"}, Job(r, Ended(j, e)) PROVE IInv'
  <2>1. e \in Endings
    BY DEF Endings, Refusals
  <2> QED
    BY <1>2, <1>3, <1>4, <2>1, EndKeeps
<1>5. ASSUME ~bad, ~plural, ~s.rollback, Job(r, n) PROVE IInv'
  <2>1. /\ n \in JobState /\ n.pc = "commit" /\ n.hit = j.hit /\ n.ws = j.ws
        /\ n.affected = j.affected /\ n.new = j.new /\ n.rows = j.rows /\ n.shape = s
        /\ n.conn = j.conn /\ n.durable = j.durable /\ n.made = j.made /\ n.total = j.total
        /\ n.quiet = j.quiet
    BY <1>1 DEF JobState, PCs
  <2>2. /\ Cardinality(j.hit) <= j.affected /\ j.affected \in Nat /\ Cardinality(j.hit) \in Nat
        /\ backend = "sqlite" => Cardinality(j.hit) = j.affected
    BY <1>1, <1>2, <1>3, KeysFinite DEF Sound, Guarded, JobState
  <2>3. s.max # None => s.max \in Nat
    BY <1>1 DEF Shape
  <2>4. Bounded(backend, j)
    BY <1>5, <2>2, <2>3 DEF Bounded, Exceeds
  <2> HIDE DEF n, bad, plural
  <2>5. Placed(backend, n)
    BY <1>1, <1>2, <2>1 DEF Sound, Placed, Holding, Pages, Transactional, Early, Kinds
  <2>6. Guarded(backend, n) /\ Visited(backend, n)
    BY <1>1, <1>2, <1>3, <1>5, <2>1, <2>4 DEF Sound, Guarded, Visited, Bounded
  <2>7. Represented(backend, n, table, last)
    BY <1>3, <2>1 DEF Represented, Exact
  <2>8. Detected(backend, n, table) /\ Counted(n, table)
    BY <1>1, <1>2, <1>3, <2>1 DEF Sound, Detected, Counted, Early
  <2>9. Sound(backend, n, table, last)
    BY <2>1, <2>5, <2>6, <2>7, <2>8 DEF Sound
  <2> QED
    BY <1>2, <1>5, <2>1, <2>9, OwnStepKeeps
<1> HIDE DEF n, bad, plural
<1> QED
  BY <1>2, <1>4, <1>5

\* The commit makes durable what the bounds were checked for.
LEMMA CommitKeeps ==
    ASSUME IInv, NEW r \in Reqs, Commit(r)
    PROVE  IInv'
<1> DEFINE j == job[r]
           t == Overlay(table, j.ws)
           d == [j EXCEPT !.durable = j.hit]
<1>1. Sound(backend, j, table, last) /\ j \in JobState /\ table \in Tables
  BY Handler
<1>2. j.pc = "commit" /\ UNCHANGED <<backend, next, last>>
  BY DEF Commit
<1>3. PICK e \in {"ok", "commit"} : Publish(r, t, Ended(d, e))
  BY DEF Commit
<1>4. t \in Tables
  BY <1>1 DEF Overlay, JobState, Tables
<1> DEFINE n == Ended(d, e)
<1>5. /\ d \in JobState /\ d.shape = j.shape /\ d.hit = j.hit /\ d.rows = j.rows
      /\ d.total = j.total /\ d.made = j.made /\ d.durable = j.hit /\ d.quiet = j.quiet
  BY <1>1 DEF JobState
<1> HIDE DEF d, t
<1>6. /\ n \in JobState /\ n.pc = "done" /\ n.conn = None /\ n.ws = Untouched /\ n.ending = e
      /\ n.shape = j.shape /\ n.hit = j.hit /\ n.rows = j.rows /\ n.total = j.total
      /\ n.made = j.made /\ n.durable = j.hit /\ n.quiet = j.quiet
  <2>1. Untouched \in [Ids -> Row \cup {Keep}] /\ e \in Endings /\ d \in JobState
    BY <1>5 DEF Untouched, Endings
  <2> QED
    BY <1>5, <2>1 DEF JobState, Ended, PCs
<1> HIDE DEF n
<1>7. /\ backend # "mongo" /\ j.total = None /\ j.conn # None /\ ~j.shape.rollback
      /\ Bounded(backend, j)
      /\ j.shape.repr /\ Exact(backend, j) => j.rows = j.hit
  BY <1>1, <1>2 DEF Sound, Placed, Counted, Guarded, Represented, Transactional, Holding
<1>8. Placed(backend, n)
  BY <1>6, Constants DEF Placed, Holding, Pages, Transactional, Early, Kinds
<1>9. Guarded(backend, n) /\ Visited(backend, n)
  BY <1>6, <1>7 DEF Guarded, Visited, Bounded
<1>10. Represented(backend, n, t, last)
  BY <1>6, <1>7 DEF Represented, Exact
<1>11. Detected(backend, n, t) /\ Counted(n, t)
  BY <1>1, <1>6, <1>7 DEF Sound, Detected, Counted, Early
<1>12. Sound(backend, n, t, last)
  BY <1>6, <1>8, <1>9, <1>10, <1>11 DEF Sound
<1> QED
  BY <1>2, <1>3, <1>4, <1>6, <1>7, <1>12, PublishKeeps DEF n

-----------------------------------------------------------------------------
(* MongoDB's actions.                                                      *)

\* Count and page of a MongoDB read.
LEMMA MongoReadKeeps ==
    ASSUME IInv, NEW r \in Reqs, MongoRead(r)
    PROVE  IInv'
<1> DEFINE page == [job[r] EXCEPT !.rows = Matches(table, job[r].shape)]
           e == IF job[r].shape.object /\ Cardinality(Matches(table, job[r].shape)) # 1
                THEN "singular" ELSE "ok"
<1>1. UNCHANGED <<backend, table, next, last>> /\ backend \in AllBackends
  BY Handler DEF MongoRead
<1>2. CASE job[r].pc = "count"
  <2>1. Job(r, [job[r] EXCEPT !.pc = "page",
                              !.total = Cardinality(Matches(table, job[r].shape))])
    BY <1>2 DEF MongoRead
  <2> QED
    BY <1>1, <1>2, <2>1, CountKeeps
<1>3. CASE job[r].pc = "page"
  <2>1. Job(r, Ended(page, e))
    BY <1>3 DEF MongoRead
  <2>2. e \in Endings /\ e \in {"singular", "ok"}
    BY DEF Endings, Refusals
  <2>3. /\ Sound(backend, page, table, last) /\ page \in JobState /\ page.pc = "page"
        /\ page.hit = {} /\ page.shape.kind = "read"
        /\ page.total # None /\ page.quiet => page.total = Cardinality(page.rows)
    BY <1>3, PageSound
  <2> HIDE DEF page, e
  <2>4. Sound(backend, Ended(page, e), table, last)
    BY <1>1, <2>2, <2>3, EndSound
  <2>5. Ended(page, e).conn = None
    BY <2>3 DEF Ended, JobState
  <2> QED
    BY <1>1, <2>1, <2>4, <2>5, OwnStepKeeps
<1> QED
  BY <1>2, <1>3 DEF MongoRead

\* CountDocuments refuses, or lets the command start.
LEMMA MongoCheckKeeps ==
    ASSUME IInv, NEW r \in Reqs, MongoCheck(r)
    PROVE  IInv'
<1> DEFINE j == job[r]
           n == [j EXCEPT !.pc = "write"]
<1>1. Sound(backend, j, table, last) /\ j \in JobState
  BY Handler
<1>2. /\ j.pc = "check" /\ UNCHANGED <<backend, table, next, last>>
      /\ Job(r, Ended(j, "max")) \/ Job(r, n)
  BY DEF MongoCheck
<1>3. j.hit = {} /\ "max" \in Endings
  BY <1>1, <1>2 DEF Sound, Placed, Early, Endings, Refusals
<1>4. CASE Job(r, Ended(j, "max"))
  BY <1>2, <1>3, <1>4, EndKeeps
<1>5. CASE Job(r, n)
  <2>1. /\ n \in JobState /\ n.pc = "write" /\ n.hit = j.hit /\ n.ws = j.ws /\ n.shape = j.shape
        /\ n.conn = j.conn /\ n.durable = j.durable /\ n.made = j.made /\ n.total = j.total
    BY <1>1 DEF JobState, PCs
  <2> HIDE DEF n
  <2>2. Placed(backend, n)
    BY <1>1, <1>2, <2>1 DEF Sound, Placed, Holding, Pages, Transactional, Early, Kinds
  <2>3. Guarded(backend, n) /\ Visited(backend, n)
    BY <1>1, <1>2, <2>1 DEF Sound, Placed, Guarded, Visited
  <2>4. Represented(backend, n, table, last)
    BY <2>1 DEF Represented
  <2>5. Detected(backend, n, table) /\ Counted(n, table)
    BY <1>1, <1>2, <2>1 DEF Sound, Detected, Counted, Early
  <2>6. Sound(backend, n, table, last)
    BY <2>1, <2>2, <2>3, <2>4, <2>5 DEF Sound
  <2> QED
    BY <1>2, <1>5, <2>1, <2>6, OwnStepKeeps
<1> QED
  BY <1>2, <1>4, <1>5

\* A command starts with nothing touched and its documents to visit.
LEMMA MongoFindKeeps ==
    ASSUME IInv, NEW r \in Reqs, MongoFind(r)
    PROVE  IInv'
<1> DEFINE j == job[r]
           s == job[r].shape
           inserts == s.kind \in {"insert", "upsert"}
           todo == IF inserts THEN NewKeys(s) ELSE Ids
           out == IF s.kind = "delete" /\ s.repr THEN Matches(table, s) ELSE {}
           n == [j EXCEPT !.pc = s.kind, !.todo = todo, !.rows = out]
<1>1. /\ Sound(backend, j, table, last) /\ j \in JobState /\ s \in Shapes /\ s \in Shape
      /\ next \in 1 .. (MaxId + 1) /\ last \in [Conns -> 0 .. MaxId]
  BY Handler
<1>2. /\ backend = "mongo" /\ j.pc = "write" /\ UNCHANGED <<backend, table, last>> /\ Job(r, n)
      /\ Advance(IF inserts THEN NewKeys(s) \cap Ids ELSE {})
  BY DEF MongoFind
<1>3. next' \in 1 .. (MaxId + 1)
  <2>1. (IF inserts THEN NewKeys(s) \cap Ids ELSE {}) \in SUBSET Ids
    OBVIOUS
  <2> QED
    BY <1>1, <1>2, <2>1, AdvanceTypes
<1>4. /\ IsFiniteSet(NewKeys(s)) /\ Cardinality(NewKeys(s)) = Size(s) /\ Size(s) \in Nat
      /\ NewKeys(s) \in SUBSET Nat
  BY <1>1, NewKeysSize
<1>5. /\ todo \in SUBSET Nat /\ out \in SUBSET Ids
      /\ inserts => todo = NewKeys(s)
      /\ ~inserts => todo = Ids
      /\ s.kind = "delete" /\ s.repr => out = Matches(table, s)
  BY <1>4, MatchesFinite, Constants DEF Ids
<1>6. j.hit = {} /\ j.durable = {} /\ j.conn = None /\ s.kind \in Documents
  BY <1>1, <1>2 DEF Sound, Placed, Early, Holding
<1> HIDE DEF todo, out
<1>7. /\ n \in JobState /\ n.pc = s.kind /\ n.todo = todo /\ n.rows = out /\ n.shape = s
      /\ n.hit = j.hit /\ n.durable = j.durable /\ n.conn = j.conn /\ n.ws = j.ws
      /\ n.made = j.made /\ n.total = j.total
  <2>1. s.kind \in PCs
    BY <1>1 DEF Shape, PCs
  <2> QED
    BY <1>1, <1>5, <2>1 DEF JobState
<1> HIDE DEF n
<1>8. Placed(backend, n)
  BY <1>1, <1>2, <1>6, <1>7
     DEF Sound, Placed, Holding, Pages, Transactional, Early, Kinds, Documents
<1>9. Guarded(backend, n)
  BY <1>2 DEF Guarded
<1>10. Visited(backend, n)
  <2>1. inserts => Cardinality(j.hit \cup todo) <= Size(s)
    <3>1. inserts => j.hit \cup todo = NewKeys(s)
      BY <1>5, <1>6
    <3> QED
      BY <1>4, <3>1
  <2>2. inserts => ~Exceeds(s, Size(s))
    BY <1>1, <1>2 DEF Sound, Visited
  <2> QED
    BY <1>4, <1>5, <1>6, <1>7, <2>1, <2>2 DEF Visited, Documents
<1>11. Represented(backend, n, table, last)
  <2>1. s.kind = "delete" /\ s.repr => out = {} \cup (Matches(table, s) \cap todo)
    BY <1>5, MatchesFinite
  <2> QED
    BY <1>2, <1>6, <1>7, <2>1 DEF Represented, Documents
<1>12. Detected(backend, n, table) /\ Counted(n, table)
  BY <1>1, <1>2, <1>6, <1>7 DEF Sound, Detected, Counted, Early, Documents
<1>13. Sound(backend, n, table, last)
  BY <1>7, <1>8, <1>9, <1>10, <1>11, <1>12 DEF Sound
<1> QED
  BY <1>1, <1>2, <1>3, <1>7, <1>13, StepKeeps

\* One document is written. An insert's documents are the ones it had to write, and
\* a delete has removed what it found.
LEMMA VisitKeeps ==
    ASSUME IInv, NEW r \in Reqs, NEW i \in Ids, NEW v \in Row,
           job[r].pc \in Documents, i \in job[r].todo,
           Visit(r, i, v), UNCHANGED <<backend, next, last>>,
           job[r].pc = "delete" =>
             v = IF i \in Matches(table, job[r].shape) THEN None ELSE table[i]
    PROVE  IInv'
<1> DEFINE j == job[r]
           s == job[r].shape
           t == [table EXCEPT ![i] = v]
           hit == IF table[i] # v THEN j.hit \cup {i} ELSE j.hit
           n == [j EXCEPT !.todo = @ \ {i}, !.hit = hit, !.durable = hit,
                          !.affected = Cardinality(hit)]
<1>1. Sound(backend, j, table, last) /\ j \in JobState /\ table \in Tables
  BY Handler
<1>2. Publish(r, t, n) /\ t \in Tables
  BY <1>1 DEF Visit, Tables
<1>3. /\ backend = "mongo" /\ s.kind = j.pc /\ j.conn = None /\ j.ws = Untouched
      /\ j.made = None /\ j.total = None
  BY <1>1 DEF Sound, Placed, Detected, Counted, Documents, Kinds, Holding
<1>4. hit \in SUBSET Ids /\ hit \subseteq j.hit \cup {i} /\ Cardinality(hit) \in Nat
  <2>1. hit \in SUBSET Ids /\ hit \subseteq j.hit \cup {i}
    BY <1>1 DEF JobState
  <2> QED
    BY <2>1, KeysFinite
<1>5. s.kind = "delete" /\ s.repr /\ j.quiet =>
        j.rows = hit \cup (Matches(t, s) \cap (j.todo \ {i}))
  <2> SUFFICES ASSUME s.kind = "delete", s.repr, j.quiet
               PROVE  j.rows = hit \cup (Matches(t, s) \cap (j.todo \ {i}))
    OBVIOUS
  <2>1. j.rows = j.hit \cup (Matches(table, s) \cap j.todo)
    BY <1>1, <1>3 DEF Sound, Represented
  <2>2. \A k \in Ids \ {i} : k \in Matches(t, s) <=> k \in Matches(table, s)
    BY <1>1 DEF Matches, Tables
  <2>3. Matches(t, s) \subseteq Ids /\ Matches(table, s) \subseteq Ids
    BY MatchesFinite
  <2>4. CASE i \in Matches(table, s)
    <3>1. hit = j.hit \cup {i}
      BY <1>3, <2>4 DEF Matches
    <3> HIDE DEF hit, t
    <3> QED
      BY <2>1, <2>2, <2>3, <2>4, <3>1
  <2>5. CASE i \notin Matches(table, s)
    <3>1. hit = j.hit
      BY <1>3, <2>5
    <3> HIDE DEF hit, t
    <3> QED
      BY <2>1, <2>2, <2>3, <2>5, <3>1
  <2> QED
    BY <2>4, <2>5
<1> HIDE DEF hit, t
<1>6. /\ n \in JobState /\ n.pc = j.pc /\ n.todo = j.todo \ {i} /\ n.hit = hit
      /\ n.durable = hit /\ n.rows = j.rows /\ n.shape = s /\ n.conn = j.conn /\ n.ws = j.ws
      /\ n.made = j.made /\ n.total = j.total /\ n.quiet = j.quiet
  BY <1>1, <1>4 DEF JobState
<1> HIDE DEF n
<1>7. Placed(backend, n)
  BY <1>1, <1>3, <1>6, Constants
     DEF Sound, Placed, Holding, Pages, Transactional, Early, Kinds, Documents
<1>8. Guarded(backend, n)
  BY <1>3 DEF Guarded
<1>9. Visited(backend, n)
  <2>1. j.pc \in {"insert", "upsert"} =>
          IsFiniteSet(n.todo) /\ Cardinality(n.hit \cup n.todo) <= Size(s)
    <3> SUFFICES ASSUME j.pc \in {"insert", "upsert"}
                 PROVE  IsFiniteSet(n.todo) /\ Cardinality(n.hit \cup n.todo) <= Size(s)
      OBVIOUS
    <3>1. IsFiniteSet(j.todo) /\ Cardinality(j.hit \cup j.todo) <= Size(s)
      BY <1>1, <1>3 DEF Sound, Visited
    <3>2. IsFiniteSet(j.hit)
      BY <1>1, KeysFinite DEF JobState
    <3>3. IsFiniteSet(j.hit \cup j.todo)
      BY <3>1, <3>2, FS_Union
    <3>4. n.hit \cup n.todo \subseteq j.hit \cup j.todo /\ n.todo \subseteq j.todo
      BY <1>4, <1>6
    <3>5. /\ IsFiniteSet(n.hit \cup n.todo)
          /\ Cardinality(n.hit \cup n.todo) <= Cardinality(j.hit \cup j.todo)
          /\ IsFiniteSet(n.todo)
      BY <3>1, <3>3, <3>4, FS_Subset
    <3>6. /\ Cardinality(n.hit \cup n.todo) \in Nat /\ Cardinality(j.hit \cup j.todo) \in Nat
          /\ Size(s) \in Nat
      BY <1>1, <3>3, <3>5, FS_CardinalityType, Handler, NewKeysSize
    <3> QED
      BY <3>1, <3>5, <3>6
  <2> QED
    BY <1>1, <1>3, <1>6, <2>1 DEF Sound, Visited, Documents
<1>10. Represented(backend, n, t, last)
  BY <1>3, <1>5, <1>6 DEF Represented, Documents
<1>11. Detected(backend, n, t) /\ Counted(n, t)
  BY <1>3, <1>6 DEF Detected, Counted
<1>12. Sound(backend, n, t, last)
  BY <1>6, <1>7, <1>8, <1>9, <1>10, <1>11 DEF Sound
<1> QED
  BY <1>2, <1>3, <1>6, <1>12, PublishKeeps

\* The three commands that visit documents.
LEMMA MongoWriteKeeps ==
    ASSUME IInv, NEW r \in Reqs, MongoInsert(r) \/ MongoUpdate(r) \/ MongoDelete(r)
    PROVE  IInv'
<1> DEFINE j == job[r]
           s == job[r].shape
           i == Least(j.todo)
<1>1. /\ Sound(backend, j, table, last) /\ j \in JobState /\ table \in Tables /\ s \in Shape
      /\ next \in 1 .. (MaxId + 1) /\ UNCHANGED <<backend, next, last>>
      /\ j.pc \in Documents /\ j.todo # {}
  BY Handler DEF MongoInsert, MongoUpdate, MongoDelete, Documents
<1>2. i \in j.todo
  BY <1>1, LeastIsIn DEF JobState
<1>3. j.pc \in {"update", "delete"} => i \in Ids
  BY <1>1, <1>2 DEF Sound, Visited, Placed, Kinds
<1>4. \A k \in Ids : table[k] \in Row
  BY <1>1 DEF Tables
<1>5. s.set \in Row /\ None \in Row
  BY <1>1 DEF Shape, Row
<1> HIDE DEF i
<1>6. CASE MongoInsert(r)
  <2>1. CASE i \in Ids /\ table[i] = None
    <3>1. Visit(r, i, s.set) /\ j.pc # "delete"
      BY <1>6, <2>1 DEF MongoInsert, i
    <3> QED
      BY <1>1, <1>2, <1>5, <2>1, <3>1, VisitKeeps
  <2>2. CASE ~(i \in Ids /\ table[i] = None)
    <3>1. Job(r, Ended(j, "sql")) /\ UNCHANGED table
      BY <1>6, <2>2 DEF MongoInsert, i
    <3>2. "sql" \in Endings /\ j.pc # "done"
      BY <1>1 DEF Endings, Refusals, Documents
    <3> QED
      BY <1>1, <3>1, <3>2, EndKeeps
  <2> QED
    BY <2>1, <2>2
<1>7. CASE MongoUpdate(r)
  <2> DEFINE v == IF i \in Matches(table, s) THEN s.set ELSE table[i]
  <2>1. Visit(r, i, v) /\ j.pc = "update"
    BY <1>7 DEF MongoUpdate, i
  <2>2. v \in Row /\ i \in Ids
    BY <1>3, <1>4, <1>5, <2>1
  <2> QED
    BY <1>1, <1>2, <2>1, <2>2, VisitKeeps
<1>8. CASE MongoDelete(r)
  <2> DEFINE v == IF i \in Matches(table, s) THEN None ELSE table[i]
  <2>1. Visit(r, i, v) /\ j.pc = "delete"
    BY <1>8 DEF MongoDelete, i
  <2>2. v \in Row /\ i \in Ids
    BY <1>3, <1>4, <1>5, <2>1
  <2> QED
    BY <1>1, <1>2, <2>1, <2>2, VisitKeeps
<1> QED
  BY <1>6, <1>7, <1>8

\* readForReturn: a delete answers with what it found.
LEMMA MongoReturnKeeps ==
    ASSUME IInv, NEW r \in Reqs, MongoReturn(r)
    PROVE  IInv'
<1> DEFINE j == job[r]
           s == job[r].shape
           out == IF s.repr /\ j.pc # "delete" THEN Matches(table, s) ELSE j.rows
           n == [j EXCEPT !.rows = out]
<1>1. Sound(backend, j, table, last) /\ j \in JobState /\ backend \in AllBackends
  BY Handler
<1>2. /\ j.pc \in Documents /\ j.todo = {} /\ UNCHANGED <<backend, table, next, last>>
  BY DEF MongoReturn, Documents
<1>3. Job(r, Ended(n, "ok"))
  BY Zenon DEF MongoReturn
<1>4. backend = "mongo" /\ s.kind = j.pc /\ j.conn = None /\ j.made = None /\ j.total = None
  BY <1>1, <1>2 DEF Sound, Placed, Detected, Counted, Documents, Kinds, Holding
<1>5. out \in SUBSET Ids /\ (j.pc = "delete" => out = j.rows)
  BY <1>1, MatchesFinite DEF JobState
<1> HIDE DEF out
<1>6. /\ n \in JobState /\ n.pc = j.pc /\ n.todo = j.todo /\ n.hit = j.hit
      /\ n.durable = j.durable /\ n.rows = out /\ n.shape = s /\ n.conn = j.conn /\ n.ws = j.ws
      /\ n.made = j.made /\ n.total = j.total /\ n.quiet = j.quiet
  BY <1>1, <1>5 DEF JobState
<1> HIDE DEF n
<1>7. Placed(backend, n)
  BY <1>1, <1>2, <1>6
     DEF Sound, Placed, Holding, Pages, Transactional, Early, Kinds, Documents
<1>8. Guarded(backend, n) /\ Visited(backend, n)
  BY <1>1, <1>2, <1>4, <1>6 DEF Sound, Guarded, Visited, Documents
<1>9. Represented(backend, n, table, last)
  BY <1>1, <1>2, <1>4, <1>5, <1>6 DEF Sound, Represented, Documents
<1>10. Detected(backend, n, table) /\ Counted(n, table)
  BY <1>4, <1>6 DEF Detected, Counted
<1>11. Sound(backend, n, table, last)
  BY <1>6, <1>7, <1>8, <1>9, <1>10 DEF Sound
<1>12. s.repr /\ Exact(backend, n) => n.rows = n.hit
  <2>1. Exact(backend, n) => j.quiet /\ s.kind = "delete"
    BY <1>4, <1>6 DEF Exact
  <2>2. s.repr /\ j.quiet /\ s.kind = "delete" => j.rows = j.hit
    BY <1>1, <1>2, <1>4 DEF Sound, Represented
  <2> QED
    BY <1>4, <1>5, <1>6, <2>1, <2>2
<1>13. Sound(backend, Ended(n, "ok"), table, last)
  <2>1. "ok" \in Endings /\ n.pc # "done"
    BY <1>2, <1>6 DEF Endings, Documents
  <2> QED
    BY <1>1, <1>4, <1>6, <1>11, <1>12, <2>1, EndSound
<1>14. Ended(n, "ok").conn = None
  BY <1>6 DEF Ended, JobState
<1> QED
  BY <1>2, <1>3, <1>13, <1>14, OwnStepKeeps

-----------------------------------------------------------------------------
(* The theorems.                                                           *)

\* Handlers start idle.
LEMMA InitInv == Init => IInv
<1> SUFFICES ASSUME Init PROVE IInv
  OBVIOUS
<1>0. MaxId \in Nat /\ Seeded \in 0 .. MaxId
  BY EmulatedAssumption
<1>1. /\ backend \in Backends /\ table \in Tables /\ next \in 1 .. (MaxId + 1)
      /\ last \in [Conns -> 0 .. MaxId]
  BY <1>0 DEF Init
<1>2. ASSUME NEW s \in Shapes
      PROVE  Sound(backend, Idle(s), table, last) /\ Idle(s).conn = None /\ Idle(s).ws = Untouched
  <2> DEFINE n == Idle(s)
  <2>1. s \in Shape /\ Untouched \in [Ids -> Row \cup {Keep}]
    BY Constants DEF Untouched
  <2>2. /\ n \in JobState /\ n.pc = "idle" /\ n.conn = None /\ n.ws = Untouched /\ n.hit = {}
        /\ n.rows = {} /\ n.durable = {} /\ n.made = None /\ n.total = None /\ n.shape = s
    BY <2>1 DEF Idle, JobState, PCs
  <2> HIDE DEF n
  <2>3. Placed(backend, n)
    BY <2>2 DEF Placed, Holding, Pages, Transactional, Early, Kinds
  <2>4. Guarded(backend, n) /\ Visited(backend, n)
    BY <2>2 DEF Guarded, Visited
  <2>5. Represented(backend, n, table, last) /\ Detected(backend, n, table) /\ Counted(n, table)
    BY <2>2 DEF Represented, Detected, Counted
  <2> QED
    BY <2>2, <2>3, <2>4, <2>5 DEF Sound, n
<1>3. \A r \in Reqs : \E s \in Shapes : job[r] = Idle(s)
  BY DEF Init
<1>4. Served /\ \A r \in Reqs : job[r].conn = None /\ job[r].ws = Untouched
  BY <1>2, <1>3 DEF Served
<1>5. job \in [Reqs -> JobState]
  <2>1. \A s \in Shapes : Idle(s) \in JobState
    BY <1>2 DEF Sound
  <2> QED
    BY <2>1 DEF Init
<1> QED
  BY <1>1, <1>4, <1>5 DEF IInv, TypeOK

\* Every step of a handler keeps the invariant.
LEMMA StepInv ==
    ASSUME IInv, NEW r \in Reqs, Step(r)
    PROVE  IInv'
<1>1. CASE Arrive(r)
  BY <1>1, ArriveKeeps
<1>2. CASE Reads(r)
  <2>1. CASE CountRows(r)
    BY <2>1, CountKeeps DEF CountRows
  <2>2. CASE PageRows(r) \/ Stream(r)
    BY <2>2, PageRowsKeeps, StreamKeeps
  <2>3. CASE MongoRead(r)
    BY <2>3, MongoReadKeeps
  <2> QED
    BY <1>2, <2>1, <2>2, <2>3 DEF Reads, SqliteRead, MysqlRead, SqlserverRead
<1>3. CASE Begin(r)
  BY <1>3, BeginKeeps
<1>4. CASE Mutations(r)
  <2>1. CASE Capture(r) \/ Detect(r)
    BY <2>1, CaptureKeeps, DetectKeeps
  <2>2. CASE SqliteWrite(r) \/ MariadbWrite(r) \/ SqlserverWrite(r)
    <3>1. job[r].pc = "mutate" /\ NativeStatement(r)
      BY <2>2 DEF SqliteWrite, MariadbWrite, SqlserverWrite,
                  SqlserverInsert, SqlserverUpsert, SqlserverUpdate, SqlserverDelete
    <3> QED
      BY <3>1, NativeKeeps
  <2>3. CASE MysqlWrite(r)
    BY <2>3, MysqlInsertKeeps, MysqlUpdateKeeps, MysqlDeleteKeeps, ReselectKeeps DEF MysqlWrite
  <2>4. CASE Calls(r)
    BY <2>4, CallKeeps DEF Calls, SqliteCall, MysqlCall, SqlserverCall
  <2> QED
    BY <1>4, <2>1, <2>2, <2>3, <2>4 DEF Mutations
<1>5. CASE Enforce(r) \/ Commit(r)
  BY <1>5, EnforceKeeps, CommitKeeps
<1>6. CASE Mongo(r)
  BY <1>6, MongoCheckKeeps, MongoFindKeeps, MongoWriteKeeps, MongoReturnKeeps DEF Mongo
<1> QED
  BY <1>1, <1>2, <1>3, <1>4, <1>5, <1>6 DEF Step

\* The invariant is inductive.
LEMMA NextInv == IInv /\ [Next]_vars => IInv'
<1> SUFFICES ASSUME IInv, [Next]_vars PROVE IInv'
  OBVIOUS
<1>1. CASE UNCHANGED vars
  BY <1>1 DEF vars, IInv, TypeOK, Served
<1>2. ASSUME NEW r \in Reqs, Step(r) \/ Fail(r) PROVE IInv'
  BY <1>2, StepInv, FailKeeps
<1> QED
  BY <1>1, <1>2 DEF Next, Finished

\* Every handler is sound in every reachable state of every data plane.
THEOREM EmulatedInductive == Spec => []IInv
BY InitInv, NextInv, PTL DEF Spec

\* Connections are not shared; a refused or rolled back request leaves nothing, and no
\* request makes more rows durable than it was allowed to (the write paths' order of
\* mutation, EnforceMaxAffected, EnforceSingularWrite and commit).
THEOREM EmulatedGuards == Spec => []MutationsGuarded
<1>1. IInv => MutationsGuarded
  <2> SUFFICES ASSUME IInv PROVE MutationsGuarded
    OBVIOUS
  <2>1. RefusedLeavesNothing
    <3> SUFFICES ASSUME NEW r \in Reqs
                 PROVE  /\ backend # "mongo" /\ (Over(r, Refusals) \/ job[r].shape.rollback)
                             => job[r].durable = {}
                        /\ Over(r, {"max", "unsupported"}) => job[r].durable = {}
      BY DEF RefusedLeavesNothing
    <3>1. Sound(backend, job[r], table, last)
      BY Handler
    <3> QED
      BY <3>1 DEF Over, Refusals, Sound, Guarded, Visited
  <2>2. WriteContract
    <3> SUFFICES ASSUME NEW r \in Reqs
                 PROVE  LET s == job[r].shape
                            d == Cardinality(job[r].durable)
                        IN  /\ s.max # None /\ s.kind # "call"
                               /\ (backend # "mongo" \/ s.kind \in {"insert", "upsert"})
                                 => d <= s.max
                            /\ backend = "sqlite" /\ s.object /\ s.kind \notin {"read", "call"}
                                 => d \in {0, 1}
      BY DEF WriteContract
    <3> DEFINE j == job[r]
               s == job[r].shape
    <3>1. Sound(backend, j, table, last) /\ j \in JobState /\ s \in Shapes /\ s \in Shape
          /\ next \in 1 .. (MaxId + 1)
      BY Handler
    <3>2. s.max # None => s.max \in Nat
      BY <3>1 DEF Shape
    <3>3. Cardinality({}) = 0
      BY FS_EmptySet
    <3>4. CASE j.durable = {}
      BY <3>2, <3>3, <3>4
    <3>5. CASE backend # "mongo" /\ j.durable # {}
      BY <3>1, <3>5 DEF Sound, Guarded, Bounded
    <3>6. CASE backend = "mongo" /\ j.durable # {} /\ s.kind \in {"insert", "upsert"} /\ s.max # None
      <4>1. j.durable = j.hit /\ Cardinality(j.hit) \in Nat /\ IsFiniteSet(j.hit)
        BY <3>1, <3>6, KeysFinite DEF Sound, Visited, JobState
      <4>2. j.pc \in {"insert", "upsert", "done"}
        BY <3>1, <3>6
           DEF Sound, Placed, Early, JobState, PCs, Pages, Transactional, Kinds
      <4>3. ~Exceeds(s, Cardinality(j.hit))
        <5>1. CASE j.pc = "done"
          BY <3>1, <3>6, <5>1 DEF Sound, Visited
        <5>2. CASE j.pc \in {"insert", "upsert"}
          <6>1. /\ IsFiniteSet(j.todo) /\ Cardinality(j.hit \cup j.todo) <= Size(s)
                /\ ~Exceeds(s, Size(s))
            BY <3>1, <3>6, <5>2 DEF Sound, Visited
          <6>2. /\ IsFiniteSet(j.hit \cup j.todo) /\ Cardinality(j.hit \cup j.todo) \in Nat
                /\ Size(s) \in Nat
            BY <3>1, <4>1, <6>1, FS_Union, FS_CardinalityType, NewKeysSize
          <6>3. Cardinality(j.hit) <= Cardinality(j.hit \cup j.todo)
            BY <6>2, FS_Subset
          <6> QED
            BY <3>2, <4>1, <6>1, <6>2, <6>3 DEF Exceeds
        <5> QED
          BY <4>2, <5>1, <5>2
      <4> QED
        BY <3>2, <3>6, <4>1, <4>3 DEF Exceeds
    <3> QED
      BY <3>4, <3>5, <3>6
  <2> QED
    BY <2>1, <2>2 DEF MutationsGuarded, IInv
<1> QED
  BY <1>1, EmulatedInductive, PTL

\* A write represents the rows it touched, where the data plane can know them, and
\* SQLite's 200-or-201 check counts what the upsert creates (RETURNING, OUTPUT, the
\* selects around MySQL's mutation, MongoDB's finds, detectUpsertInsert).
THEOREM EmulatedRepresents == Spec => []RepresentationsExact
<1>1. IInv => RepresentationsExact
  <2> SUFFICES ASSUME IInv PROVE RepresentationsExact
    OBVIOUS
  <2>1. \A r \in Reqs : Sound(backend, job[r], table, last)
    BY Handler
  <2>2. ReturnsOwnRows
    BY <2>1 DEF ReturnsOwnRows, Over, Sound, Represented, Exact
  <2>3. CreatedExactly
    BY <2>1 DEF CreatedExactly, Sound, Detected
  <2> QED
    BY <2>2, <2>3 DEF RepresentationsExact
<1> QED
  BY <1>1, EmulatedInductive, PTL

\* A counted read that no write overlapped reports the number of its rows, although
\* count and page are separate statements on the pool.
THEOREM EmulatedCounts == Spec => []QuietCountAgrees
<1>1. IInv => QuietCountAgrees
  <2> SUFFICES ASSUME IInv PROVE QuietCountAgrees
    OBVIOUS
  <2>1. \A r \in Reqs : Sound(backend, job[r], table, last)
    BY Handler
  <2> QED
    BY <2>1 DEF QuietCountAgrees, Over, Sound, Counted
<1> QED
  BY <1>1, EmulatedInductive, PTL

=============================================================================
