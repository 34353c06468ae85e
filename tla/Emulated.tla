------------------------------ MODULE Emulated ------------------------------
(***************************************************************************)
(* The data planes that have no roles, no settings and not always a        *)
(* RETURNING clause: SQLite, MySQL 8, MariaDB, SQL Server and MongoDB. One *)
(* of them serves several requests at once.                                *)
(*                                                                         *)
(*   reads      count and page are two statements, taken from the pool     *)
(*              separately; a streamed page keeps its connection           *)
(*   writes     one transaction: the mutation, the checks, the commit      *)
(*   RETURNING  native (SQLite, MariaDB, SQL Server's OUTPUT), emulated by *)
(*              selects around the mutation (MySQL 8), or by finds outside *)
(*              any transaction (MongoDB, which has none here)             *)
(*                                                                         *)
(* A row is the value of the one column that requests filter on and set.   *)
(* The database engines are external and modelled from how the code uses   *)
(* them.                                                                   *)
(***************************************************************************)
EXTENDS Integers, FiniteSets

CONSTANTS
    Reqs,       \* the requests (each is served once)
    Conns,      \* the connections the pool may open
    MaxId,      \* the largest primary key
    Seeded,     \* how many rows the table may hold at the start
    Shapes,     \* the request shapes a client may send
    Backends,   \* the data planes considered
    None,       \* absent: no row, no filter, no connection, no bound
    Keep        \* in a write set: a row the transaction has not written

AllBackends == {"sqlite", "mysql", "mariadb", "sqlserver", "mongo"}
Ids == 1..MaxId
Cells == {0, 1}
Row == Cells \cup {None}
Tables == [Ids -> Row]

Kinds == {"read", "insert", "upsert", "update", "delete", "call"}

(***************************************************************************)
(* A planned request. "keys" are the primary keys of an explicit payload,  *)
(* "auto" the number of rows of a payload that leaves them to the engine,  *)
(* which is an insert, as there is no key that its rows could repeat;      *)
(* "fn" marks a read-only function, read like a table; "empty" an update   *)
(* that assigns nothing; "single" says that the table has a primary key of *)
(* one column.                                                             *)
(***************************************************************************)
Shape == [kind : Kinds, fn : BOOLEAN, where : Row, set : Cells,
          keys : SUBSET Ids, auto : Nat, ignore : BOOLEAN, repr : BOOLEAN,
          object : BOOLEAN, count : BOOLEAN, empty : BOOLEAN,
          max : Nat \cup {None}, rollback : BOOLEAN, single : BOOLEAN]

Refusals == {"max", "singular", "control", "sql", "unsupported", "panic"}
Endings == Refusals \cup {"ok", "commit"}

ASSUME EmulatedAssumption ==
    /\ MaxId \in Nat /\ Seeded \in 0..MaxId /\ Conns # {}
    /\ Shapes \subseteq Shape
    /\ \A s \in Shapes : s.auto > 0 => s.kind = "insert" /\ s.keys = {}
    /\ Backends \subseteq AllBackends
    /\ None \notin Nat \cup Conns \cup Endings \cup Tables
    /\ Keep \notin Row

VARIABLES
    backend,    \* the data plane that serves
    table,      \* the committed rows
    next,       \* the next key the engine would assign
    last,       \* per connection: the session's LAST_INSERT_ID()
    job         \* per request: its handler's state

vars == <<backend, table, next, last, job>>

Untouched == [i \in Ids |-> Keep]

(***************************************************************************)
(* The state of a handler: where it is, the connection and the write set   *)
(* of its transaction, the snapshot its plain selects read, the keys it    *)
(* captured, the documents still to visit, and what it will answer. "hit"  *)
(* are the rows its mutation touched, "durable" the ones that became       *)
(* visible, and "quiet" is lost when another request's write becomes       *)
(* visible while this one runs.                                            *)
(***************************************************************************)
Idle(s) == [pc |-> "idle", shape |-> s, conn |-> None, ws |-> Untouched,
            snap |-> None, keys |-> {}, todo |-> {}, hit |-> {},
            rows |-> {}, affected |-> 0, total |-> None, made |-> None,
            new |-> 0, durable |-> {}, quiet |-> TRUE, ending |-> None]

Init ==
    /\ backend \in Backends
    /\ \E n \in 0..Seeded :
         /\ table \in {t \in Tables : \A i \in Ids : (t[i] # None) <=> (i <= n)}
         /\ next = n + 1
    /\ last = [c \in Conns |-> 0]
    /\ job \in [Reqs -> {Idle(s) : s \in Shapes}]

-----------------------------------------------------------------------------
(* The engines, as the code relies on them.                                *)

Matches(t, s) == {i \in Ids : t[i] # None /\ s.where \in {None, t[i]}}

\* What a transaction sees over t: its own writes first.
Overlay(t, ws) == [i \in Ids |-> IF ws[i] = Keep THEN t[i] ELSE ws[i]]

\* Row locks: rows that another open transaction wrote have to wait for it.
Unlocked(r, S) == \A q \in Reqs \ {r} : \A i \in S : job[q].ws[i] = Keep

\* database/sql's pool; SQLite's is opened with a single connection.
PoolOf(b) == IF b = "sqlite" THEN {CHOOSE c \in Conns : TRUE} ELSE Conns
IdleConns == PoolOf(backend) \ {job[q].conn : q \in Reqs}

\* Keys an INSERT writes: assigned from the counter, or the payload's own.
NewKeys(s) == IF s.auto > 0 THEN next .. (next + s.auto - 1) ELSE s.keys

\* The rows a mutation touches on table t. An upsert that ignores duplicates
\* skips them, except on MySQL and MariaDB, where it is a no-op update.
NoOpIgnore == backend \in {"mysql", "mariadb"}
Touched(t, s) ==
    CASE s.kind = "insert" -> NewKeys(s)
      [] s.kind = "upsert" -> {i \in s.keys : s.ignore /\ ~NoOpIgnore => t[i] = None}
      [] OTHER -> Matches(t, s)

WriteSet(t, s, hit) ==
    [i \in Ids |-> IF i \notin hit THEN Keep
                   ELSE IF s.kind = "delete" THEN None
                   ELSE IF s.kind = "upsert" /\ s.ignore /\ t[i] # None THEN t[i]
                   ELSE s.set]

\* An upsert of no rows, which is no no-op: CompileInsert refuses it, while SQL
\* Server's MERGE path returns early with nothing touched.
Vacuous(s) == s.kind = "upsert" /\ s.keys = {}

\* A plain INSERT fails on a key that exists or when the keys have run out.
Collides(t, s) ==
    \/ s.kind = "insert" /\ ~ NewKeys(s) \subseteq {i \in Ids : t[i] = None}
    \/ Vacuous(s) /\ backend # "sqlserver"

\* The counter moves past every key an INSERT wrote, and never back.
Advance(hit) ==
    next' = CHOOSE n \in next..(MaxId + 1) :
              (\A i \in hit : i < n) /\ (n = next \/ n - 1 \in hit)

-----------------------------------------------------------------------------
(* Helpers of the handlers.                                                *)

Job(r, new) == job' = [job EXCEPT ![r] = new]
Ended(j, ending) == [j EXCEPT !.pc = "done", !.ending = ending,
                              !.conn = None, !.ws = Untouched, !.snap = None]

\* r makes t the committed table; running requests notice.
Publish(r, t, new) ==
    /\ table' = t
    /\ job' = [q \in Reqs |->
                 IF q = r THEN new
                 ELSE [job[q] EXCEPT !.quiet = @ /\ (t = table \/ job[q].pc \in {"idle", "done"})]]

\* An insert of no rows and an update of no columns: nothing is compiled or run.
IsNoOpMutation(s) ==
    \/ s.kind = "insert" /\ s.keys = {} /\ s.auto = 0
    \/ s.kind = "update" /\ s.empty

\* returningCols: the representation, or the key of a created row for Location.
Returns(s) == s.repr \/ s.kind \in {"insert", "upsert", "call"}

Exceeds(s, n) == s.max # None /\ n > s.max

\* Execute: what each data plane does first with a request. SQLite compiles before
\* it begins; MongoDB has no documents to insert, and no rows to render either: a
\* representation of a vacuous upsert dereferences a nil row stream.
FirstStep(s) ==
    IF s.kind = "read" THEN IF s.count THEN "count" ELSE "page"
    ELSE IF backend # "mongo" THEN "begin"
    ELSE IF s.max # None /\ s.kind \in {"update", "delete"} THEN "check" ELSE "write"

Arrive(r) ==
    /\ job[r].pc = "idle"
    /\ LET s == job[r].shape IN
         IF backend = "mongo" /\ (s.fn \/ s.kind = "call")
           THEN Job(r, Ended(job[r], "unsupported"))
         ELSE IF IsNoOpMutation(s) THEN Job(r, Ended(job[r], "ok"))
         ELSE IF Vacuous(s) /\ backend = "sqlite" THEN Job(r, Ended(job[r], "sql"))
         ELSE IF Vacuous(s) /\ backend = "mongo"
           THEN Job(r, Ended(job[r], IF s.repr THEN "panic" ELSE "ok"))
         ELSE IF backend = "mongo" /\ s.kind \in {"insert", "upsert"}
                 /\ Exceeds(s, Cardinality(NewKeys(s)))
           THEN Job(r, Ended(job[r], "max"))
         ELSE Job(r, [job[r] EXCEPT !.pc = FirstStep(s)])
    /\ UNCHANGED <<backend, table, next, last>>

-----------------------------------------------------------------------------
(* Reads: on the pool, outside any transaction.                            *)

\* Faulty variant: the count's cursor is kept open while the page is fetched.
CountHeld(r) ==
    /\ job[r].pc = "count"
    /\ \E c \in IdleConns :
         Job(r, [job[r] EXCEPT !.pc = "page", !.conn = c,
                               !.total = Cardinality(Matches(table, job[r].shape))])
    /\ UNCHANGED <<backend, table, next, last>>

\* Faulty variant: the count compiled without the filter.
CountAll(r) ==
    /\ job[r].pc = "count"
    /\ IdleConns # {}
    /\ Job(r, [job[r] EXCEPT !.pc = "page",
                             !.total = Cardinality({i \in Ids : table[i] # None})])
    /\ UNCHANGED <<backend, table, next, last>>

\* QueryRow(count): takes a connection and gives it back.
CountRows(r) ==
    /\ job[r].pc = "count"
    /\ IdleConns # {}
    /\ Job(r, [job[r] EXCEPT !.pc = "page",
                             !.total = Cardinality(Matches(table, job[r].shape))])
    /\ UNCHANGED <<backend, table, next, last>>

\* The page is read and streamed from an open cursor, which holds its
\* connection until the renderer has drained it. SQLite buffers the rows of a
\* function that carries response controls, which may turn out invalid.
PageRows(r) ==
    /\ job[r].pc = "page"
    /\ \E c \in IdleConns :
         LET page == [job[r] EXCEPT !.rows = Matches(table, job[r].shape)] IN
           \/ Job(r, [page EXCEPT !.pc = "stream", !.conn = c])
           \/ /\ backend = "sqlite" /\ job[r].shape.fn
              /\ \E e \in {"ok", "control"} : Job(r, Ended(page, e))
    /\ UNCHANGED <<backend, table, next, last>>

Stream(r) ==
    /\ job[r].pc = "stream"
    /\ Job(r, Ended(job[r], "ok"))
    /\ UNCHANGED <<backend, table, next, last>>

SqliteRead(r) == backend = "sqlite" /\ (CountRows(r) \/ PageRows(r) \/ Stream(r))
MysqlRead(r) ==
    backend \in {"mysql", "mariadb"} /\ (CountRows(r) \/ PageRows(r) \/ Stream(r))
SqlserverRead(r) == backend = "sqlserver" /\ (CountRows(r) \/ PageRows(r) \/ Stream(r))

-----------------------------------------------------------------------------
(* Writes and volatile calls of the SQL data planes.                       *)

\* BeginTx, and what follows it: MySQL 8 selects first what an update or a
\* delete will have to represent.
Begin(r) ==
    /\ job[r].pc = "begin"
    /\ \E c \in IdleConns :
         LET s == job[r].shape
             captures == backend = "mysql" /\ s.repr
                         /\ (s.kind = "delete" \/ (s.kind = "update" /\ s.single))
         IN  Job(r, [job[r] EXCEPT !.conn = c,
                       !.pc = IF captures THEN "capture"
                              ELSE IF backend = "sqlite" /\ s.kind = "upsert" /\ ~s.ignore
                              THEN "detect" ELSE "mutate"])
    /\ UNCHANGED <<backend, table, next, last>>

\* selectPKs and executeDeleteEmulated: the first select of the transaction
\* also fixes the snapshot that later selects read (REPEATABLE READ).
Capture(r) ==
    /\ job[r].pc = "capture"
    /\ LET seen == Matches(table, job[r].shape)
       IN  Job(r, [job[r] EXCEPT !.pc = "mutate", !.snap = table, !.keys = seen,
                     !.rows = IF job[r].shape.kind = "delete" THEN seen ELSE {}])
    /\ UNCHANGED <<backend, table, next, last>>

\* detectUpsertInsert: which payload keys do not exist yet.
Detect(r) ==
    /\ job[r].pc = "detect"
    /\ Job(r, [job[r] EXCEPT !.pc = "mutate",
                  !.made = Cardinality({i \in job[r].shape.keys : table[i] = None})])
    /\ UNCHANGED <<backend, table, next, last>>

\* The mutation runs on the current rows: their write set and locks are the
\* transaction's until it ends. n is the affected count the driver reports,
\* rows what the statement itself returned.
Statement(r, n, rows, then) ==
    LET s == job[r].shape
        hit == Touched(table, s)
    IN  /\ Unlocked(r, hit \cap Ids)
        /\ IF Collides(table, s)
             THEN Job(r, Ended(job[r], "sql")) /\ UNCHANGED next
             ELSE /\ Job(r, [job[r] EXCEPT !.pc = then, !.hit = hit,
                               !.ws = WriteSet(table, s, hit), !.affected = n,
                               !.new = Cardinality({i \in hit : table[i] = None}),
                               !.rows = IF Returns(s) THEN rows ELSE {}])
                  /\ Advance(IF s.kind \in {"insert", "upsert"} THEN hit ELSE {})
        /\ UNCHANGED <<backend, table>>

\* One statement with RETURNING or OUTPUT; its rows are drained.
NativeStatement(r) ==
    LET hit == Touched(table, job[r].shape)
    IN  Statement(r, Cardinality(hit), hit, "enforce") /\ UNCHANGED last

SqliteWrite(r) ==
    backend = "sqlite" /\ job[r].pc = "mutate" /\ job[r].shape.kind # "call"
    /\ NativeStatement(r)
MariadbWrite(r) ==
    backend = "mariadb" /\ job[r].pc = "mutate" /\ job[r].shape.kind # "call"
    /\ NativeStatement(r)
SqlserverInsert(r) ==
    backend = "sqlserver" /\ job[r].pc = "mutate" /\ job[r].shape.kind = "insert"
    /\ NativeStatement(r)
\* MERGE ... WITH (HOLDLOCK): WHEN MATCHED is left out for ignore-duplicates.
SqlserverUpsert(r) ==
    backend = "sqlserver" /\ job[r].pc = "mutate" /\ job[r].shape.kind = "upsert"
    /\ NativeStatement(r)
SqlserverUpdate(r) ==
    backend = "sqlserver" /\ job[r].pc = "mutate" /\ job[r].shape.kind = "update"
    /\ NativeStatement(r)
SqlserverDelete(r) ==
    backend = "sqlserver" /\ job[r].pc = "mutate" /\ job[r].shape.kind = "delete"
    /\ NativeStatement(r)

\* ON DUPLICATE KEY UPDATE counts a row it inserts or finds unchanged once and
\* a row it changes twice.
MysqlCount(s, hit) ==
    IF s.kind # "upsert" THEN Cardinality(hit)
    ELSE Cardinality(hit)
         + Cardinality({i \in hit : ~s.ignore /\ table[i] \notin {None, s.set}})

\* LAST_INSERT_ID() is the session's: only generated keys move it.
MysqlInsert(r) ==
    /\ backend = "mysql" /\ job[r].pc = "mutate"
    /\ job[r].shape.kind \in {"insert", "upsert"}
    /\ LET s == job[r].shape
           n == MysqlCount(s, Touched(table, s))
       IN  /\ Statement(r, n, {}, IF s.single THEN "reselect" ELSE "enforce")
           /\ last' = IF s.auto > 0 /\ ~Collides(table, s)
                      THEN [last EXCEPT ![job[r].conn] = next] ELSE last

MysqlUpdate(r) ==
    /\ backend = "mysql" /\ job[r].pc = "mutate" /\ job[r].shape.kind = "update"
    /\ LET hit == Touched(table, job[r].shape)
       IN  Statement(r, Cardinality(hit), {},
                     IF job[r].keys # {} THEN "reselect" ELSE "enforce")
    /\ UNCHANGED last

\* The representation was selected before; the delete returns nothing.
MysqlDelete(r) ==
    /\ backend = "mysql" /\ job[r].pc = "mutate" /\ job[r].shape.kind = "delete"
    /\ LET hit == Touched(table, job[r].shape)
       IN  Statement(r, Cardinality(hit), job[r].rows, "enforce")
    /\ UNCHANGED last

\* Faulty variant: LAST_INSERT_ID() taken for the last key.
InsertedRangeAfter(r) ==
    LET id == last[job[r].conn] IN (id + 1) .. (id + job[r].affected)

\* The re-select: the generated range after an insert, the captured keys after
\* an update. It sees the transaction's own writes over its snapshot.
InsertedRange(r) ==
    LET id == last[job[r].conn] IN id .. (id + job[r].affected - 1)

Reselect(r) ==
    /\ job[r].pc = "reselect"
    /\ LET base == IF job[r].snap = None THEN table ELSE job[r].snap
           seen == Overlay(base, job[r].ws)
           keys == IF job[r].shape.kind = "update" THEN job[r].keys ELSE InsertedRange(r)
       IN  Job(r, [job[r] EXCEPT !.pc = "enforce", !.snap = base,
                                 !.rows = {i \in keys \cap Ids : seen[i] # None}])
    /\ UNCHANGED <<backend, table, next, last>>

\* A volatile function: its rows are drained inside the transaction. SQLite
\* lifts response controls out of them, and refuses invalid ones, before the
\* commit.
Call(r) ==
    /\ job[r].pc = "mutate" /\ job[r].shape.kind = "call"
    /\ \/ NativeStatement(r)
       \/ /\ backend = "sqlite"
          /\ Job(r, Ended(job[r], "control"))
          /\ UNCHANGED <<backend, table, next, last>>
SqliteCall(r) == backend = "sqlite" /\ Call(r)
MysqlCall(r) == backend \in {"mysql", "mariadb"} /\ Call(r)
SqlserverCall(r) == backend = "sqlserver" /\ Call(r)

\* Faulty variant: commit first, then check.
EnforceAfterCommit(r) ==
    /\ job[r].pc = "enforce"
    /\ LET s == job[r].shape
           t == Overlay(table, job[r].ws)
           done == [job[r] EXCEPT !.durable = job[r].hit]
       IN  Publish(r, t, Ended(done, IF s.kind # "call" /\ Exceeds(s, job[r].affected)
                                     THEN "max" ELSE "ok"))
    /\ UNCHANGED <<backend, next, last>>

\* EnforceMaxAffected on every data plane, EnforceSingularWrite on SQLite;
\* neither for a call. Prefer: tx=rollback leaves the rollback to the defer.
Enforce(r) ==
    /\ job[r].pc = "enforce"
    /\ LET s == job[r].shape
           n == job[r].affected
       IN  Job(r, IF s.kind # "call" /\ Exceeds(s, n) THEN Ended(job[r], "max")
                  ELSE IF backend = "sqlite" /\ s.kind # "call" /\ s.object /\ n # 1
                  THEN Ended(job[r], "singular")
                  ELSE IF s.rollback THEN Ended(job[r], "ok")
                  ELSE [job[r] EXCEPT !.pc = "commit"])
    /\ UNCHANGED <<backend, table, next, last>>

Commit(r) ==
    /\ job[r].pc = "commit"
    /\ \E e \in {"ok", "commit"} :    \* the acknowledgement may be lost
         Publish(r, Overlay(table, job[r].ws),
                 Ended([job[r] EXCEPT !.durable = job[r].hit], e))
    /\ UNCHANGED <<backend, next, last>>

\* A statement, a cursor or the commit fails, or the client leaves: the
\* deferred rollback. What MongoDB already wrote stays.
Fail(r) ==
    /\ job[r].pc \notin {"idle", "done"}
    /\ Job(r, Ended(job[r], IF job[r].pc = "commit" THEN "commit" ELSE "sql"))
    /\ UNCHANGED <<backend, table, next, last>>

-----------------------------------------------------------------------------
(* MongoDB: no transaction, each command visits the documents one by one.  *)

MongoRead(r) ==
    /\ backend = "mongo"
    /\ LET n == Cardinality(Matches(table, job[r].shape)) IN
         \/ /\ job[r].pc = "count"
            /\ Job(r, [job[r] EXCEPT !.pc = "page", !.total = n])
         \/ /\ job[r].pc = "page"
            /\ Job(r, Ended([job[r] EXCEPT !.rows = Matches(table, job[r].shape)],
                            IF job[r].shape.object /\ n # 1 THEN "singular" ELSE "ok"))
    /\ UNCHANGED <<backend, table, next, last>>

\* CountDocuments: the bound is checked before anything is touched.
MongoCheck(r) ==
    /\ job[r].pc = "check"
    /\ Job(r, IF Exceeds(job[r].shape, Cardinality(Matches(table, job[r].shape)))
              THEN Ended(job[r], "max") ELSE [job[r] EXCEPT !.pc = "write"])
    /\ UNCHANGED <<backend, table, next, last>>

\* The command starts. A delete finds what it will represent first.
MongoFind(r) ==
    /\ backend = "mongo" /\ job[r].pc = "write"
    /\ LET s == job[r].shape
           inserts == s.kind \in {"insert", "upsert"}
       IN  /\ Job(r, [job[r] EXCEPT !.pc = s.kind,
                        !.todo = IF inserts THEN NewKeys(s) ELSE Ids,
                        !.rows = IF s.kind = "delete" /\ s.repr
                                 THEN Matches(table, s) ELSE {}])
           /\ Advance(IF inserts THEN NewKeys(s) \cap Ids ELSE {})
    /\ UNCHANGED <<backend, table, last>>

Least(S) == CHOOSE i \in S : \A k \in S : i <= k

\* One document: written, visible at once. The count is of documents changed.
Visit(r, i, v) ==
    LET changed == table[i] # v
        hit == IF changed THEN job[r].hit \cup {i} ELSE job[r].hit
    IN  Publish(r, [table EXCEPT ![i] = v],
                [job[r] EXCEPT !.todo = @ \ {i}, !.hit = hit, !.durable = hit,
                               !.affected = Cardinality(hit)])

\* InsertMany is ordered: it stops at the first document it cannot write. An
\* upsert is run as the same insert.
MongoInsert(r) ==
    /\ job[r].pc \in {"insert", "upsert"} /\ job[r].todo # {}
    /\ LET i == Least(job[r].todo)
       IN  IF i \in Ids /\ table[i] = None THEN Visit(r, i, job[r].shape.set)
           ELSE Job(r, Ended(job[r], "sql")) /\ UNCHANGED table
    /\ UNCHANGED <<backend, next, last>>

MongoUpdate(r) ==
    /\ job[r].pc = "update" /\ job[r].todo # {}
    /\ LET i == Least(job[r].todo)
       IN  Visit(r, i, IF i \in Matches(table, job[r].shape)
                       THEN job[r].shape.set ELSE table[i])
    /\ UNCHANGED <<backend, next, last>>

MongoDelete(r) ==
    /\ job[r].pc = "delete" /\ job[r].todo # {}
    /\ LET i == Least(job[r].todo)
       IN  Visit(r, i, IF i \in Matches(table, job[r].shape) THEN None ELSE table[i])
    /\ UNCHANGED <<backend, next, last>>

\* readForReturn: the request's own filter again, after the write.
MongoReturn(r) ==
    /\ job[r].pc \in {"insert", "upsert", "update", "delete"} /\ job[r].todo = {}
    /\ Job(r, Ended([job[r] EXCEPT !.rows =
                       IF job[r].shape.repr /\ job[r].pc # "delete"
                       THEN Matches(table, job[r].shape) ELSE @], "ok"))
    /\ UNCHANGED <<backend, table, next, last>>

-----------------------------------------------------------------------------
Reads(r) == SqliteRead(r) \/ MysqlRead(r) \/ SqlserverRead(r) \/ MongoRead(r)
SqlserverWrite(r) ==
    SqlserverInsert(r) \/ SqlserverUpsert(r) \/ SqlserverUpdate(r) \/ SqlserverDelete(r)
MysqlWrite(r) == MysqlInsert(r) \/ MysqlUpdate(r) \/ MysqlDelete(r) \/ Reselect(r)
Calls(r) == SqliteCall(r) \/ MysqlCall(r) \/ SqlserverCall(r)
Mutations(r) ==
    \/ Capture(r) \/ Detect(r) \/ SqliteWrite(r) \/ MariadbWrite(r)
    \/ SqlserverWrite(r) \/ MysqlWrite(r) \/ Calls(r)
Mongo(r) ==
    \/ MongoCheck(r) \/ MongoFind(r) \/ MongoInsert(r) \/ MongoUpdate(r)
    \/ MongoDelete(r) \/ MongoReturn(r)

Step(r) ==
    Arrive(r) \/ Reads(r) \/ Begin(r) \/ Mutations(r) \/ Enforce(r) \/ Commit(r) \/ Mongo(r)

Finished == (\A r \in Reqs : job[r].pc = "done") /\ UNCHANGED vars

Next == (\E r \in Reqs : Step(r) \/ Fail(r)) \/ Finished

Spec == Init /\ [][Next]_vars /\ \A r \in Reqs : WF_vars(Step(r))

-----------------------------------------------------------------------------
(* Properties.                                                             *)

PCs == {"idle", "count", "page", "stream", "begin", "capture", "detect", "mutate",
        "reselect", "enforce", "commit", "check", "write", "done"} \cup Kinds
JobState == [pc : PCs, shape : Shapes, conn : Conns \cup {None},
             ws : [Ids -> Row \cup {Keep}], snap : Tables \cup {None},
             keys : SUBSET Ids, todo : SUBSET Nat, hit : SUBSET Ids,
             rows : SUBSET Ids, affected : Nat, total : Nat \cup {None},
             made : Nat \cup {None}, new : Nat, durable : SUBSET Ids,
             quiet : BOOLEAN, ending : Endings \cup {None}]

\* Types, and: no two requests share a connection, and a request has uncommitted
\* writes only while it holds one (BeginTx pins a connection to its handler).
TypeOK ==
    /\ backend \in Backends
    /\ table \in Tables
    /\ next \in 1..(MaxId + 1)
    /\ last \in [Conns -> 0..MaxId]
    /\ job \in [Reqs -> JobState]
    /\ \A r, q \in Reqs :
         r # q /\ job[r].conn = job[q].conn => job[r].conn = None
    /\ \A r \in Reqs : job[r].conn = None => job[r].ws = Untouched

Over(r, endings) == job[r].pc = "done" /\ job[r].ending \in endings

\* A request that was refused, or that asked for tx=rollback, leaves nothing in
\* a SQL table; on MongoDB, which cannot roll back, that is still so for a
\* refusal by max-affected (the count comes before the first write).
RefusedLeavesNothing ==
    \A r \in Reqs :
      /\ backend # "mongo" /\ (Over(r, Refusals) \/ job[r].shape.rollback)
           => job[r].durable = {}
      /\ Over(r, {"max", "unsupported"}) => job[r].durable = {}

\* However requests interleave, a SQL data plane, and MongoDB's insert, makes at
\* most max-affected rows durable, also when MySQL counts rows twice; and on
\* SQLite a singular write makes exactly one.
WriteContract ==
    \A r \in Reqs :
      LET s == job[r].shape
          d == Cardinality(job[r].durable)
      IN  /\ s.max # None /\ s.kind # "call"
             /\ (backend # "mongo" \/ s.kind \in {"insert", "upsert"})
               => d <= s.max
          /\ backend = "sqlite" /\ s.object /\ s.kind \notin {"read", "call"}
               => d \in {0, 1}

\* The representation shows the rows the mutation touched. With RETURNING or
\* OUTPUT always; with MySQL's selects only if nobody else's write became
\* visible meanwhile and the keys were generated (an explicit key leaves
\* LAST_INSERT_ID() at an older value); on MongoDB only for a quiet delete.
ReturnsOwnRows ==
    \A r \in Reqs :
      LET s == job[r].shape
          exact == CASE backend = "mysql" ->
                          /\ job[r].quiet /\ s.single
                          /\ s.kind \in {"update", "delete", "call"} \/ s.auto > 0
                     [] backend = "mongo" -> job[r].quiet /\ s.kind = "delete"
                     [] OTHER -> TRUE
      IN  Over(r, {"ok"}) /\ s.repr /\ s.kind # "read" /\ exact
            => job[r].rows = job[r].hit

\* A counted read that no write overlapped reports the number of rows it pages
\* through, although count and page are separate statements on the pool.
QuietCountAgrees ==
    \A r \in Reqs :
      Over(r, {"ok"}) /\ job[r].total # None /\ job[r].quiet
        => job[r].total = Cardinality(job[r].rows)

\* SQLite's 200-or-201 check counts, before the upsert, exactly the rows the
\* upsert then creates: its single connection keeps other writers out.
CreatedExactly ==
    \A r \in Reqs : job[r].pc \in {"enforce", "commit"} /\ job[r].made # None
                      => job[r].made = job[r].new

\* Every request is answered, on SQLite's single connection too: no handler
\* waits for a second connection while it holds one.
AllAnswered == \A r \in Reqs : <>(job[r].pc = "done")

\* Connections are not shared, and what a data plane refuses or bounds stays
\* refused and bounded however requests interleave. (The write paths' order of
\* mutation, EnforceMaxAffected, EnforceSingularWrite and commit.)
MutationsGuarded == TypeOK /\ RefusedLeavesNothing /\ WriteContract

\* What a write reports is what it did: its representation and the number of rows
\* it created. (RETURNING, OUTPUT, the re-selects, the upsert's count.)
RepresentationsExact == ReturnsOwnRows /\ CreatedExactly
=============================================================================
