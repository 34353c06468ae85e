------------------------------ MODULE Transact ------------------------------
(***************************************************************************)
(* How dbrest runs requests against PostgreSQL: several HTTP handlers      *)
(* share one connection pool, each takes a connection, opens one           *)
(* transaction on it, dresses it with the request's role and settings,     *)
(* runs its statements, commits or rolls back, and renders the response.   *)
(*                                                                         *)
(*   executeRead      begin, session, controls, [count], query, stream     *)
(*   executeWrite     begin, session, mutate, controls, enforce, commit    *)
(*   executeCall      begin, session, call, controls, commit               *)
(*   executeCallRead  begin, session, [count], query, controls, commit     *)
(*                                                                         *)
(* and, for all of them, respond: the renderer and the status line, which  *)
(* run after the transaction is over.                                      *)
(*                                                                         *)
(* The table is abstracted to which rows live and which request wrote them *)
(* last; PostgreSQL itself (snapshots, row locks, transaction-local        *)
(* settings) and the pgx pool are external and modelled from how the code  *)
(* uses them.                                                              *)
(***************************************************************************)
EXTENDS Naturals, FiniteSets

CONSTANTS
    Reqs,       \* the requests (each is served once)
    Conns,      \* the connections of the pool
    Ids,        \* the primary keys a row can have
    Shapes,     \* the request shapes a client may send
    Hooks,      \* what db-pre-request may do: "quiet", "status", "raise"
    None        \* absent: no connection, no limit, no total, no snapshot

Authenticator == "authenticator"    \* the role a connection logs in with
Unset == "unset"                    \* response.status was not set

Kinds == {"read", "insert", "upsert", "update", "delete", "call"}
Writes == {"insert", "upsert", "update", "delete"}
Tables == [Ids -> [live : BOOLEAN, by : Reqs \cup {None}]]
Roles == {Authenticator} \cup {s.role : s \in Shapes}
ConnState == [role : Roles, status : {Unset, "hook", "fn"},
              ws : SUBSET Ids, snap : Tables \cup {None}]
Controls == {Unset, "hook", "fn", "204"}

(***************************************************************************)
(* A request as the planner hands it to the backend: the mutation or call, *)
(* the resolved role, the Prefer header and the negotiated media type.     *)
(* "object" is the singular media type; "blob" is octet-stream or text     *)
(* over more than one column, which renderScalar refuses.                  *)
(***************************************************************************)
Shape == [kind : Kinds, role : STRING, media : {"array", "object", "blob"},
          count : BOOLEAN, offset : Nat, limit : Nat \cup {None},
          max : Nat \cup {None}, rollback : BOOLEAN, repr : BOOLEAN,
          empty : BOOLEAN, put : BOOLEAN, ignore : BOOLEAN,
          volatile : BOOLEAN, portable : BOOLEAN, void : BOOLEAN]

\* How a request can end: answered, refused by the backend before its commit
\* ("singular" by EnforceSingularWrite), failed in the commit, or refused by
\* the renderer ("plural" is its PGRST116).
Refusals == {"sql", "internal", "max", "singular", "control", "gone"}
RenderErrors == {"plural", "scalar", "range"}
Endings == {"ok", "commit"} \cup Refusals \cup RenderErrors
Response == [kind : Endings,
             status : {Unset, "hook", "fn", "200", "201", "204", "206"}]

ASSUME TransactAssumption ==
    /\ IsFiniteSet(Ids)
    /\ Shapes \subseteq Shape
    /\ Hooks \subseteq {"quiet", "status", "raise"}
    /\ None \notin Reqs \cup Conns \cup Nat \cup Tables \cup Response

VARIABLES
    table,      \* the committed table: which rows live, who wrote them
    pool,       \* per connection: role, response.status, write set, snapshot
    conn,       \* per request: the connection its transaction holds
    pc,         \* per request: where its handler is
    shape,      \* per request: what was asked
    total,      \* per request: the count the Content-Range reports
    full,       \* per request: the rows its statement had before the window
    rows,       \* per request: the rows of the result
    affected,   \* per request: the rows its mutation touched
    inserted,   \* per request: the rows its upsert newly created
    hooked,     \* per request: its hook set response.status
    ctrl,       \* per request: the response controls read back
    ran,        \* per request: the roles its statements ran under
    resp        \* per request: the response sent

outcome == <<total, full, rows, affected, inserted>>
vars == <<table, pool, conn, pc, shape, outcome, hooked, ctrl, ran, resp>>

Fresh == [role |-> Authenticator, status |-> Unset, ws |-> {}, snap |-> None]

Open == {"session", "controls", "count", "query", "stream", "noop",
         "mutate", "call", "enforce", "commit"}
PCs == Open \cup {"idle", "begin", "respond", "done"}

Init ==
    /\ table \in [Ids -> [live : BOOLEAN, by : {None}]]
    /\ pool = [c \in Conns |-> Fresh]
    /\ conn = [r \in Reqs |-> None]
    /\ pc = [r \in Reqs |-> "idle"]
    /\ shape \in [Reqs -> Shapes]
    /\ total = [r \in Reqs |-> None]
    /\ full = [r \in Reqs |-> 0]
    /\ rows = [r \in Reqs |-> 0]
    /\ affected = [r \in Reqs |-> 0]
    /\ inserted = [r \in Reqs |-> 0]
    /\ hooked = [r \in Reqs |-> FALSE]
    /\ ctrl = [r \in Reqs |-> Unset]
    /\ ran = [r \in Reqs |-> {}]
    /\ resp = [r \in Reqs |-> None]

-----------------------------------------------------------------------------
(* PostgreSQL, as the code relies on it.                                   *)

\* The rows a statement of r sees: the transaction's snapshot when it pinned
\* one, the committed table otherwise.
View(r) == IF pool[conn[r]].snap = None THEN table ELSE pool[conn[r]].snap

Live(t) == {i \in Ids : t[i].live}

\* Row locks: a row another open transaction wrote waits for that transaction.
Unlocked(r, hit) ==
    \A q \in Reqs \ {r} : conn[q] # None => pool[conn[q]].ws \cap hit = {}

\* The table once r's writes are durable.
Applied(r) ==
    [i \in Ids |-> IF i \in pool[conn[r]].ws
                   THEN [live |-> shape[r].kind # "delete", by |-> r]
                   ELSE table[i]]

\* Ending a transaction reverts everything set with SET LOCAL or
\* set_config(.., true) and gives the connection back to the pool.
EndedKeepsRole(c) == [pool EXCEPT ![c].ws = {}, ![c].snap = None]
Ended(c) == [pool EXCEPT ![c] = Fresh]

\* LIMIT/OFFSET in SQL, and pageWriteRows on a buffered representation.
Window(n, s) ==
    LET m == IF s.offset >= n THEN 0 ELSE n - s.offset
    IN  IF s.limit = None \/ s.limit >= m THEN m ELSE s.limit

-----------------------------------------------------------------------------
(* Helpers of the handlers.                                                *)

Goto(r, l) == pc' = [pc EXCEPT ![r] = l]
Mark(r) == ran' = [ran EXCEPT ![r] = @ \cup {pool[conn[r]].role}]
Release(r) == conn' = [conn EXCEPT ![r] = None]
Answer(r, kind, status) ==
    /\ Goto(r, "done")
    /\ resp' = [resp EXCEPT ![r] = [kind |-> kind, status |-> status]]

\* An error return of Execute: the deferred rollback undoes the transaction
\* and the handler writes the error.
Refuse(r, kind) ==
    /\ pool' = Ended(conn[r])
    /\ Release(r)
    /\ Answer(r, kind, Unset)
    /\ UNCHANGED <<table, shape, outcome, hooked, ctrl, ran>>

\* A counted table read is pinned to one snapshot; everything else runs at
\* the default READ COMMITTED.
IsolationDefault(s) == "read committed"
Isolation(s) ==
    IF s.kind = "read" /\ s.count THEN "repeatable read" ELSE "read committed"

\* The role a request's statements run under: SET LOCAL ROLE is queued only
\* when a role was resolved.
RoleOf(s) == IF s.role = "" THEN Authenticator ELSE s.role

\* An empty array body, or an empty PATCH object.
IsNoOpMutation(s) == s.kind \in {"insert", "update"} /\ s.empty

\* Where each of the four execution paths goes after the session is set.
FirstStep(s) ==
    CASE s.kind = "read" -> "controls"
      [] s.kind = "call" /\ s.volatile -> "call"
      [] s.kind = "call" /\ ~s.volatile -> IF s.count THEN "count" ELSE "query"
      [] s.kind \in Writes -> IF IsNoOpMutation(s) THEN "noop" ELSE "mutate"

MaxExceededByPage(r) == shape[r].max # None /\ rows[r] > shape[r].max
MaxExceeded(r) == shape[r].max # None /\ affected[r] > shape[r].max

\* A singular request that touched zero or many rows.
NotSingular(r) == shape[r].media = "object" /\ affected[r] # 1

-----------------------------------------------------------------------------
(* Taking a connection and dressing the transaction.                       *)

Arrive(r) ==
    /\ pc[r] = "idle"
    /\ Goto(r, "begin")
    /\ UNCHANGED <<table, pool, conn, shape, outcome, hooked, ctrl, ran, resp>>

\* pool.BeginTx takes an idle connection, and waits when there is none.
Begin(r) ==
    /\ pc[r] = "begin"
    /\ \E c \in Conns :
          /\ \A q \in Reqs : conn[q] # c
          /\ conn' = [conn EXCEPT ![r] = c]
    /\ Goto(r, "session")
    /\ UNCHANGED <<table, pool, shape, outcome, hooked, ctrl, ran, resp>>

\* The pool times out or cannot dial: no transaction was opened.
BeginFails(r) ==
    /\ pc[r] = "begin"
    /\ Answer(r, "sql", Unset)
    /\ UNCHANGED <<table, pool, conn, shape, outcome, hooked, ctrl, ran>>

\* applySession: one batch that switches the role, sets the request settings
\* and runs the pre-request hook, which may steer the response or raise.
ApplySession(r) ==
    /\ pc[r] = "session"
    /\ \E h \in Hooks :
         IF h = "raise" THEN Refuse(r, "sql")
         ELSE LET c == conn[r]  s == shape[r]
              IN  /\ pool' = [pool EXCEPT ![c] =
                       [role |-> IF s.role = "" THEN pool[c].role ELSE s.role,
                        status |-> IF h = "status" THEN "hook" ELSE pool[c].status,
                        ws |-> {},
                        snap |-> IF Isolation(s) = "repeatable read"
                                 THEN table ELSE None]]
                  /\ hooked' = [hooked EXCEPT ![r] = (h = "status")]
                  /\ ran' = [ran EXCEPT ![r] = @ \cup {pool'[c].role}]
                  /\ Goto(r, FirstStep(s))
                  /\ UNCHANGED <<table, conn, shape, outcome, ctrl, resp>>

-----------------------------------------------------------------------------
(* The statements.                                                         *)

\* readResponseControls, then, for a call, LiftResponseControls (a portable
\* function's reserved columns, a junk one refused before the commit) and the
\* 204 of a void result.
ReadControls(r) ==
    /\ pc[r] = "controls"
    /\ \E lift \in IF shape[r].kind = "call" /\ shape[r].portable
                   THEN {"none", "status", "junk"} ELSE {"none"} :
         IF lift = "junk" THEN Refuse(r, "control")
         ELSE LET guc == pool[conn[r]].status
                  got == IF lift = "status" THEN "fn" ELSE guc
              IN  /\ ctrl' = [ctrl EXCEPT ![r] =
                         IF shape[r].kind = "call" /\ shape[r].void /\ got = Unset
                         THEN "204" ELSE got]
                  /\ Goto(r, CASE shape[r].kind = "read" ->
                                    IF shape[r].count THEN "count" ELSE "query"
                               [] shape[r].kind = "call" -> "commit"
                               [] shape[r].kind \in Writes -> "enforce")
                  /\ Mark(r)
                  /\ UNCHANGED <<table, pool, conn, shape, outcome, hooked, resp>>

\* The count statement of a counted read or of a counted read-only call.
CountRows(r) ==
    /\ pc[r] = "count"
    /\ total' = [total EXCEPT ![r] = Cardinality(Live(View(r)))]
    /\ Mark(r)
    /\ Goto(r, "query")
    /\ UNCHANGED <<table, pool, conn, shape, full, rows, affected, inserted,
                   hooked, ctrl, resp>>

\* The windowed SELECT. A read hands its open cursor to the renderer; a
\* read-only call is drained here, and a native function may set the GUC.
Query(r) ==
    /\ pc[r] = "query"
    /\ full' = [full EXCEPT ![r] = Cardinality(Live(View(r)))]
    /\ rows' = [rows EXCEPT ![r] = Window(Cardinality(Live(View(r))), shape[r])]
    /\ \E st \in IF shape[r].kind = "call" /\ ~shape[r].portable
                 THEN {pool[conn[r]].status, "fn"} ELSE {pool[conn[r]].status} :
         pool' = [pool EXCEPT ![conn[r]].status = st]
    /\ Mark(r)
    /\ Goto(r, IF shape[r].kind = "read" THEN "stream" ELSE "controls")
    /\ UNCHANGED <<table, conn, shape, total, affected, inserted, hooked, ctrl, resp>>

\* The renderer drains the cursor; its deferred Close commits the read-only
\* transaction and gives the connection back.
StreamLeaks(r) ==
    /\ pc[r] = "stream"
    /\ Goto(r, "respond")
    /\ UNCHANGED <<table, pool, conn, shape, outcome, hooked, ctrl, ran, resp>>
Stream(r) ==
    /\ pc[r] = "stream"
    /\ pool' = Ended(conn[r])
    /\ Release(r)
    /\ Mark(r)
    /\ Goto(r, "respond")
    /\ UNCHANGED <<table, shape, outcome, hooked, ctrl, resp>>

\* An error while the rows arrive: the renderer reports it as internal, the
\* deferred Close rolls back.
StreamFails(r) ==
    /\ pc[r] = "stream"
    /\ Refuse(r, "internal")

\* IsNoOpMutation: nothing is compiled or run, the controls are not read, and
\* the deferred rollback ends the transaction.
NoOp(r) ==
    /\ pc[r] = "noop"
    /\ pool' = Ended(conn[r])
    /\ Release(r)
    /\ Goto(r, "respond")
    /\ UNCHANGED <<table, shape, outcome, hooked, ctrl, ran, resp>>

\* The mutation. An insert of a key that lives is a unique violation; an
\* upsert overwrites it, or skips it under ignore-duplicates.
Mutate(r) ==
    /\ pc[r] = "mutate"
    /\ \E hit \in SUBSET Ids :
         LET s == shape[r]
             live == Live(View(r))
             ws == IF s.kind = "upsert" /\ s.ignore THEN hit \ live ELSE hit
         IN  /\ Unlocked(r, hit)
             /\ s.kind \in {"insert", "upsert"} => hit # {}
             /\ s.kind \in {"update", "delete"} => hit \subseteq live
             /\ IF s.kind = "insert" /\ hit \cap live # {}
                THEN Refuse(r, "sql")
                ELSE /\ pool' = [pool EXCEPT ![conn[r]].ws = ws]
                     /\ affected' = [affected EXCEPT ![r] = Cardinality(ws)]
                     /\ full' = [full EXCEPT ![r] = Cardinality(ws)]
                     /\ rows' = [rows EXCEPT ![r] = Window(Cardinality(ws), s)]
                     /\ inserted' = [inserted EXCEPT ![r] = Cardinality(ws \ live)]
                     /\ Mark(r)
                     /\ Goto(r, "controls")
                     /\ UNCHANGED <<table, conn, shape, total, hooked, ctrl, resp>>

\* A volatile function returning a set: it may write any rows, return any
\* number and set the GUC. A native counted call reads its total off the first returned row, so
\* an empty page is a total of zero; a portable one carries no count.
Call(r) ==
    /\ pc[r] = "call"
    /\ \E hit \in SUBSET Ids, n \in 0 .. Cardinality(Ids) :
         LET s == shape[r]
             page == Window(n, s)
         IN  /\ Unlocked(r, hit)
             /\ \E st \in IF s.portable THEN {pool[conn[r]].status}
                          ELSE {pool[conn[r]].status, "fn"} :
                  pool' = [pool EXCEPT ![conn[r]].ws = hit, ![conn[r]].status = st]
             /\ full' = [full EXCEPT ![r] = n]
             /\ rows' = [rows EXCEPT ![r] = page]
             /\ total' = [total EXCEPT ![r] =
                    IF ~s.count \/ s.portable THEN None
                    ELSE IF page = 0 THEN 0 ELSE n]
    /\ Mark(r)
    /\ Goto(r, "controls")
    /\ UNCHANGED <<table, conn, shape, affected, inserted, hooked, ctrl, resp>>

\* EnforceMaxAffected and EnforceSingularWrite, before the commit.
EnforceAfterCommit(r) ==
    /\ pc[r] = "enforce"
    /\ IF MaxExceeded(r) \/ NotSingular(r)
       THEN /\ table' = Applied(r)
            /\ pool' = Ended(conn[r])
            /\ Release(r)
            /\ Answer(r, IF MaxExceeded(r) THEN "max" ELSE "singular", Unset)
            /\ UNCHANGED <<shape, outcome, hooked, ctrl, ran>>
       ELSE /\ Goto(r, "commit")
            /\ UNCHANGED <<table, pool, conn, shape, outcome, hooked, ctrl, ran, resp>>
Enforce(r) ==
    /\ pc[r] = "enforce"
    /\ IF MaxExceeded(r) THEN Refuse(r, "max")
       ELSE IF NotSingular(r) THEN Refuse(r, "singular")
       ELSE /\ Goto(r, "commit")
            /\ UNCHANGED <<table, pool, conn, shape, outcome, hooked, ctrl, ran, resp>>

\* Prefer: tx=rollback (or db-tx-end) keeps the result and drops the writes: a
\* rolled back request never sends COMMIT, save a read-only call, which has
\* nothing to drop.
SendsCommit(s) == s.rollback => s.kind = "call" /\ ~s.volatile

Commit(r) ==
    /\ pc[r] = "commit"
    /\ table' = IF shape[r].rollback THEN table ELSE Applied(r)
    /\ pool' = Ended(conn[r])
    /\ Release(r)
    /\ Goto(r, "respond")
    /\ UNCHANGED <<shape, outcome, hooked, ctrl, ran, resp>>

\* COMMIT is refused (a deferred constraint), or its acknowledgement is lost
\* with the connection after the server made it durable.
CommitFails(r) ==
    /\ pc[r] = "commit" /\ SendsCommit(shape[r])
    /\ Answer(r, "commit", Unset)
    /\ table' \in IF shape[r].rollback THEN {table} ELSE {table, Applied(r)}
    /\ pool' = Ended(conn[r])
    /\ Release(r)
    /\ UNCHANGED <<shape, outcome, hooked, ctrl, ran>>

\* Any statement may fail: a privilege, a constraint, a timeout, a lost row.
StatementFails(r) ==
    /\ pc[r] \in {"session", "controls", "count", "query", "mutate", "call"}
    /\ Refuse(r, "sql")

\* The client goes away: the cancelled context kills the connection, which the
\* pool replaces by a fresh one, and the server rolls the transaction back.
Disconnect(r) ==
    /\ pc[r] \in Open
    /\ Refuse(r, "gone")

-----------------------------------------------------------------------------
(* The response.                                                           *)

\* writeStatus.
WriteStatus(r) ==
    LET s == shape[r]
    IN  CASE s.kind = "insert" -> "201"
          [] s.kind = "upsert" /\ ~s.put -> IF inserted[r] = 0 THEN "200" ELSE "201"
          [] s.kind = "upsert" /\ s.put ->
                IF ~s.repr THEN "204" ELSE IF inserted[r] > 0 THEN "201" ELSE "200"
          [] s.kind \in {"update", "delete"} -> IF s.repr THEN "200" ELSE "204"

\* The count the renderer passes on: renderVoid drops it.
ShownTotal(r) == IF shape[r].kind = "call" /\ shape[r].void THEN None ELSE total[r]

\* The status of writePaged and of writeWrite, unless the controls set one.
DefaultStatus(r) ==
    CASE shape[r].kind \in Writes -> WriteStatus(r)
      [] shape[r].kind \notin Writes ->
            IF ShownTotal(r) # None /\ rows[r] < ShownTotal(r) THEN "206" ELSE "200"

\* What the renderer and writePaged refuse: a body that is not one object, a
\* scalar media type over several columns, an offset past the known total. A
\* write renders only its representation; renderVoid checks nothing.
RenderError(r) ==
    LET s == shape[r]
        shown == (s.kind \in Writes => s.repr) /\ ~(s.kind = "call" /\ s.void)
    IN  IF shown /\ s.media = "object" /\ rows[r] # 1 THEN "plural"
        ELSE IF shown /\ s.media = "blob" THEN "scalar"
        ELSE IF s.kind \notin Writes /\ ShownTotal(r) # None
                /\ s.offset > 0 /\ s.offset > ShownTotal(r) THEN "range"
        ELSE "ok"

Respond(r) ==
    /\ pc[r] = "respond"
    /\ LET e == RenderError(r)
       IN  Answer(r, e, IF e # "ok" THEN Unset
                        ELSE IF ctrl[r] # Unset THEN ctrl[r] ELSE DefaultStatus(r))
    /\ UNCHANGED <<table, pool, conn, shape, outcome, hooked, ctrl, ran>>

-----------------------------------------------------------------------------
Step(r) ==
    \/ Begin(r) \/ ApplySession(r) \/ ReadControls(r) \/ CountRows(r)
    \/ Query(r) \/ Stream(r) \/ NoOp(r) \/ Mutate(r) \/ Call(r)
    \/ Enforce(r) \/ Commit(r) \/ Respond(r)

Fault(r) ==
    \/ BeginFails(r) \/ StreamFails(r) \/ CommitFails(r)
    \/ StatementFails(r) \/ Disconnect(r)

Next == \E r \in Reqs : Arrive(r) \/ Step(r) \/ Fault(r)

Spec == Init /\ [][Next]_vars

\* Go runs every started handler, and pgxpool hands connections out in order
\* of arrival; nothing is assumed of the faults or of the clients.
FairSpec == Spec /\ \A r \in Reqs : WF_vars(Step(r))

-----------------------------------------------------------------------------
(* Properties.                                                             *)

Done(r, kinds) == resp[r] # None /\ resp[r].kind \in kinds
Durable(r) == {i \in Ids : table[i].by = r}

\* Types, and the pool's bookkeeping: a request holds a connection exactly
\* while its transaction is open, and no two requests hold the same one.
TypeOK ==
    /\ table \in Tables
    /\ pool \in [Conns -> ConnState]
    /\ conn \in [Reqs -> Conns \cup {None}]
    /\ pc \in [Reqs -> PCs]
    /\ shape \in [Reqs -> Shapes]
    /\ total \in [Reqs -> Nat \cup {None}]
    /\ full \in [Reqs -> Nat] /\ rows \in [Reqs -> Nat]
    /\ affected \in [Reqs -> Nat] /\ inserted \in [Reqs -> Nat]
    /\ hooked \in [Reqs -> BOOLEAN]
    /\ ctrl \in [Reqs -> Controls]
    /\ ran \in [Reqs -> SUBSET Roles]
    /\ resp \in [Reqs -> Response \cup {None}]
    /\ \A r \in Reqs : (conn[r] # None) = (pc[r] \in Open)
    /\ \A r, q \in Reqs : conn[r] # None /\ conn[r] = conn[q] => r = q

\* A request that the backend refused before its commit, or that asked for
\* tx=rollback, left nothing in the table: every such return of executeWrite
\* and executeCall happens while the deferred rollback still holds the writes.
RefusedLeavesNothing ==
    \A r \in Reqs :
        (Done(r, Refusals) \/ (pc[r] = "done" /\ shape[r].rollback)) =>
            Durable(r) = {}

\* The write contract: a durable mutation touched no more rows than
\* max-affected allows, and a durable singular one exactly one, whatever
\* window the representation was cut to.
WriteContract ==
    \A r \in Reqs :
        shape[r].kind \in Writes /\ Durable(r) # {} =>
            /\ shape[r].max # None => affected[r] <= shape[r].max
            /\ shape[r].media = "object" => affected[r] = 1
            /\ Cardinality(Durable(r)) <= affected[r]

\* Role and settings never cross requests on a pooled connection: every
\* statement of a request runs under the request's own role, and a steered
\* status was steered by its own hook (or function).
OwnSession ==
    \A r \in Reqs :
        /\ ran[r] \subseteq {RoleOf(shape[r])}
        /\ ctrl[r] = "hook" => hooked[r]
        /\ ctrl[r] = "fn" => shape[r].kind = "call"

\* A counted table read reports the number of rows its own page was cut from,
\* even when writers commit between its two statements: the Content-Range fits
\* the body, and a 416 is answered only to an offset past those rows.
Reported == {"ok", "range"}
PageOfTotal ==
    \A r \in Reqs :
        shape[r].kind = "read" /\ total[r] # None /\ Done(r, Reported) =>
            total[r] = full[r] /\ rows[r] = Window(total[r], shape[r])

\* Every request is answered and its connection comes back, although the pool
\* may be smaller than the number of requests.
AllAnswered == \A r \in Reqs : pc[r] = "begin" ~> pc[r] = "done"

-----------------------------------------------------------------------------
(* What a comment of the code says of it, refuted by a run of its own.     *)

\* "rather than the renderer noticing the wrong count after the write is
\* already durable" (EnforceSingularWrite): an error response means that
\* nothing of the request is durable.
ErrorMeansUndone ==
    \A r \in Reqs :
        Done(r, RenderErrors) => Durable(r) = {}
=============================================================================
