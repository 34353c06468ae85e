# dbrest in TLA+

dbrest serves a PostgREST-compatible HTTP API over PostgreSQL and, by
emulation, over SQLite, MySQL, SQL Server and MongoDB. This directory holds
TLA+ models of the parts of it that are hard to test, the TLC configurations
that check them on small instances, and TLAPS proofs of the properties that
matter most for every instance. Paths below are relative to `src/`.

## 1. Inventory of the system

### The life of a request

`cmd/dbrest/main.go` loads the configuration, opens the backend, introspects
the schema once (`reloadSchema`) and starts the HTTP server with two background
goroutines, the signal watcher and the db-channel listener. A request goes
through

1. `app.ServeHTTP` (`cmd/dbrest/reload.go`): one atomic load of the front end
   (`Reload`);
2. `auth.Verifier.Authenticate`: bearer token to role and claims, through a
   cache of verified tokens (`Auth`, `SieveCache`, `JwtCache`);
3. `httpapi.Server`: CORS, schema, media type, body, query string, `Prefer` and
   Range (`Front`, `Prefer`, `Negotiate`); the query string becomes the IR in
   `ir/` (`Scan`, `Query`);
4. `plan`: the IR against the schema model in `schema/` and the function registry
   in `rpc/` (`Relate`, `Rpc`, `Planner`), and, for the emulated backends,
   `authz` (`Authz`);
5. the backend: the SQL of `backend/sqlgen` (`SqlGen`) in one transaction on one
   pooled connection, with the request's role and settings on PostgreSQL
   (`Transact`), with an emulated RETURNING elsewhere (`Emulated`);
6. the renderer (`httpapi/render.go`, `server.go`): body, status and
   Content-Range, after the transaction ended (or, for table reads, while the
   cursor is still open) (`Front`, `Transact`).

### Components

| Component | State it keeps | Operations | Hard behaviour |
|---|---|---|---|
| Live reload `cmd/dbrest/reload*.go` | `app.cfg`, `app.model`, the front end in an atomic value, `app.mu` | `reloadSchema`, `reloadConfig`, `rebuildLocked`, `Model`, `logLevel` | two goroutines reload; some state changes before the step that may fail; requests run meanwhile |
| Listener `backend/postgres/listener.go` | its connection, backoff, first-connect flag | connect, LISTEN, wait, back off, `OnReconnect` | lost connections and lost notifications |
| Introspection `backend/postgres/introspect.go` | function catalog and search path inside the shared backend | `Introspect`, `SetSchemas` | several queries, no transaction, fields assigned half way |
| Token verification `auth/auth.go` | nothing of its own besides the cache | `Authenticate` | cached answers and a moving clock |
| Token cache `auth/cache.go` | index, doubly linked list, hand, visited bits | `get`, `put`, `evict` | pointer surgery at the ends; a loop under a lock |
| PostgreSQL execution `backend/postgres/execute.go`, `session.go`, `result.go` | pooled connections and their transactions | four execution paths | interleaving with writers, deferred rollback, failures at every statement, pool exhaustion |
| Other backends `backend/{sqlite,mysql,sqlserver,mongo}` | pools, transactions, a session's last insert id | read, write, upsert, call | count and page as two statements, representations rebuilt by selects, one connection for all, no transactions at all |
| Backend contract `backend/spi.go`, `writerep.go`, `responsecontrols.go` | none | max-affected, singular writes, no-op mutations, windows, lifted controls | order against the commit, zero and past-the-end windows |
| HTTP front end `httpapi/server.go`, `root.go` | none (immutable per build) | `ServeHTTP`, `handleRead`, `handleWrite`, `handleRPC`, `handleRoot` | the order of a dozen gates, each with an early return; headers set before a later failure |
| Rendering `httpapi/render.go`, `negotiate.go` | none | media type, status, ranges, singular bodies | runs after the commit; windows past the end |
| Prefer `ir/prefer.go` | none | `ParsePrefer`, `AppliedHeader`, the `db-tx-end` policy | repeated and unknown tokens, what is echoed |
| Parsing `ir/parse.go` | none | query strings, bodies and call arguments to the IR | quotes, escapes and nesting; parameters routed to embeds |
| Planning `plan/plan.go` | none (the model is immutable) | `Read`, `Write`, `Call` | ambiguity, names that mean something elsewhere |
| Relationships `schema/relationship.go`, `views.go` | none | edges from keys, junctions, views | cardinality, the two directions, duplicates through views |
| RPC registry `rpc/registry.go` | parsed functions | overload resolution, merging | ties, variadic and optional parameters |
| Authorization `authz/` | parsed grants and policies | `Authorize`, `ParseRegistry` | combination of rules; what a write leaves behind |
| SQL generation `backend/sqlgen/` | builder: text, arguments, aliases | reads, embeds, counts, writes, upserts, calls in four dialects | argument order across lateral text, parentheses, nested embeds |
| Admin API, OpenAPI, error table, conformance harness | counters | probes, documents | none of interest here |

How they meet: reload and requests share the atomic front end (immutable) and
the backend's own fields (mutable, unlocked); requests share one token cache per
verifier and one connection pool; the listener and the signal goroutine share
`app.mu`. Between the URL and the database a request is a value handed from one
pure stage to the next; `MCRequest` puts those stages together.

### What correctness means, per component

- **Reload**: what is served is the newest state that could be built; a refused
  configuration is never served; the schema never goes back; a request never
  finds functions older than its schema; a signal or a notification takes effect;
  nobody waits for ever.
- **Cache**: the list and its index agree; a sweep ends; a used entry outlives an
  unused one; and, for the verifier, the cache never changes an answer.
- **Execution**, on every engine: no role or setting crosses requests; a refused
  or rolled back request leaves nothing; max-affected and singular hold of what is
  durable; a count fits its page; a representation is what the write did; every
  request is answered.
- **Front end**: nothing reaches the backend that a gate should have stopped; the
  status and headers of an answer describe what was done; whatever fails is
  reported as itself; the media type is the best one the client admits.
- **Parsing**: what a client means and the grammar can write is read back as
  meant; a parameter applies at the embed it names and nowhere else.
- **Relationships, planning, registry**: an edge is to-one only where the keys
  allow one row; a request is planned exactly when its names mean something; the
  overload called does not depend on declaration order.
- **Authorization**: what a role reads, changes and leaves behind passes every
  policy of it, and a policy is read as it is written.
- **SQL**: the statement, executed, returns and changes what the plan means, and
  its arguments stand in the order of its placeholders.

`PROJECT.json` lists every hazard with its line and the properties that cover
it.

## 2. The modules

| Module | Models | Used by |
|---|---|---|
| `Reload` | reload, signals, listener, introspection order, a request's view | runs `Reload*`, `ReloadProofs` |
| `SieveOps` | the token cache's operations in closed form (no state) | `SieveCache`, `Auth`, `SieveOpsProofs` |
| `SieveCache` | the cache as an abstract state machine | `MCCache`, refinement target of `JwtCache` |
| `JwtCache` | `auth/cache.go` as written: pointers, hand and the sweep loop step by step | `MCCache` |
| `MCCache` | the two side by side | run `Cache`, `MCCacheProofs` |
| `Auth`, `MCAuth` | `Authenticate` with the cache, the clock and verifier replacement | run `Auth`, `AuthProofs` |
| `Transact`, `MCTransact` | PostgreSQL's four execution paths over a pool, and the response | runs `Transact*`, `TransactProofs` |
| `Emulated`, `MCEmulated` | SQLite, MySQL 8, MariaDB, SQL Server and MongoDB serving concurrent requests | run `Emulated`, `EmulatedProofs` |
| `Prefer`, `Negotiate` | the Prefer header; the Accept header (no state) | `Front` |
| `Front`, `MCFront` | one request's way through the HTTP handlers | run `Front`, `FrontProofs` |
| `Scan`, `Query` | the query-string parser over token sequences (no state) | `MCQuery` |
| `MCQuery` | inputs for the parser, printed from trees | `MCRequest` |
| `Condition` | conditions of the IR and what a comparison means | `Planner`, `Authz`, `SqlGen`, `Meaning` |
| `Meaning` | the three-valued meaning of a condition tree (recursive) | `MCPlan`, `MCDecide`, `MCSql` |
| `Relate`, `Rpc`, `Authz` | relationship discovery, function registry, authorization (no state) | `Decide`, `Planner`, `MCPlan` |
| `Planner` | the planner (no state) | `MCPlan` |
| `Decide` | the questions put to `Relate`, `Rpc` and `Authz`, one task each, over catalogs, registries, policies and rows that are constants | `MCDecide`, `DecideProofs` |
| `Samples` | small relations, functions and policy terms | `MCDecide`, `MCPlan` |
| `MCDecide` | values for the constants of `Decide` | `MCRequest` |
| `MCPlan` | small catalogs and requests for the planner, and policies as texts | `MCRequest` |
| `SqlGen` | the SQL generator (no state) | `MCSql` |
| `MCSql` | a database, an evaluator of the generated SQL, and what queries mean | `MCRequest`, run `SqlNulls` |
| `MCRequest` | parsing, planning, decisions and SQL generation as one machine of tasks | run `Request` |
| `*Proofs` | theorems, one module per component | TLAPS |

A definition introduced by "Faulty variant" (or an operator right above the one
it resembles, such as `IsolationDefault`) is a deliberately broken version of its
neighbour. No specification uses it; it exists so that a property can be shown to
notice the corresponding mistake.

### Reload

State: `db` and `disk` stand for the database catalog and the configuration
sources, each a version; `disk.kind` says whether `config.Load` accepts the
sources and whether the attach functions can build from them. `mu`, `cfg`,
`model`, `handler` are the fields of `app`; `settings` the fields of the backend
that a reload assigns (`SetSchemas`, `funcVol`, `funcRet`, `funcReg`); `pc`,
`got`, `outcome` the two goroutines; `sigbuf` the channel of capacity one;
`listening`, `queue`, `firstConnect`, `backoff` the listener.

`SchemaLock`, `ReadRelations`, `ReadFunctions`, `ReadColumns` are the steps of
`reloadSchema`: `Introspect` sends its queries one by one on the pool, with no
transaction, so DDL may commit between any two. `IntrospectFail` may strike at
each. `ConfigLoad` reads the sources *before* the lock, `ConfigApply` assigns
`cfg` and the backend's settings, `ConfigRebuild` is `rebuildLocked`, which may
refuse. `StartRequest`, `ExecuteRequest`, `LogRequest` are a request's three
contacts with the state a reload changes.

Abstracted: the three fields that follow the function query (`introspect.go:70`,
assigned one after the other, none of them read in combination) are one step; a
catalog to the version of it that was read; a configuration to its
reloadable subset; boot to its result (`run` exits if the first load fails).
Cancellation at shutdown is left out.

### SieveOps, SieveCache, JwtCache

`SieveOps` gives `get` and `put` as functions on a record (the order from newest
to oldest, the visited set, the hand, the values). Eviction is closed form:
`Moves` is the number of entries the hand passes, `Passed` the ones whose bits it
clears. `JwtCache` is the code: `prev`, `next`, `head`, `tail`, the hand, and
`evict`'s loop one turn per step. `Abstract == INSTANCE SieveCache WITH cache <-
...` maps the pointers to the record; during a sweep the map uses the visited
bits from before it (`op.before`, a history field), so a whole `put` is one
abstract step. `Implements` is the abstract specification as a property.
`MCCache` lets the closed form take its step when the list's operation ends, so
one run checks both machines and their agreement.

### Auth

A token is a record of what decoding it yields. `Verify`, `CheckAlg`,
`Candidates`, `ValidateClaims`, `CheckAud`, `Resolve` and `Anon` follow the
functions of `auth.go` in their order of checks; base64, JSON and the signature
arithmetic are golang-jwt's. An `Authenticate` call is split where other
goroutines can come between: the cache lookup, the validation, the put. `Reload`
appends a verifier with an empty cache; requests in flight keep theirs.

### Transact

One action per step of `executeRead`, `executeWrite`, `executeCall` and
`executeCallRead`, and one for the renderer. A request's `shape` is what the
planner hands over: kind, role, media type, count, window, `max-affected`,
`tx=rollback`, representation and so on. External, modelled from use: PostgreSQL's
snapshots (`View`), row locks (`Unlocked`), commit (`Applied`) and
transaction-local settings (`Ended`), and pgxpool. Faults: a pool timeout, an
error at any statement, an error while rows stream, a commit that fails (refused,
or durable but unacknowledged), a client that leaves.

Abstracted: a row is whether it lives and who wrote it last; a window is a number
of rows. Left out: planned and estimated counts, `EXPLAIN`, isolation levels
pinned by role settings, single-composite call results, and numeric statuses.

### Emulated

One of five engines, chosen in `Init`, serves several requests at once. `job[r]`
is a handler: its place, its connection, the write set and snapshot of its
transaction, what its statements returned; `table` holds the committed rows, `next`
the counter of generated keys and `last` each session's `LAST_INSERT_ID`. A row is
the value of the one column that requests filter on and set, which is enough for
an update to change what it filtered on. The actions are the statements of each
backend's `execute.go`, in order:

- SQLite: one connection in the pool, native RETURNING, and a count of the
  conflicting keys before an upsert, from which 200 or 201 follows;
- MySQL 8: the keys selected before an update or delete, the mutation, and a
  select of the representation by those keys, or by `LAST_INSERT_ID` and the row
  count after an insert; MariaDB: native RETURNING;
- SQL Server: OUTPUT, and an upsert in one MERGE;
- MongoDB: a count before the write, the write and finds after it, every
  one visible to everybody at once, and nothing to roll back.

An insert of no rows and an update of no columns end without a statement
(`IsNoOpMutation`). An upsert of no rows is no such no-op: the SQL engines refuse it
when they compile it, SQL Server's MERGE path returns early, and MongoDB answers it
without a stream of rows (`Vacuous`).

`hit`, `durable` and `quiet` are history: the rows a mutation touched, the ones
that became visible, and whether no other request's write became visible meanwhile.
The engines' isolation and locks are external.

### Front, Prefer, Negotiate

`Front` is one request in the handlers: `pc` is the stage, and every action is one
stage with its early returns, in the order each handler's code has them
(`ReadStages`, `WriteStages`, `CallStages`, `RootStages`). What another component decides (does the query parse, does it plan, which
rows come back, does the engine fail) is a nondeterministic outcome; what this
component decides from it (transaction end, limit, status, headers, error code) is
computed. `result.rows` is what the backend hands over, `result.fails` whether
reading it breaks part way, and `resp.body` the number of rows in the body: the rows
that were read, except where the body is one value (`OneValue`, `BodyRows`): a scalar
media type and a function that promises one value count every row and write the
first. `Prefer` takes the header's tokens one after the other as `ParsePrefer`'s
loop does (a recursive function, `Taken`, from the number of tokens taken to what
is known); `Negotiate` sorts the Accept ranges by quality and takes the first that
can be produced.

### Scan, Query

A text is a sequence of symbols: the punctuation the parser looks at and whole
words. `Scan` is the shared loop of the scanners (quotes, backslash, depth);
`Query` the parsers, each returning `Ok(tree)` or `Fail`. `MCQuery` prints trees
the way the grammar says and has them read back.

### Relate, Rpc, Planner, Authz, Condition, Decide

Pure functions over a catalog. Every check of the planner returns the code of its
error and the first in the code's order is the answer. `Condition` and `Meaning`
give the meaning of a condition on a row, so that what the planner and the gate do
to a condition (pushing policies into it, splitting it between a call's arguments
and its result) can be compared by meaning rather than by shape.

The loops of `projectViews`, `Resolve`, `NewStaticRegistry`, `Merge` and the policy
half of `NewRegistry` are recursive functions over the number of rounds. `Decide`
asks one question per behaviour (`Discover`, `Project`, `Overload`,
`MergeRegistries`, `Gate`): the task is what the code is given, the answer what it
returns, and the properties compare the two. What a client's filter means is the
operator constant `Truth`, of which only AND and the comparisons that policies add
are fixed (`TruthAssumption`); `MCDecide` gives it the meaning of `Meaning`. A
gated query carries its embeds and the select items that are no columns, because
`Authorize` looks at neither; what it does with the filter of an upsert is in
section 5.

### SqlGen

The writers of `backend/sqlgen`, with the builder passed along. A condition's text
keeps what its parentheses decide: a sequence of disjuncts, each a sequence of
atoms joined by AND; a missing pair of parentheses therefore regroups it, as it
would in SQL. `MCSql` executes the text on parents `P(id, a, r)`, children
`C(id, p, v)` and a junction `J(p, c)`, and compares the outcome with what the
query means by a definition that never looks at the text. The reads it asks for have
no limit or offset (windows are `Transact`'s and `Front`'s), the rows of an embed are
compared as a set, and the executor accepts DEFAULT inside VALUES on every dialect,
which SQLite does not (`compile.go:369` writes it for it too). JSON paths, full text,
regular expressions, ranges and casts are columns and comparisons like others.

## 3. The runs

| Run | Shows | Bounds and why they suffice |
|---|---|---|
| `ReloadSafety` | `ServedIsCurrent`, `OnlyBuildableServed`, `LockAndVersions`, `FunctionsNotOlder`, `ServedSchemaMonotone` | two DDLs (one between two queries of an introspection that started after the other), one edit of any kind, two signals and one notification, so that both goroutines reload both things at once; backoff cap 2 reaches its cap in one doubling |
| `ReloadLive` | `NotifiedDdlServed`, `ReconnectRefreshes`, `ListenerComesBack`, `SignalledSchemaServed`, `RequestsFinish` | two signals fill the channel; one drop forces a reconnect with a reload; one DDL can fall at any point |
| `Cache` | `ListOK`, `EvictTerminates`, `Implements` of the list; `CacheInv`, `VisitedSpared`, `OneEvictionAtATime` of the closed form beside it | capacity 3 gives an oldest, a middle and a newest entry for the hand; a fourth key forces evictions; two values tell an overwrite from a hit |
| `Auth` | `AcceptedIsValid`, `CacheTransparent`, `CachesSound` | two regions (`Explored`): two overlapping requests over a cache of one place, two instants and one key rotation, with the tokens these tell apart; and one request at a time with one token per way of being refused, six configurations and three instants, which are before, within and after the skew of the times they carry |
| `TransactSafety` | `PageOfTotal`, `RefusedLeavesNothing`, `WriteContract`, `OwnSession` | any two of 14 shapes at once; two rows distinguish none, one and many; two connections allow both overlap and reuse |
| `TransactLive` | `AllAnswered` | two requests, one connection |
| `Emulated` | `MutationsGuarded`, `RepresentationsExact`, `QuietCountAgrees`, `AllAnswered` | any two of 15 shapes at once on each of five engines, among them an empty update and empty upserts; three keys of which up to two are taken, so that an insert, an upsert of old and new keys and an update that moves rows out of its own filter all happen; two connections (one on SQLite) |
| `Front` | `GatesKept`, `AnswerDescribesResult`, `FailuresReported`, `NegotiatedBest` | five servers that between them take every value of every option; every method on every path, and families of Accept, Prefer and Range headers on the endpoints that reach the backend; totals up to 3 put a window before, across and past the end |
| `Request` | `TreesReadBack`, `ParametersReachTheirPlace`, `EdgesSound`, `PlansMeaningful`, `CallsDecided`, `PoliciesEnforced`, `ReadsAsMeant`, `WritesAsMeant` | every tree of the families in `MCQuery` (nesting 2, operands that look like punctuation), catalogs of four relations with every choice of three foreign keys, three primary and five unique keys, chains and joins of three views in each of the 24 orders of the catalog, registries of up to three overloads, up to two policies over two columns, and statements over four parents with nulls and duplicates, on four dialects |
| `ReloadSignalLost`, `TransactRender`, `SqlNulls` | a comment of the source that the code does not satisfy | see section 5 |

The symmetry sets permute row identifiers, connections and requests, none of
which the code orders. `CHECK_DEADLOCK FALSE` is used where every request may
have been served (`Transact*`) and where the operator and the database may have
spent their bounds (`ReloadLive`); `Emulated`, `Front` and `Request` end in an
explicit stuttering step (`Finished`, `Done`), so that any other standstill is an error.

What the properties of the newer runs say, in a sentence each:

- `MutationsGuarded`: whatever interleaves, a refused, rolled back or bounded write
  leaves no more than it may. On MongoDB, which has no transaction, this is stated
  as far as the code goes: a refusal by max-affected, found before the first write,
  leaves nothing, and an insert stays within its bound.
- `RepresentationsExact`: what a write returns is what it touched, on the
  engines whose statements guarantee it; on MySQL 8 and MongoDB, where the
  representation is read back, when no other write came between and the key is one
  column. The definition (`ReturnsOwnRows`) spells the conditions out per engine.
- `QuietCountAgrees`: count and page, two statements, agree unless a write falls
  between them.
- `GatesKept`: execution was preceded by every check its handler owes, and the
  transaction ends as `db-tx-end` and Prefer together allow.
- `AnswerDescribesResult`: Preference-Applied lists what was applied, Content-Range
  and 206/416 fit the rows, and `db-max-rows` bounds them.
- `FailuresReported`: no success status over rows that failed to arrive, also where
  the body needed only the first of them, and no body short of its rows other than
  the bodies of one value; no leftover schema header on the errors that clear it,
  401 against 403 by identity.
- `AcceptedIsValid`: signed by a configured key, the one `kid` names, with a method
  that the verifier and the key allow; within its times; an `aud` that names
  audiences names the configured one. Tokens without an audience pass
  (`AudienceFits`), as `checkAud` has it; section 5 sets that against the comment.
- `TreesReadBack`: what the grammar of the query string, or that of the policies,
  can write is read back as it was meant. `ParametersReachTheirPlace`: a parameter
  applies at the embed it names, a write keeps every value, an argument is bound once
  and where the function names it.
- `EdgesSound`: an edge that renders as one object leads to one row, both directions
  have the same joins, a declared edge stands in for the derived one of its name, and
  a view has exactly the keys of what it shows.
- `PlansMeaningful`: a request is accepted exactly when every name in it means
  something where it stands; an accepted PUT writes the row its URL names.
- `CallsDecided`: the overload that runs is the one the arguments fit best, in any
  order of declaration; a declaration hides its own signature only.
- `PoliciesEnforced`: of the relation a request names, an accepted read, update or
  delete selects the rows that its filter and every policy admit (`PolicyHolds`), a
  write leaves rows that pass WITH CHECK (`WritesPassCheck`), and the plain columns
  read or written are granted (`ColumnsGranted`). It says nothing of embedded
  relations, of select items that are no columns, or of the rows that an upsert
  merges into: the gate does not reach them (section 5).
- `ReadsAsMeant`, `WritesAsMeant`: the generated statements, executed, give the
  rows, nesting, order, count and changes that the IR means.

### Fairness

Goroutines are scheduled: weak fairness on what they do next. `sync.Mutex` hands
the lock to a waiter that has waited a millisecond (starvation mode): strong
fairness on `SchemaLock`, `ConfigApply` and `LogRequest`, which take it. A server
that accepts connections again and again is eventually reached: strong fairness
on `Connect`; without it `ListenerComesBack` would only speak about the server.
pgxpool and `database/sql` queue their waiters in order and Go runs every handler:
weak fairness on a request's steps is enough for `AllAnswered` (`Transact` and
`Emulated`), because each request is served once, so that a connection or a row
lock, once free, stays free until a waiter takes it. The list's operations end
under weak fairness of the goroutine that holds the cache's lock. DDL, signals,
edits, failures, faults and arrivals at `Transact` have no fairness: no property
needs them to happen.

## 4. The proofs

All theorems hold for every value of the constants that satisfies the module's
named assumption (`ConstantsAssumption`, `SieveAssumption`, `AuthAssumption`,
`TransactAssumption`, `EmulatedAssumption`, `FrontAssumption`, and those of `Decide`).
These give types and keep `Nil` and `None` apart from real values. Some say more:

- `EmulatedAssumption`: a request for which the database generates keys is an insert
  that names none.
- `FrontAssumption`: the headers of a request are sequences of tokens and of Accept
  ranges, of any length.
- `EdgeAssumption`: a foreign key refers to columns that hold a key of the relation it
  names, and the target's name, on the search path, leads to the target. PostgreSQL,
  SQL Server and SQLite demand a key; MySQL's InnoDB accepts any index that starts
  with the columns, so that there the assumption leaves such foreign keys out (the
  edge from one would have to be to-many).
- `ViewAssumption`: no view selects from itself, directly or through others
  (`depth`). No engine can create such a view.
- `OverloadAssumption`: a function's parameters have different names and are fewer
  than the 1000 that `Resolve` adds for an exact match (PostgreSQL allows 100). With
  more, a longer inexact overload could outscore an exact one.
- `GateAssumption`: a policy's terms are on columns of the table and compare with a
  claim, the role or a literal, as `parseTerm` produces them.
- `TruthAssumption`: AND and the comparisons that policies add mean what they mean
  in SQL. Nothing is assumed of what the client's own conditions mean.

`MCDecide` satisfies all of them, and the run `Request` evaluates them.

- **`ReloadProofs`**. `Reload!IInv` is inductive: types, `LockAndVersions`,
  `OnlyBuildableServed`, and "unless some goroutine is between `ConfigApply` and
  `ConfigRebuild`, a buildable `cfg` is served". The last conjunct is needed
  because `ServedIsCurrent` speaks of a free lock only, and because a schema
  reload rebuilds from `cfg`: it must know that a configuration that was refused
  stays refused. `LockAndVersions` carries what an introspection has read so far,
  without which `ServedSchemaMonotone` is not inductive: the new model's relation
  version must be known not to precede the current model's columns.
  `FunctionsNeverOlder` adds `FnsInv`: the backend's functions are at least as new
  as the relations of the served model, of a model about to be complete and of
  what a running request was planned on. The last part is what the property
  says; the others are what a reload that fails half way leaves true.
- **`SieveOpsProofs`**. Lemmas on the closed form (the hand
  stops within one round, what removal does to a duplicate-free sequence, that
  the hand survives) give `WellFormed` preserved by `GetOp` and `PutOp`; the
  theorems of `SieveCache` (in `MCCacheProofs`) follow, and `Auth` reuses the lemmas.
- **`AuthProofs`**. A per-request invariant: between lookup and answer, the claims
  in hand are those of the presented token, and the token decodes under the
  request's own verifier; caches hold only such tokens. Then a hit and a miss
  compute the same answer, which is `CacheTransparent`.
- **`TransactProofs`**. `StepIsLocal` says that a step touches only its own
  request and connection, and the table only in a commit. With it each of four
  per-request invariants needs an argument for the acting request only:
  `SessionInv` (a connection in the pool is as new, a dressed one carries its own
  request's role), `DurableInv` (nothing of a request is durable before its
  commit), `WriteInv` (what the enforcement checked is what the commit applies),
  `PageInv` (a counted read keeps one snapshot from the session to the page).
- **`MCCacheProofs`**. The linked list implements the closed form. `IInv` is the
  simulation between `JwtCache` and `SieveCache`, run side by side (the closed form
  is a history variable: every step of the list has its step). `Chain` says that
  head, tail, `prev` and `next` spell the abstract queue, `SweptTo(j)` that a sweep
  under way stands at the closed form's j-th position, that the positions
  before it all carried their bit and that exactly those bits are gone. The first makes
  `remove` and the end of `put` lemmas about one queue (`ChainWithout`,
  `ChainFront`); the second is why the loop stops at the closed form's victim
  (`VictimFound`), in the round in which every bit was set too. `OrderRead` shows
  that following `next` from the head reads that queue, so `ListOK` and the refinement
  mapping follow, and `ListImplements` is `Implements` itself. `ListEvictsAsPromised` is
  about the pointers alone (`ListEviction`): in no step of any operation does the index
  lose an entry but the one under the cursor, when the index is full, and one that was
  marked when `evict` was called only if all were, although the sweep has cleared marks
  since.
- **`EmulatedProofs`**. `IInv` says of each handler, at each of its statements, what
  that statement may rely on: which connection and place it is in (`Placed`), what it
  has made durable against what max-affected and the singular contract admit
  (`Guarded`), which rows MongoDB's loop has still to visit (`Visited`), that the keys
  MySQL selected beforehand are the ones its mutation hits while nobody else wrote
  (`Represented`), that SQLite's count before an upsert is what the upsert creates
  (`Detected`), that the total is that of the page (`Counted`). The three run
  properties speak of finished requests only, so none of them is inductive alone. A
  step of one handler changes the others' knowledge only through the table, the row
  locks and `quiet`; each action's lemma treats the acting handler, `StepKeeps` and
  `PublishKeeps` (a step that makes rows visible) the others.
- **`FrontProofs`**. `IInv` is the four properties of an answered request and, of one
  on its way, what its stages have settled: nothing sent but headers (`Silent`), the
  gates behind it (`Placed`), the media type (`MediaChosen`), the preferences
  (`PrefsSettled`), the window (`WindowKept`) and the backend's answer (`Answered`).
  The properties compare the answer with the *request* (its first `tx=` token, its
  Range, its best Accept range), so the invariant has to carry each intermediate
  value as a function of the request's headers. That rests on lemmas about the
  operators for headers of any length: `ParsePrefer` keeps the first occurrence of a
  key and its value if valid (`TakenMeans`), `AppliedHeader` names exactly the applied
  keys (`AppliedHeaderEchoes`), the sort by quality is a bijection that respects
  the order (a rank is taken by one range, by pigeonhole), so the first range that can
  be produced is the best one (`NegotiateFinds`), and `contentRange` with `writePaged`
  describes a window truthfully (`RangeTruthful`).
- **`DecideProofs`**. `AnswersInvariant` reduces the three theorems to the answers: a
  task keeps its kind and an answer is what the component's operator returns. What
  remains is what those operators compute, for every catalog, registry and policy.
  - *Edges* (`SingleAnswer`, `MirrorAnswer`, `DeclaredAnswer`): a to-one edge joins
    on a list of columns that `sameColumnSet` found to be a key's or that a foreign
    key refers to, so two rows that agree on it agree on a key; each edge in one
    direction comes from the same foreign key, or the same pair of a junction's, as
    one in the other direction.
  - *Views* (`ViewsAnswer`): `Grown` says that a view has, besides its own, only keys
    of its bases under its names, and is kept by every step of every pass; `Closed`
    that none is missing. A view whose bases are closed gains nothing after its own
    turn (`ClosedGainsNothing`) and a closed relation stays so
    (`OneViewKeepsClosed`), so pass n closes the relations of depth n
    (`PassesClose`), and there are as many passes as relations, which is the bound
    that `projectViews` has.
  - *Calls* (`OverloadAnswer`, `MergeAnswer`): `Ranked` is the invariant of
    `Resolve`'s loop (the best score so far and who has it); because there are fewer
    than 1000 parameters the scores order exact matches before all others and
    otherwise by required parameters (`ScoreMeans`), which is `BestFit`.
  - *The gate* (`PolicyAnswer`, `InsertAnswer`, `UpdateAnswer`, `WrittenColumns`,
    `ReadColumns`): the
    terms collected for a role are those of all its policies (`TermsElements`), a
    collected term is true exactly on the rows it admits (`CondMeans`; a missing claim
    becomes an empty IN, true of none), and the least of the conjuncts' truth values is
    true only if all are (`LeastTrue`), whatever the client's filter means.

The loops of `ParsePrefer` and `AppliedHeader`, the walk along `next` and the loops of
`Decide`'s components are recursive functions over a bounded interval. What they compute is proved without an
induction theorem: a function that satisfies the recursive equation is exhibited or
built, and a round where the claim fails would have a least such round.

The type invariants of all proved modules are part of these theorems
(`ReloadTypeCorrect`, `TransactTypeCorrect`; inside `MutationsGuarded` and
`GatesKept`), so no run repeats them.

### Only model-checked

- Liveness, which needs ENABLED: `NotifiedDdlServed`, `ReconnectRefreshes`,
  `ListenerComesBack`, `SignalledSchemaServed`, `RequestsFinish`, `EvictTerminates`
  and `AllAnswered` (`Transact` and `Emulated`).
- `TreesReadBack`, `ParametersReachTheirPlace`, `PlansMeaningful`, `ReadsAsMeant` and
  `WritesAsMeant`: the parser, the planner's walk over embeds and conditions and the
  SQL generator recurse over trees of any depth. What a recursive operator computes
  for every tree needs an induction over data, which is out of the prover's reach, so
  `Request` checks them over every small input instead.

## 5. Disagreements between the code and its comments

Shown by runs (and listed under "findings"):

- `ReloadSignalLost`: SIGUSR1 and SIGUSR2 share a channel of capacity one, so a
  SIGUSR2 behind a waiting SIGUSR1 is dropped and the configuration is not
  re-read. (A SIGUSR1 is never lost in effect when only SIGUSR1 is sent:
  `SignalledSchemaServed`.)
- `TransactRender`: `EnforceSingularWrite` counts the affected rows, the renderer
  the windowed ones; a singular PATCH with `limit=0` commits and is then answered
  PGRST116.
- `SqlNulls`: on MySQL and SQL Server `writeOrder` puts the null sort keys of
  all the terms before all the terms, so that rows are ordered by whether the
  second term is null before they are ordered by the first.

Seen while modelling; no run is devoted to them. Reload and PostgreSQL:

- `reload.go:4` says an in-flight request keeps the snapshot it started with; the
  search path, hoisted settings and functions are fields of the shared backend
  (`postgres.go:148`), which a reload overwrites under it.
- The reload of `OnReconnect` runs before `LISTEN` (`listener.go:41`), so DDL that
  commits between the two is neither read nor notified (`reload.go:174`).
- `reloadConfig` assigns `a.cfg` and the backend's settings before
  `rebuildLocked` can refuse (`reload.go:96`; `:5` says a failed reload keeps the
  previous state), and every later schema reload then fails with it;
  `reloadSchema` likewise assigns `a.model` first (`:74`), so `Model()` may return
  a model that is not served (`:45`).
- `config.Load` runs before the lock (`reload.go:83`), so of two concurrent
  configuration reloads the older sources may be applied last.
- An introspection that fails after its function query leaves the new functions
  beside the old relations (`introspect.go:93`; `reload.go:61`).
- A no-op mutation returns before the response controls are read, so a status set
  by the pre-request hook is lost (`execute.go:135`; `:80`). A status a function
  sets is not checked against what `net/http` accepts (`session.go:111`).
- A database error while a read streams is answered as internal (`render.go:303`;
  `postgres.go:217`).
- A counted read-only call counts and reads in two snapshots (`execute.go:421`;
  `:557`); a counted volatile call whose page is empty reports a total of zero, so
  an offset within the result may be answered 416 (`execute.go:361`;
  `server.go:1248`). A planned or estimated count below the offset is answered 416
  too.
- A void function is answered 204 (`execute.go:380`; `render.go:223`); an
  ignore-duplicates upsert that inserts nothing 200 (`execute.go:216`;
  `server.go:1104`); `max-affected` does not bound a volatile call
  (`execute.go:384`; `ir/prefer.go:31`).

Other engines:

- The MySQL and SQL Server write paths do not call `EnforceSingularWrite`
  (`spi.go:147`), so the renderer finds the wrong count after the commit.
- MySQL 8 reads an insert's representation back from `LAST_INSERT_ID`, which an
  insert with explicit keys leaves stale. SQL Server's `colIndex` falls back to the
  first column.
- MongoDB counts and writes in two operations (`mongo/execute.go:165`), returns the
  whole collection as an insert's representation, and finds an update's
  representation by the original filter, which the update may have changed.
- A write of an empty object becomes `DEFAULT VALUES`, which MySQL has not.

- MongoDB answers an upsert of an empty array that asks for its representation with
  a result that has no row stream (`mongo/execute.go:111`), which the renderer
  dereferences: net/http recovers from the panic and drops the connection. The SQL
  engines refuse the same request (`compile.go:335`), SQL Server does nothing.

Verification and authorization:

- `auth.go:54` says that a configured audience must appear in the token's `aud` claim
  (`configuration.md:73`: "Required `aud` claim"); `checkAud` accepts a token that has
  none, or an empty list.
- `authorization-rls.md:27` calls a policy "a predicate that is applied to every query
  for that role". `Authorize` looks at `q.Relation` only (`authz.go:156`): embedded
  relations have no grant looked up and no policy added.
- For an upsert it adds the USING terms to the query's filter (`authz.go:191`), but no
  engine compiles an upsert's filter (`compile.go:333`; `sqlserver/execute.go:224`), so
  an upsert merges into rows that the policies hide. WITH CHECK does hold of what it
  leaves.
- `gateSelect` skips select items that are not plain columns (`authz.go:231`), so that
  an aggregate over a column needs no grant on it. `*` under a limited grant is
  refused; `authorization-rls.md:21` says that it is narrowed.

Front end, parser and planner:

- `renderScalar` counts every row in Content-Range and writes the first one's value
  (`render.go:484`); `content-negotiation.md:48` speaks of a query that "projects a
  single scalar", which the code checks of the columns, not of the rows.
  `renderCallObject` likewise writes the first row of a function that returns more.

- A 416 keeps `Content-Profile`; a row policy violation is 403 for an anonymous
  request too; `application/json;q=0, */*` is still answered with JSON.
- A registry does not gate `/rpc` (`handleRPC`).
- Embeds that hold a cast aggregate are read as columns (`ir/parse.go:711`); a
  quoted scalar operand keeps its quotes; `parseOrder` splits at commas inside
  quotes; identifiers are cut and unquoted by different rules for backslashes.
- `validatePut` keeps the last of two filters on one key column; a write's order is
  not validated; filters on nested embeds are not reclassified.
- A view takes one key per name of the key and name of its base (`hasProjectedFK`), so
  a view over a join that shows a key twice loses one of the two, and of two bases of
  one name in different schemas a Go map's order decides which is heard
  (`OnePerName`). `ViewsComplete` therefore asks for a key of the name and the base,
  not for every choice of its columns.
- WITH CHECK of an insert reads every key of the payload, also one that `?columns=`
  leaves out of the statement (`ir/parse.go:598`): a checked column can pass by a value
  that is not written. `WritesPassCheck` speaks of the payload.
- WITH CHECK compares null as the empty text, and an update's unset columns are
  covered only when the policy's USING has the same term. A policy literal may not
  contain `!=`, and doubled quotes stay doubled.

SQL generation:

- A spread's filter is rendered once and spliced per lifted column, so `?`
  placeholders outnumber the arguments; a spread of a computed relationship has an
  empty WHERE.
- A nested inner embed does not restrict the embed around it.
- `select=*` and absent select lists do not apply data representations;
  `isdistinct` binds the raw operand on a represented column.

## 6. Plan

Done: live reload, token cache and verification, PostgreSQL execution with their
runs and proofs; the cache's list as a proved refinement; the other engines and the
front end with Prefer, paging and negotiation, with their runs and proofs; the
decisions about edges, overloads and policies, with their run and proofs; parser,
planner and SQL generation with what they mean as reference.

Next, in order:

1. **An atomic request** as abstract specification: `Transact` without faults
   implements it, `Emulated` does on the engines with transactions and native
   RETURNING.
2. **Configuration** (`config/`): precedence of sources and the reloadable subset,
   feeding `Reload`'s `Config`.

## 7. Not modelled, and why

Body encoding (JSON, CSV, GeoJSON, media handlers) and value formatting are
formatting, and the decoding of JSON and CSV bodies is a library's; `pgerr` is a
table; the admin API and OpenAPI read the model and keep no state of interest; the
conformance suites are test harnesses; key decoding (`auth/jwk.go`) is cryptographic
parsing and the role-claim path a selector over decoded JSON; the option grammar of
`config/` is a table of names and conversions. Also left out: `EXPLAIN` output,
planned and estimated counts (an engine's guess), the one-statement forms that
return count and page together (`CompileReadCounted`), what a catalog row of each
engine decodes to, the lowering of filters to MongoDB documents, and shutdown, which
ends everything at once.
