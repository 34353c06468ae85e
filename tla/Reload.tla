------------------------------- MODULE Reload -------------------------------
(***************************************************************************)
(* Live reload of a dbrest server (cmd/dbrest/reload.go and                *)
(* reload_signals_unix.go) on the PostgreSQL backend                       *)
(* (backend/postgres/listener.go, introspect.go, postgres.go).             *)
(*                                                                         *)
(* Two goroutines reload: "signal" serves SIGUSR1 and SIGUSR2 from a       *)
(* channel of capacity one, "listener" owns the db-channel connection and  *)
(* serves NOTIFY payloads and reconnects.  Both call reloadSchema and      *)
(* reloadConfig, which meet at app.mu.  A request loads the front end once *)
(* from an atomic value, but reaches the backend's own fields, which a     *)
(* reload assigns without any lock.                                        *)
(*                                                                         *)
(* The database's catalog is abstracted to a version, raised by every DDL  *)
(* transaction; what an introspection read is the version it saw.  The     *)
(* configuration sources are a version and a kind: "ok" loads and builds,  *)
(* "unloadable" is refused by config.Load, "unbuildable" loads but is      *)
(* refused by attachAuth, attachPreRequest or attachAuthz.  A value of cfg *)
(* is the reloadable subset; MergeReloadable keeps the boot options.       *)
(***************************************************************************)
EXTENDS Naturals, Sequences

CONSTANTS
    Requests,       \* concurrent HTTP requests
    Kinds,          \* kinds of configuration an operator may write
    Signals,        \* reload signals an operator may send
    Payloads,       \* db-channel payloads sent besides the ones of a DDL
    CanFail,        \* whether an introspection may fail
    ChannelEnabled, \* db-channel-enabled at boot
    MaxBackoff,     \* listenMaxBackoff, in seconds
    MaxDdl, MaxEdits, MaxSignals, MaxNotifies, MaxDrops  \* bounds

ASSUME ConstantsAssumption ==
    /\ Kinds \subseteq {"ok", "unloadable", "unbuildable"}
    /\ Signals \subseteq {"SIGUSR1", "SIGUSR2"}
    /\ CanFail \in BOOLEAN
    /\ ChannelEnabled \in BOOLEAN
    /\ MaxBackoff \in Nat \ {0}
    /\ MaxDdl \in Nat /\ MaxEdits \in Nat /\ MaxSignals \in Nat
    /\ MaxNotifies \in Nat /\ MaxDrops \in Nat

VARIABLES
    db,         \* version of the database's catalog
    disk,       \* the configuration sources
    mu,         \* holder of app.mu, or "free"
    cfg, model, \* app.cfg and app.model
    handler,    \* the front end in app.handler: the cfg and model it was built from
    settings,   \* backend fields: schema settings' cfg version, function catalog version
    pc,         \* where each reloading goroutine is
    got,        \* its locals: relations read so far, configuration loaded
    resume,     \* where the listener continues after a reload
    outcome,    \* what each goroutine's last reload returned
    sigbuf,     \* the signal channel
    listening,  \* the listener's connection is up and has issued LISTEN
    queue,      \* notifications on that connection not yet taken
    firstConnect, backoff,
    req,        \* the requests
    asked,      \* history: db and disk versions when SIGUSR1, SIGUSR2 were last sent
    spent       \* history: signals, notifications and connection drops so far

appVars  == <<mu, cfg, model, handler, settings>>
connVars == <<listening, queue, firstConnect, backoff>>
envVars  == <<db, disk, asked, spent>>
vars     == <<appVars, connVars, envVars, pc, got, resume, outcome, sigbuf, req>>

Threads  == {"signal", "listener"}
InSchema == {"readRels", "readFns", "readCols"}     \* reloadSchema, holding mu
Critical == InSchema \cup {"cfgRebuild"}
Reloads  == Critical \cup {"schemaLock", "cfgLoad", "cfgLock"}

Config   == [ver : Nat, kind : {"ok", "unloadable", "unbuildable"}]
Model    == [rel : Nat, col : Nat]
FrontEnd == [cfg : Config, model : Model]
BootCfg  == [ver |-> 0, kind |-> "ok"]
NoModel  == [rel |-> 0, col |-> 0]
NoLocals == [rel |-> 0, cfg |-> BootCfg]
NoReq    == [st |-> "none", snap |-> [cfg |-> BootCfg, model |-> NoModel],
             fns |-> 0, scfg |-> 0]

(***************************************************************************)
(* Boot: run() loads a configuration that builds, calls reloadSchema once, *)
(* then starts the two goroutines.                                         *)
(***************************************************************************)
Init ==
    /\ db = 0 /\ disk = BootCfg
    /\ mu = "free" /\ cfg = BootCfg /\ model = NoModel
    /\ handler = [cfg |-> BootCfg, model |-> NoModel]
    /\ settings = [cfg |-> 0, fns |-> 0]
    /\ pc = [signal |-> "idle",
             listener |-> IF ChannelEnabled THEN "connect" ELSE "off"]
    /\ got = [t \in Threads |-> NoLocals]
    /\ resume = "wait"
    /\ outcome = [t \in Threads |-> "none"]
    /\ sigbuf = <<>>
    /\ listening = FALSE /\ queue = <<>> /\ firstConnect = TRUE /\ backoff = 1
    /\ req = [r \in Requests |-> NoReq]
    /\ asked = [schema |-> 0, config |-> 0]
    /\ spent = [signals |-> 0, notifies |-> 0, drops |-> 0]

(***************************************************************************)
(* The two reload functions.                                               *)
(***************************************************************************)
Goto(t, where) == pc' = [pc EXCEPT ![t] = where]

\* The caller's loop goes on, whatever the reload returned (it only logs it).
Return(t, result) ==
    /\ Goto(t, IF t = "signal" THEN "idle" ELSE resume)
    /\ outcome' = [outcome EXCEPT ![t] = result]
    /\ got' = [got EXCEPT ![t] = NoLocals]

\* dispatch of a signal or a payload to one of the two functions
Begin(t, where) ==
    /\ Goto(t, where)
    /\ outcome' = [outcome EXCEPT ![t] = "none"]

\* rebuildLocked, for the given cfg and model: the new front end is stored
\* unless one of the attach functions refuses the configuration.
Buildable(c) == c.kind = "ok"

\* Faulty variants: the front end stored before the attach functions run; the
\* lock not released.
RebuildStoresFirst(t, c, m) ==
    /\ handler' = [cfg |-> c, model |-> m]
    /\ mu' = "free"
    /\ Return(t, IF Buildable(c) THEN "ok" ELSE "fail")
RebuildKeepsLock(t, c, m) ==
    /\ handler' = IF Buildable(c) THEN [cfg |-> c, model |-> m] ELSE handler
    /\ mu' = mu
    /\ Return(t, IF Buildable(c) THEN "ok" ELSE "fail")

RebuildLocked(t, c, m) ==
    /\ handler' = IF Buildable(c) THEN [cfg |-> c, model |-> m] ELSE handler
    /\ mu' = "free"
    /\ Return(t, IF Buildable(c) THEN "ok" ELSE "fail")

\* Faulty variant: introspection without the lock.
SchemaNoLock(t) ==
    /\ pc[t] = "schemaLock"
    /\ mu' = t
    /\ Goto(t, "readRels")
    /\ UNCHANGED <<cfg, model, handler, settings, connVars, envVars, got, resume,
                   outcome, sigbuf, req>>

SchemaLock(t) ==
    /\ pc[t] = "schemaLock" /\ mu = "free"
    /\ mu' = t
    /\ Goto(t, "readRels")
    /\ UNCHANGED <<cfg, model, handler, settings, connVars, envVars, got, resume,
                   outcome, sigbuf, req>>

\* Faulty variant: the relation list of the previous load is used again.
ReadRelationsStale(t) ==
    /\ pc[t] = "readRels"
    /\ got' = [got EXCEPT ![t].rel = model.rel]
    /\ Goto(t, "readFns")
    /\ UNCHANGED <<appVars, connVars, envVars, resume, outcome, sigbuf, req>>

\* Introspect reads the catalogs one query at a time, with no transaction
\* around them: first the relations and their foreign keys ...
ReadRelations(t) ==
    /\ pc[t] = "readRels"
    /\ got' = [got EXCEPT ![t].rel = db]
    /\ Goto(t, "readFns")
    /\ UNCHANGED <<appVars, connVars, envVars, resume, outcome, sigbuf, req>>

\* Faulty variant: the functions a backend has are kept.
ReadFunctionsKept(t) ==
    /\ pc[t] = "readFns"
    /\ Goto(t, "readCols")
    /\ UNCHANGED <<appVars, connVars, envVars, got, resume, outcome, sigbuf, req>>

\* ... then the functions and role settings, assigned to the backend at once ...
ReadFunctions(t) ==
    /\ pc[t] = "readFns"
    /\ settings' = [settings EXCEPT !.fns = db]
    /\ Goto(t, "readCols")
    /\ UNCHANGED <<mu, cfg, model, handler, connVars, envVars, got, resume,
                   outcome, sigbuf, req>>

\* ... then every relation's columns.  The model is complete: reloadSchema
\* assigns it, rebuilds the front end and unlocks.
ReadColumns(t) ==
    /\ pc[t] = "readCols"
    /\ model' = [rel |-> got[t].rel, col |-> db]
    /\ RebuildLocked(t, cfg, model')
    /\ UNCHANGED <<cfg, settings, connVars, envVars, resume, sigbuf, req>>

\* Faulty variant: the error of Introspect is swallowed.
IntrospectFailSwallowed(t) ==
    /\ CanFail /\ pc[t] \in InSchema
    /\ mu' = "free"
    /\ Return(t, "ok")
    /\ UNCHANGED <<cfg, model, handler, settings, connVars, envVars, resume,
                   sigbuf, req>>

\* A catalog query fails, or the ten second timeout strikes.
IntrospectFail(t) ==
    /\ CanFail /\ pc[t] \in InSchema
    /\ mu' = "free"
    /\ Return(t, "fail")
    /\ UNCHANGED <<cfg, model, handler, settings, connVars, envVars, resume,
                   sigbuf, req>>

\* reloadConfig reads the sources before it takes the lock.
ConfigLoad(t) ==
    /\ pc[t] = "cfgLoad"
    /\ IF disk.kind = "unloadable"
       THEN Return(t, "fail")
       ELSE /\ got' = [got EXCEPT ![t].cfg = disk]
            /\ Goto(t, "cfgLock")
            /\ UNCHANGED outcome
    /\ UNCHANGED <<appVars, connVars, envVars, resume, sigbuf, req>>

\* Lock, a.cfg = merged, applySchemaConfig.
ConfigApply(t) ==
    /\ pc[t] = "cfgLock" /\ mu = "free"
    /\ mu' = t
    /\ cfg' = got[t].cfg
    /\ settings' = [settings EXCEPT !.cfg = got[t].cfg.ver]
    /\ Goto(t, "cfgRebuild")
    /\ UNCHANGED <<model, handler, connVars, envVars, got, resume, outcome,
                   sigbuf, req>>

\* Faulty variant: the new configuration is recorded but nothing is rebuilt.
ConfigNoRebuild(t) ==
    /\ pc[t] = "cfgRebuild"
    /\ mu' = "free"
    /\ Return(t, "ok")
    /\ UNCHANGED <<cfg, model, handler, settings, connVars, envVars, resume, sigbuf,
                   req>>

ConfigRebuild(t) ==
    /\ pc[t] = "cfgRebuild"
    /\ RebuildLocked(t, cfg, model)
    /\ UNCHANGED <<cfg, model, settings, connVars, envVars, resume, sigbuf, req>>

ReloadStep(t) ==
    \/ SchemaLock(t)    \/ ReadRelations(t) \/ ReadFunctions(t)
    \/ ReadColumns(t)   \/ IntrospectFail(t)
    \/ ConfigLoad(t)    \/ ConfigApply(t)   \/ ConfigRebuild(t)

(***************************************************************************)
(* watchSignals: signal.Notify never blocks, so a signal that finds the    *)
(* channel full is dropped.                                                *)
(***************************************************************************)

\* Faulty variant: an unbuffered channel, which loses what arrives during a reload.
SendSignalUnbuffered(s) ==
    /\ spent.signals < MaxSignals
    /\ spent' = [spent EXCEPT !.signals = @ + 1]
    /\ asked' = IF s = "SIGUSR1" THEN [asked EXCEPT !.schema = db]
                                 ELSE [asked EXCEPT !.config = disk.ver]
    /\ sigbuf' = IF Len(sigbuf) < 1 /\ pc["signal"] = "idle"
                 THEN Append(sigbuf, s) ELSE sigbuf
    /\ UNCHANGED <<appVars, connVars, db, disk, pc, got, resume, outcome, req>>

SendSignal(s) ==
    /\ spent.signals < MaxSignals
    /\ spent' = [spent EXCEPT !.signals = @ + 1]
    /\ asked' = IF s = "SIGUSR1" THEN [asked EXCEPT !.schema = db]
                                 ELSE [asked EXCEPT !.config = disk.ver]
    /\ sigbuf' = IF Len(sigbuf) < 1 THEN Append(sigbuf, s) ELSE sigbuf
    /\ UNCHANGED <<appVars, connVars, db, disk, pc, got, resume, outcome, req>>

TakeSignal ==
    /\ pc["signal"] = "idle" /\ sigbuf # <<>>
    /\ sigbuf' = Tail(sigbuf)
    /\ Begin("signal", IF Head(sigbuf) = "SIGUSR1" THEN "schemaLock" ELSE "cfgLoad")
    /\ UNCHANGED <<appVars, connVars, envVars, got, resume, req>>

(***************************************************************************)
(* Listen and waitForNotifications.                                        *)
(***************************************************************************)

NextBackoff(d) == IF 2 * d > MaxBackoff THEN MaxBackoff ELSE 2 * d

ConnectFail ==
    /\ pc["listener"] = "connect"
    /\ Goto("listener", "backoff")
    /\ UNCHANGED <<appVars, connVars, envVars, got, resume, outcome, sigbuf, req>>

WaitBackoff ==
    /\ pc["listener"] = "backoff"
    /\ Goto("listener", "connect")
    /\ backoff' = NextBackoff(backoff)
    /\ UNCHANGED <<appVars, listening, queue, firstConnect, envVars, got, resume,
                   outcome, sigbuf, req>>

\* A connection that is not the first one calls OnReconnect, which reloads the
\* schema, before LISTEN is issued on it.
Connect ==
    /\ pc["listener"] = "connect"
    /\ backoff' = 1
    /\ firstConnect' = FALSE
    /\ IF firstConnect
       THEN Goto("listener", "listen") /\ UNCHANGED <<resume, outcome>>
       ELSE Begin("listener", "schemaLock") /\ resume' = "listen"
    /\ UNCHANGED <<appVars, listening, queue, envVars, got, sigbuf, req>>

IssueListen ==
    /\ pc["listener"] = "listen"
    /\ listening' = TRUE
    /\ Goto("listener", "wait")
    /\ UNCHANGED <<appVars, queue, firstConnect, backoff, envVars, got, resume,
                   outcome, sigbuf, req>>

ListenFail ==
    /\ pc["listener"] = "listen" /\ spent.drops < MaxDrops
    /\ spent' = [spent EXCEPT !.drops = @ + 1]
    /\ Goto("listener", "backoff")
    /\ UNCHANGED <<appVars, connVars, db, disk, asked, got, resume, outcome,
                   sigbuf, req>>

\* dbNotifyAction and handleDBNotify
DbNotifyAction(p) ==
    CASE p \in {"", "reload schema"} -> "schemaLock"
      [] p = "reload config"         -> "cfgLoad"
      [] OTHER                       -> "wait"

TakeNotification ==
    /\ pc["listener"] = "wait" /\ queue # <<>>
    /\ queue' = Tail(queue)
    /\ LET next == DbNotifyAction(Head(queue).payload) IN
       IF next = "wait"
       THEN UNCHANGED <<pc, outcome, resume>>
       ELSE Begin("listener", next) /\ resume' = "wait"
    /\ UNCHANGED <<appVars, listening, firstConnect, backoff, envVars, got, sigbuf,
                   req>>

\* The connection is lost: of the notifications on it, those the client had
\* already read from the socket (a prefix) are still delivered.
Drop ==
    /\ listening /\ spent.drops < MaxDrops
    /\ spent' = [spent EXCEPT !.drops = @ + 1]
    /\ listening' = FALSE
    /\ \E n \in 0 .. Len(queue) : queue' = SubSeq(queue, 1, n)
    /\ UNCHANGED <<appVars, firstConnect, backoff, db, disk, asked, pc, got, resume,
                   outcome, sigbuf, req>>

\* Faulty variant: a lost connection ends the listener goroutine.
LostConnectionGivesUp ==
    /\ pc["listener"] = "wait" /\ ~listening /\ queue = <<>>
    /\ Goto("listener", "off")
    /\ UNCHANGED <<appVars, connVars, envVars, got, resume, outcome, sigbuf, req>>

LostConnection ==
    /\ pc["listener"] = "wait" /\ ~listening /\ queue = <<>>
    /\ Goto("listener", "backoff")
    /\ UNCHANGED <<appVars, connVars, envVars, got, resume, outcome, sigbuf, req>>

ListenerStep ==
    \/ WaitBackoff \/ Connect \/ IssueListen \/ TakeNotification \/ LostConnection

(***************************************************************************)
(* The database, the operator and the requests.                            *)
(***************************************************************************)
\* NOTIFY reaches the connections listening when its transaction commits.
Deliver(p, v) ==
    queue' = IF listening THEN Append(queue, [payload |-> p, ver |-> v]) ELSE queue

\* A DDL transaction commits, and the event trigger's NOTIFY with it.
Ddl ==
    /\ db < MaxDdl
    /\ db' = db + 1
    /\ Deliver("reload schema", db + 1)
    /\ UNCHANGED <<appVars, listening, firstConnect, backoff, disk, asked, spent, pc,
                   got, resume, outcome, sigbuf, req>>

Notify(p) ==
    /\ spent.notifies < MaxNotifies
    /\ spent' = [spent EXCEPT !.notifies = @ + 1]
    /\ Deliver(p, db)
    /\ UNCHANGED <<appVars, listening, firstConnect, backoff, db, disk, asked, pc,
                   got, resume, outcome, sigbuf, req>>

EditConfig(k) ==
    /\ disk.ver < MaxEdits
    /\ disk' = [ver |-> disk.ver + 1, kind |-> k]
    /\ UNCHANGED <<appVars, connVars, db, asked, spent, pc, got, resume, outcome,
                   sigbuf, req>>

\* app.ServeHTTP loads the front end once.
StartRequest(r) ==
    /\ req[r].st = "none"
    /\ req' = [req EXCEPT ![r] = [NoReq EXCEPT !.st = "running", !.snap = handler]]
    /\ UNCHANGED <<appVars, connVars, envVars, pc, got, resume, outcome, sigbuf>>

\* A native call resolves its function and its search path from the backend.
ExecuteRequest(r) ==
    /\ req[r].st = "running"
    /\ req' = [req EXCEPT ![r].st = "answered", ![r].fns = settings.fns,
                          ![r].scfg = settings.cfg]
    /\ UNCHANGED <<appVars, connVars, envVars, pc, got, resume, outcome, sigbuf>>

\* requestLogger asks app.logLevel, under mu, after the response is written.
LogRequest(r) ==
    /\ req[r].st = "answered" /\ mu = "free"
    /\ req' = [req EXCEPT ![r] = NoReq]
    /\ UNCHANGED <<appVars, connVars, envVars, pc, got, resume, outcome, sigbuf>>

Next ==
    \/ \E t \in Threads : ReloadStep(t)
    \/ \E s \in Signals : SendSignal(s)
    \/ TakeSignal
    \/ ListenerStep \/ ConnectFail \/ ListenFail \/ Drop
    \/ Ddl
    \/ \E p \in Payloads : Notify(p)
    \/ \E k \in Kinds : EditConfig(k)
    \/ \E r \in Requests : StartRequest(r) \/ ExecuteRequest(r) \/ LogRequest(r)

(***************************************************************************)
(* Fairness.  Goroutines are scheduled; sync.Mutex hands the lock to a     *)
(* waiter that has starved for a millisecond, hence SF on the three steps  *)
(* that take it.  A connection attempt that can succeed again and again    *)
(* eventually does.  DDL, signals, edits, failures and new requests are    *)
(* the environment's and are under no obligation.                          *)
(***************************************************************************)
Fairness ==
    /\ \A t \in Threads :
          /\ SF_vars(SchemaLock(t)) /\ SF_vars(ConfigApply(t))
          /\ WF_vars(ReadRelations(t) \/ ReadFunctions(t) \/ ReadColumns(t)
                       \/ ConfigLoad(t) \/ ConfigRebuild(t))
    /\ WF_vars(TakeSignal)
    /\ SF_vars(Connect)
    /\ WF_vars(WaitBackoff \/ IssueListen \/ TakeNotification \/ LostConnection)
    /\ \A r \in Requests : WF_vars(ExecuteRequest(r)) /\ SF_vars(LogRequest(r))

Spec     == Init /\ [][Next]_vars
FairSpec == Spec /\ Fairness

-----------------------------------------------------------------------------
(***************************************************************************)
(* Properties.                                                             *)
(***************************************************************************)
Message == [payload : {"reload schema"} \cup Payloads, ver : Nat]

\* Every variable stays in its type: among others, mu is held by a reloading
\* goroutine or free, and the signal channel never exceeds its capacity.
TypeOK ==
    /\ db \in Nat /\ disk \in Config
    /\ mu \in Threads \cup {"free"}
    /\ cfg \in Config /\ model \in Model /\ handler \in FrontEnd
    /\ settings \in [cfg : Nat, fns : Nat]
    /\ pc \in [Threads -> Reloads \cup
                 {"idle", "off", "connect", "backoff", "listen", "wait"}]
    /\ got \in [Threads -> [rel : Nat, cfg : Config]]
    /\ resume \in {"listen", "wait"}
    /\ outcome \in [Threads -> {"none", "ok", "fail"}]
    /\ sigbuf \in Seq({"SIGUSR1", "SIGUSR2"}) /\ Len(sigbuf) <= 1
    /\ listening \in BOOLEAN /\ queue \in Seq(Message)
    /\ firstConnect \in BOOLEAN /\ backoff \in 1 .. MaxBackoff
    /\ req \in [Requests -> [st : {"none", "running", "answered"},
                             snap : FrontEnd, fns : Nat, scfg : Nat]]
    /\ asked \in [schema : Nat, config : Nat]
    /\ spent \in [signals : Nat, notifies : Nat, drops : Nat]

\* The schema a client sees never goes back: two reloads racing from the two
\* goroutines, however they interleave with DDL, never store a front end built
\* on catalogs read before those of the front end they replace (reloadSchema
\* introspects while holding mu).
ServedSchemaMonotone ==
    [][/\ handler'.model.rel >= handler.model.rel
       /\ handler'.model.col >= handler.model.col]_vars

\* The lock and the versions it protects: mu is held exactly by the goroutine
\* inside reloadSchema or past reloadConfig's lock; an introspection under way
\* has read nothing older than the current model, and no front end is newer
\* than the model, nor the model than the database.
LockAndVersions ==
    /\ \A t \in Threads : mu = t <=> pc[t] \in Critical
    /\ model.rel <= model.col /\ model.col <= db /\ settings.fns <= db
    /\ handler.model.rel <= model.rel /\ handler.model.col <= model.col
    /\ \A t \in Threads : pc[t] \in {"readFns", "readCols"} =>
          model.col <= got[t].rel /\ got[t].rel <= db

\* Whenever no reload is under way and the configuration in force builds, the
\* front end being served is the one of that configuration and of the newest
\* model: no failed step leaves the two apart once a good configuration is in.
ServedIsCurrent ==
    mu = "free" /\ Buildable(cfg) => handler = [cfg |-> cfg, model |-> model]

\* A configuration that the attach functions refuse is never served, not even
\* by a schema reload that follows the refused configuration reload.
OnlyBuildableServed ==
    /\ Buildable(handler.cfg)
    /\ \A r \in Requests : Buildable(req[r].snap.cfg)

\* A request may run with functions newer than the model it was planned on (a
\* reload replaces the backend's catalog under it), never with older ones, also
\* when the introspection that replaced them failed half way: a function the
\* model's catalog has is not missing (Introspect reads relations first).
FunctionsNotOlder ==
    \A r \in Requests : req[r].st = "answered" => req[r].fns >= req[r].snap.model.rel

\* Inductive form: between reloadConfig's assignment and its rebuild the front
\* end may lag behind cfg; otherwise a configuration that builds is served.
IInv ==
    /\ TypeOK
    /\ LockAndVersions
    /\ OnlyBuildableServed
    /\ Buildable(cfg) /\ (\A t \in Threads : pc[t] # "cfgRebuild") =>
          handler = [cfg |-> cfg, model |-> model]

\* Inductive form: the functions are at least as new as the relations of the model,
\* of a model about to be complete and of what a running request was planned on.
FnsInv ==
    /\ model.rel <= settings.fns
    /\ \A t \in Threads : pc[t] = "readCols" => got[t].rel <= settings.fns
    /\ \A r \in Requests : req[r].st = "running" => req[r].snap.model.rel <= settings.fns
    /\ FunctionsNotOlder

\* A schema notification that reached the listener's connection is answered by
\* a front end that includes its DDL, unless the connection is lost or the
\* listener's reload fails (a failure is logged and not retried).
NotifiedDdlServed ==
    \A v \in 1 .. MaxDdl :
        (\E i \in DOMAIN queue : queue[i].ver = v
                                 /\ DbNotifyAction(queue[i].payload) = "schemaLock")
        ~> \/ handler.model.rel >= v /\ handler.model.col >= v
           \/ ~listening
           \/ outcome["listener"] = "fail"

\* DDL committed while the listener was down, up to the moment OnReconnect asks
\* for the lock, is served by the reload it runs, unless that reload fails.
ReconnectRefreshes ==
    \A v \in 1 .. MaxDdl :
        (db >= v /\ pc["listener"] = "schemaLock" /\ resume = "listen")
        ~> (handler.model.rel >= v \/ outcome["listener"] = "fail")

\* The listener always comes back: whatever drops or refuses its connection,
\* and however long its own reload waits for mu, it listens again.
ListenerComesBack == (ChannelEnabled /\ ~listening) ~> listening

\* A SIGUSR1 is never lost in effect: the catalog as it was when the signal was
\* sent is eventually served even if the signal found the channel full, because
\* the buffered one is taken before its reload reads the catalog.
SignalledSchemaServed ==
    \A v \in 1 .. MaxDdl :
        (asked.schema >= v) ~> (handler.model.rel >= v \/ outcome["signal"] = "fail")

\* Every request ends: the log line's wait for mu, held through a whole
\* introspection, never lasts for ever.
RequestsFinish ==
    \A r \in Requests : (req[r].st = "running") ~> (req[r].st = "none")

-----------------------------------------------------------------------------
(***************************************************************************)
(* A property the source states and the code does not have.                *)
(***************************************************************************)

\* "re-reads ... its configuration on SIGUSR2": the sources as they were when
\* a SIGUSR2 was sent are eventually in force.
SignalledConfigServed ==
    \A v \in 1 .. MaxEdits : (asked.config >= v) ~> (cfg.ver >= v)
=============================================================================
