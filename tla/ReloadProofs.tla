---------------------------- MODULE ReloadProofs ----------------------------
(***************************************************************************)
(* Proofs about Reload, for any set of requests, any signals and payloads, *)
(* and any bounds: the inductive invariant IInv, and from it the lock      *)
(* discipline, the agreement of what is served with what is loaded, and    *)
(* the monotonicity of the served schema.                                  *)
(***************************************************************************)
EXTENDS Reload, SequenceTheorems, TLAPS

Locals == [rel : Nat, cfg : Config]
Places == Reloads \cup {"idle", "off", "connect", "backoff", "listen", "wait"}

\* The cap on the listener's wait admits the one second it starts from.
LEMMA BackoffCap == MaxBackoff \in Nat /\ 1 <= MaxBackoff
<1>1. MaxBackoff \in Nat \ {0}  BY Zenon, ConstantsAssumption
<1> QED BY <1>1

\* What Return assigns is well typed, whatever the reload function returned.
LEMMA ReturnTyped ==
    ASSUME TypeOK, NEW t \in Threads, NEW res \in {"ok", "fail"}, Return(t, res)
    PROVE  /\ pc' \in [Threads -> Places]
           /\ outcome' \in [Threads -> {"none", "ok", "fail"}]
           /\ got' \in [Threads -> Locals]
<1>1. NoLocals \in Locals
  BY DEF NoLocals, Locals, BootCfg, Config
<1> QED
  BY <1>1 DEF Return, TypeOK, Goto, Places, Locals

\* So is what rebuildLocked assigns.
LEMMA RebuildTyped ==
    ASSUME TypeOK, NEW t \in Threads, NEW c \in Config, NEW m \in Model,
           RebuildLocked(t, c, m)
    PROVE  /\ handler' \in FrontEnd
           /\ mu' = "free"
           /\ pc' \in [Threads -> Places]
           /\ outcome' \in [Threads -> {"none", "ok", "fail"}]
           /\ got' \in [Threads -> Locals]
<1>1. handler' \in FrontEnd /\ mu' = "free"
  BY DEF RebuildLocked, TypeOK, FrontEnd
<1>2. \E res \in {"ok", "fail"} : Return(t, res)
  BY Zenon DEF RebuildLocked
<1> QED
  BY <1>1, <1>2, ReturnTyped

\* Every reload step keeps the types: none of the goroutines' eight steps ever
\* stores a value of another shape in the application or in its locals.
LEMMA ReloadStepTyped ==
    ASSUME TypeOK, NEW t \in Threads, ReloadStep(t)
    PROVE  TypeOK'
<1>a. /\ got[t] \in Locals /\ db \in Nat /\ disk \in Config
      /\ cfg \in Config /\ model \in Model /\ settings \in [cfg : Nat, fns : Nat]
      /\ got \in [Threads -> Locals] /\ pc \in [Threads -> Places]
  BY DEF TypeOK, Locals, Places
<1> USE DEF Goto, appVars, connVars, envVars
<1>1. CASE SchemaLock(t)
  BY <1>1 DEF SchemaLock, TypeOK, Reloads, Critical, InSchema
<1>2. CASE ReadRelations(t)
  <2>1. [got[t] EXCEPT !.rel = db] \in Locals
    BY <1>a DEF Locals
  <2>2. got' = [got EXCEPT ![t] = [got[t] EXCEPT !.rel = db]]
    BY <1>2 DEF ReadRelations
  <2>3. got' \in [Threads -> Locals]
    BY <1>a, <2>1, <2>2
  <2>4. pc' \in [Threads -> Places]
    BY <1>2, <1>a DEF ReadRelations, Places, Reloads, Critical, InSchema
  <2> QED
    BY <1>2, <2>3, <2>4 DEF ReadRelations, TypeOK, Locals, Places
<1>3. CASE ReadFunctions(t)
  <2>1. settings' \in [cfg : Nat, fns : Nat]
    BY <1>3, <1>a DEF ReadFunctions
  <2>2. pc' \in [Threads -> Places]
    BY <1>3, <1>a DEF ReadFunctions, Places, Reloads, Critical, InSchema
  <2> QED
    BY <1>3, <2>1, <2>2 DEF ReadFunctions, TypeOK, Places
<1>4. CASE ReadColumns(t)
  <2>1. model' \in Model
    BY <1>4, <1>a DEF ReadColumns, Model, Locals
  <2>2. RebuildLocked(t, cfg, model')
    BY <1>4 DEF ReadColumns
  <2>3. /\ handler' \in FrontEnd /\ mu' = "free" /\ pc' \in [Threads -> Places]
        /\ outcome' \in [Threads -> {"none", "ok", "fail"}]
        /\ got' \in [Threads -> Locals]
    BY <2>1, <2>2, <1>a, RebuildTyped
  <2> QED
    BY <1>4, <2>1, <2>3 DEF ReadColumns, TypeOK, Locals, Places
<1>5. CASE IntrospectFail(t)
  <2>1. Return(t, "fail")
    BY <1>5 DEF IntrospectFail
  <2> QED
    BY <1>5, <2>1, ReturnTyped DEF IntrospectFail, TypeOK, Locals, Places
<1>6. CASE ConfigLoad(t)
  <2>1. CASE disk.kind = "unloadable"
    <3>1. Return(t, "fail")
      BY <1>6, <2>1 DEF ConfigLoad
    <3> QED
      BY <1>6, <3>1, ReturnTyped DEF ConfigLoad, TypeOK, Locals, Places
  <2>2. CASE disk.kind # "unloadable"
    <3>1. [got[t] EXCEPT !.cfg = disk] \in Locals
      BY <1>a DEF Locals
    <3>2. got' = [got EXCEPT ![t] = [got[t] EXCEPT !.cfg = disk]]
      BY <1>6, <2>2 DEF ConfigLoad
    <3>3. got' \in [Threads -> Locals]
      BY <1>a, <3>1, <3>2
    <3>4. pc' \in [Threads -> Places]
      BY <1>6, <2>2, <1>a DEF ConfigLoad, Places, Reloads
    <3> QED
      BY <1>6, <2>2, <3>3, <3>4 DEF ConfigLoad, TypeOK, Locals, Places
  <2> QED
    BY <2>1, <2>2
<1>7. CASE ConfigApply(t)
  <2>1. cfg' \in Config /\ settings' \in [cfg : Nat, fns : Nat]
    BY <1>7, <1>a DEF ConfigApply, Locals, Config
  <2>2. pc' \in [Threads -> Places]
    BY <1>7, <1>a DEF ConfigApply, Places, Reloads, Critical
  <2> QED
    BY <1>7, <2>1, <2>2 DEF ConfigApply, TypeOK, Places
<1>8. CASE ConfigRebuild(t)
  <2>1. RebuildLocked(t, cfg, model)
    BY <1>8 DEF ConfigRebuild
  <2>2. /\ handler' \in FrontEnd /\ mu' = "free" /\ pc' \in [Threads -> Places]
        /\ outcome' \in [Threads -> {"none", "ok", "fail"}]
        /\ got' \in [Threads -> Locals]
    BY <2>1, <1>a, RebuildTyped
  <2> QED
    BY <1>8, <2>2 DEF ConfigRebuild, TypeOK, Locals, Places
<1> QED
  BY <1>1, <1>2, <1>3, <1>4, <1>5, <1>6, <1>7, <1>8 DEF ReloadStep

\* The steps that send and take signals keep the types; the channel holds at
\* most one signal because a full one drops the next.
LEMMA SignalStepTyped ==
    ASSUME TypeOK, (\E s \in Signals : SendSignal(s)) \/ TakeSignal
    PROVE  TypeOK'
<1>a. /\ sigbuf \in Seq({"SIGUSR1", "SIGUSR2"}) /\ Len(sigbuf) \in Nat
      /\ Len(sigbuf) <= 1 /\ spent \in [signals : Nat, notifies : Nat, drops : Nat]
  BY DEF TypeOK
<1>1. ASSUME NEW s \in Signals, SendSignal(s)
      PROVE  TypeOK'
  <2>1. sigbuf' \in Seq({"SIGUSR1", "SIGUSR2"}) /\ Len(sigbuf') <= 1
    BY <1>1, <1>a, ConstantsAssumption DEF SendSignal
  <2>2. asked' \in [schema : Nat, config : Nat]
    BY <1>1 DEF SendSignal, TypeOK, Config
  <2>3. spent' \in [signals : Nat, notifies : Nat, drops : Nat]
    BY <1>1, <1>a DEF SendSignal
  <2> QED
    BY <1>1, <2>1, <2>2, <2>3 DEF SendSignal, TypeOK, appVars, connVars
<1>2. CASE TakeSignal
  <2>1. sigbuf' \in Seq({"SIGUSR1", "SIGUSR2"}) /\ Len(sigbuf') <= 1
    BY <1>2, <1>a DEF TakeSignal
  <2>2. /\ pc' \in [Threads -> Places]
        /\ outcome' \in [Threads -> {"none", "ok", "fail"}]
    BY <1>2 DEF TakeSignal, Begin, Goto, TypeOK, Places, Reloads
  <2> QED
    BY <1>2, <2>1, <2>2 DEF TakeSignal, TypeOK, Places, appVars, connVars, envVars
<1> QED BY <1>1, <1>2

\* So do the listener's steps and the loss of its connection; the wait between
\* two attempts stays within its cap.
LEMMA ListenerStepTyped ==
    ASSUME TypeOK, ListenerStep \/ ConnectFail \/ ListenFail \/ Drop
    PROVE  TypeOK'
<1>a. /\ queue \in Seq(Message) /\ pc \in [Threads -> Places]
      /\ backoff \in 1 .. MaxBackoff /\ "listener" \in Threads
      /\ outcome \in [Threads -> {"none", "ok", "fail"}]
      /\ spent \in [signals : Nat, notifies : Nat, drops : Nat]
      /\ {"backoff", "connect", "listen", "wait", "schemaLock", "cfgLoad"} \subseteq Places
  BY DEF TypeOK, Places, Threads, Reloads
<1>b. \A p \in Places : Goto("listener", p) => pc' \in [Threads -> Places]
  BY <1>a DEF Goto
<1>c. \A p \in Places : Begin("listener", p) =>
          /\ pc' \in [Threads -> Places]
          /\ outcome' \in [Threads -> {"none", "ok", "fail"}]
  BY <1>a DEF Begin, Goto
<1> USE DEF appVars, connVars, envVars
<1>1. CASE WaitBackoff
  <2>1. backoff' \in 1 .. MaxBackoff
    BY <1>1, <1>a, BackoffCap DEF WaitBackoff, NextBackoff
  <2> QED BY <1>1, <1>a, <1>b, <2>1 DEF WaitBackoff, TypeOK, Places
<1>2. CASE Connect
  <2>1. /\ pc' \in [Threads -> Places]
        /\ outcome' \in [Threads -> {"none", "ok", "fail"}]
        /\ resume' \in {"listen", "wait"}
    BY <1>2, <1>a, <1>b, <1>c DEF Connect, TypeOK
  <2>2. backoff' \in 1 .. MaxBackoff /\ firstConnect' \in BOOLEAN
    <3>1. backoff' = 1 /\ firstConnect' = FALSE
      BY <1>2 DEF Connect
    <3>2. backoff' \in 1 .. MaxBackoff  BY <3>1, BackoffCap
    <3>3. firstConnect' \in BOOLEAN      BY <3>1, Zenon
    <3> QED BY <3>2, <3>3
  <2> QED BY <1>2, <2>1, <2>2 DEF Connect, TypeOK, Places
<1>3. CASE IssueListen
  BY <1>3, <1>a, <1>b DEF IssueListen, TypeOK, Places
<1>4. CASE TakeNotification
  <2>1. queue' \in Seq(Message)
    BY <1>4, <1>a DEF TakeNotification
  <2>2. DbNotifyAction(Head(queue).payload) \in Places
    BY <1>a DEF DbNotifyAction
  <2>3. /\ pc' \in [Threads -> Places]
        /\ outcome' \in [Threads -> {"none", "ok", "fail"}]
        /\ resume' \in {"listen", "wait"}
    BY <1>4, <1>a, <1>c, <2>2 DEF TakeNotification, TypeOK
  <2> QED BY <1>4, <2>1, <2>3 DEF TakeNotification, TypeOK, Places
<1>5. CASE LostConnection
  BY <1>5, <1>a, <1>b DEF LostConnection, TypeOK, Places
<1>6. CASE ConnectFail
  BY <1>6, <1>a, <1>b DEF ConnectFail, TypeOK, Places
<1>7. CASE ListenFail
  <2>1. spent' \in [signals : Nat, notifies : Nat, drops : Nat]
    BY <1>7, <1>a DEF ListenFail
  <2> QED BY <1>7, <1>a, <1>b, <2>1 DEF ListenFail, TypeOK, Places
<1>8. CASE Drop
  <2>1. spent' \in [signals : Nat, notifies : Nat, drops : Nat]
    <3>1. spent' = [spent EXCEPT !.drops = spent.drops + 1]
      BY <1>8, Zenon DEF Drop
    <3> QED BY <3>1, <1>a
  <2>2. PICK n \in 0 .. Len(queue) : queue' = SubSeq(queue, 1, n)
    BY <1>8 DEF Drop
  <2>3. queue' \in Seq(Message)
    BY <1>a, <2>2
  <2> QED BY <1>8, <2>1, <2>3 DEF Drop, TypeOK
<1> QED
  BY <1>1, <1>2, <1>3, <1>4, <1>5, <1>6, <1>7, <1>8 DEF ListenerStep

\* So do the steps of the database, of the operator and of the requests.
LEMMA EnvironmentStepTyped ==
    ASSUME TypeOK,
           \/ Ddl
           \/ \E p \in Payloads : Notify(p)
           \/ \E k \in Kinds : EditConfig(k)
           \/ \E r \in Requests : StartRequest(r) \/ ExecuteRequest(r) \/ LogRequest(r)
    PROVE  TypeOK'
<1>a. /\ queue \in Seq(Message) /\ db \in Nat /\ disk \in Config
      /\ handler \in FrontEnd /\ settings \in [cfg : Nat, fns : Nat]
      /\ spent \in [signals : Nat, notifies : Nat, drops : Nat]
  BY DEF TypeOK
<1>b. ASSUME NEW p \in Payloads \cup {"reload schema"}, NEW v \in Nat, Deliver(p, v)
      PROVE  queue' \in Seq(Message)
  <2>1. [payload |-> p, ver |-> v] \in Message
    BY DEF Message
  <2>2. Append(queue, [payload |-> p, ver |-> v]) \in Seq(Message)
    BY <1>a, <2>1, AppendProperties
  <2> QED BY <1>a, <1>b, <2>2, Zenon DEF Deliver
<1> USE DEF appVars, connVars, envVars
<1>1. CASE Ddl
  <2>1. db + 1 \in Nat /\ db' = db + 1
    <3>1. db' = db + 1  BY <1>1, Zenon DEF Ddl
    <3> QED BY <3>1, <1>a
  <2>2. Deliver("reload schema", db + 1)
    BY <1>1, Zenon DEF Ddl
  <2>3. queue' \in Seq(Message)
    BY <2>1, <2>2, <1>b
  <2> QED BY <1>1, <2>1, <2>3 DEF Ddl, TypeOK
<1>2. ASSUME NEW p \in Payloads, Notify(p)
      PROVE  TypeOK'
  <2>1. queue' \in Seq(Message)
    BY <1>2, <1>a, <1>b DEF Notify
  <2>2. spent' \in [signals : Nat, notifies : Nat, drops : Nat]
    BY <1>2, <1>a DEF Notify
  <2> QED BY <1>2, <2>1, <2>2 DEF Notify, TypeOK
<1>3. ASSUME NEW k \in Kinds, EditConfig(k)
      PROVE  TypeOK'
  <2>1. disk' \in Config
    BY <1>3, <1>a, ConstantsAssumption DEF EditConfig, Config
  <2> QED BY <1>3, <2>1 DEF EditConfig, TypeOK
<1>4. ASSUME NEW r \in Requests, StartRequest(r) \/ ExecuteRequest(r) \/ LogRequest(r)
      PROVE  TypeOK'
  <2> DEFINE Req == [st : {"none", "running", "answered"},
                     snap : FrontEnd, fns : Nat, scfg : Nat]
  <2>1. req \in [Requests -> Req]
    BY DEF TypeOK
  <2>2. NoReq \in Req
    BY DEF NoReq, FrontEnd, BootCfg, NoModel, Config, Model
  <2>3. req' \in [Requests -> Req]
    <3>1. CASE StartRequest(r)
      <4>1. [NoReq EXCEPT !.st = "running", !.snap = handler] \in Req
        BY <2>2, <1>a
      <4> QED BY <3>1, <4>1, <2>1 DEF StartRequest
    <3>2. CASE ExecuteRequest(r)
      <4>1. [req[r] EXCEPT !.st = "answered", !.fns = settings.fns,
                           !.scfg = settings.cfg] \in Req
        BY <2>1, <1>a
      <4>2. req' = [req EXCEPT ![r] = [req[r] EXCEPT !.st = "answered",
                       !.fns = settings.fns, !.scfg = settings.cfg]]
        BY <3>2, <2>1 DEF ExecuteRequest
      <4> QED BY <4>1, <4>2, <2>1
    <3>3. CASE LogRequest(r)
      BY <3>3, <2>1, <2>2 DEF LogRequest
    <3> QED BY <1>4, <3>1, <3>2, <3>3
  <2> QED BY <1>4, <2>3 DEF StartRequest, ExecuteRequest, LogRequest, TypeOK
<1> QED BY <1>1, <1>2, <1>3, <1>4

\* The types are an invariant of one step of the whole server.
LEMMA NextTyped == TypeOK /\ [Next]_vars => TypeOK'
<1> SUFFICES ASSUME TypeOK, [Next]_vars
             PROVE  TypeOK'
  OBVIOUS
<1>1. CASE Next
  BY <1>1, ReloadStepTyped, SignalStepTyped, ListenerStepTyped, EnvironmentStepTyped
     DEF Next
<1>2. CASE UNCHANGED vars
  BY <1>2 DEF vars, appVars, connVars, envVars, TypeOK
<1> QED BY <1>1, <1>2

-----------------------------------------------------------------------------
(***************************************************************************)
(* The inductive invariant.                                                *)
(***************************************************************************)
Lag     == Buildable(cfg) /\ (\A t \in Threads : pc[t] # "cfgRebuild") =>
              handler = [cfg |-> cfg, model |-> model]

\* Boot establishes the invariant: the front end is built on the boot model.
LEMMA InitIInv == Init => IInv
<1> SUFFICES ASSUME Init PROVE IInv
  OBVIOUS
<1> USE DEF Init
<1>1. TypeOK
  <2>1. BootCfg \in Config /\ NoModel \in Model
    BY DEF BootCfg, Config, NoModel, Model
  <2>2. handler \in FrontEnd /\ NoReq \in [st : {"none", "running", "answered"},
                                           snap : FrontEnd, fns : Nat, scfg : Nat]
    BY <2>1 DEF FrontEnd, NoReq
  <2>3. pc \in [Threads -> Places]
    BY DEF Threads, Places
  <2>4. backoff \in 1 .. MaxBackoff
    BY BackoffCap
  <2>5. listening \in BOOLEAN /\ firstConnect \in BOOLEAN
    BY Zenon
  <2> QED
    BY <2>1, <2>2, <2>3, <2>4, <2>5 DEF TypeOK, Places, NoLocals
<1>2. LockAndVersions
  BY DEF LockAndVersions, Threads, Critical, InSchema, NoModel
<1>3. OnlyBuildableServed
  BY DEF OnlyBuildableServed, Buildable, BootCfg, NoReq
<1> QED
  BY <1>1, <1>2, <1>3 DEF IInv

\* A step that leaves the application, the database's version and the requests
\* alone, and moves goroutines only outside the critical section, keeps it.
LEMMA OutsideStep ==
    ASSUME IInv, TypeOK',
           UNCHANGED <<mu, cfg, model, handler, settings, db, got, req>>,
           \A t \in Threads : pc'[t] = pc[t] \/ (pc[t] \notin Critical /\ pc'[t] \notin Critical)
    PROVE  IInv'
<1>1. LockAndVersions'
  BY DEF IInv, LockAndVersions, Critical, InSchema
<1>2. OnlyBuildableServed'
  BY DEF IInv, OnlyBuildableServed, Buildable
<1>3. Lag'
  BY DEF IInv, Lag, Buildable, Critical
<1> QED
  BY <1>1, <1>2, <1>3 DEF IInv, Lag

\* A reload step keeps the invariant: the lock admits one introspection at a
\* time, so what it read is newer than the model it replaces.
LEMMA ReloadStepIInv ==
    ASSUME IInv, NEW t \in Threads, ReloadStep(t)
    PROVE  IInv'
<1>a. TypeOK /\ TypeOK'
  BY ReloadStepTyped DEF IInv
<1>b. /\ pc \in [Threads -> Places] /\ got \in [Threads -> Locals]
      /\ db \in Nat /\ model \in Model /\ handler \in FrontEnd /\ cfg \in Config
      /\ settings \in [cfg : Nat, fns : Nat] /\ mu \in Threads \cup {"free"}
  BY <1>a DEF TypeOK, Places, Locals
<1>c. LockAndVersions /\ OnlyBuildableServed /\ Lag
  BY DEF IInv, Lag
<1> USE DEF Goto, appVars, connVars, envVars
<1>1. CASE SchemaLock(t)
  <2>1. LockAndVersions'
    BY <1>1, <1>b, <1>c DEF SchemaLock, LockAndVersions, Critical, InSchema, Threads
  <2>2. OnlyBuildableServed' /\ Lag'
    BY <1>1, <1>b, <1>c DEF SchemaLock, OnlyBuildableServed, Lag, Buildable
  <2> QED BY <1>a, <2>1, <2>2 DEF IInv, Lag
<1>2. CASE ReadRelations(t)
  <2>0. got'[t].rel = db /\ \A u \in Threads \ {t} : got'[u] = got[u]
    BY <1>2, <1>b DEF ReadRelations, Locals
  <2>1. LockAndVersions'
    BY <1>2, <1>b, <1>c, <2>0
       DEF ReadRelations, LockAndVersions, Critical, InSchema, Model, FrontEnd, Threads
  <2>2. OnlyBuildableServed' /\ Lag'
    BY <1>2, <1>b, <1>c DEF ReadRelations, OnlyBuildableServed, Lag, Buildable
  <2> QED BY <1>a, <2>1, <2>2 DEF IInv, Lag
<1>3. CASE ReadFunctions(t)
  <2>0. settings'.fns = db
    BY <1>3, <1>b DEF ReadFunctions
  <2>1. LockAndVersions'
    BY <1>3, <1>b, <1>c, <2>0
       DEF ReadFunctions, LockAndVersions, Critical, InSchema, Model, FrontEnd, Threads
  <2>2. OnlyBuildableServed' /\ Lag'
    BY <1>3, <1>b, <1>c DEF ReadFunctions, OnlyBuildableServed, Lag, Buildable
  <2> QED BY <1>a, <2>1, <2>2 DEF IInv, Lag
<1>4. CASE ReadColumns(t)
  <2>0. /\ model' = [rel |-> got[t].rel, col |-> db]
        /\ handler' = IF Buildable(cfg) THEN [cfg |-> cfg, model |-> model'] ELSE handler
        /\ mu' = "free" /\ pc[t] = "readCols"
        /\ UNCHANGED <<cfg, settings, db, req>>
    BY <1>4 DEF ReadColumns, RebuildLocked
  <2>1. /\ pc' = [pc EXCEPT ![t] = IF t = "signal" THEN "idle" ELSE resume]
        /\ got' = [got EXCEPT ![t] = NoLocals]
        /\ resume \in {"listen", "wait"}
    BY <1>4, <1>a DEF ReadColumns, RebuildLocked, Return, TypeOK
  <2>2. mu = t /\ \A u \in Threads \ {t} : pc[u] \notin Critical /\ pc'[u] = pc[u]
    BY <2>0, <2>1, <1>b, <1>c DEF LockAndVersions, Critical, InSchema
  <2>3. pc'[t] \notin Critical
    BY <2>1, <1>b DEF Critical, InSchema
  <2>4. LockAndVersions'
    <3>1. model.rel <= model'.rel /\ model.col <= model'.col /\ model'.rel <= model'.col
          /\ model'.col <= db
      BY <2>0, <1>b, <1>c DEF LockAndVersions, Model, Locals
    <3>2. handler'.model.rel <= model'.rel /\ handler'.model.col <= model'.col
      BY <2>0, <3>1, <1>b, <1>c DEF LockAndVersions, Model, Locals, FrontEnd
    <3>3. \A u \in Threads : (mu' = u <=> pc'[u] \in Critical)
      BY <2>0, <2>2, <2>3 DEF Threads
    <3>4. \A u \in Threads : pc'[u] \notin {"readFns", "readCols"}
      BY <2>2, <2>3 DEF Critical, InSchema
    <3> QED BY <3>1, <3>2, <3>3, <3>4, <2>0, <1>c DEF LockAndVersions
  <2>5. OnlyBuildableServed' /\ Lag'
    <3>1. Buildable(handler'.cfg)
      BY <2>0, <1>c DEF OnlyBuildableServed, Buildable
    <3>2. Lag'
      BY <2>0 DEF Lag, Buildable
    <3> QED BY <3>1, <3>2, <2>0, <1>c DEF OnlyBuildableServed, Buildable
  <2> QED BY <1>a, <2>4, <2>5 DEF IInv, Lag
<1>5. CASE IntrospectFail(t)
  <2>1. /\ pc' = [pc EXCEPT ![t] = IF t = "signal" THEN "idle" ELSE resume]
        /\ got' = [got EXCEPT ![t] = NoLocals]
        /\ resume \in {"listen", "wait"} /\ pc[t] \in InSchema /\ mu' = "free"
        /\ UNCHANGED <<cfg, model, handler, settings, db, req>>
    BY <1>5, <1>a DEF IntrospectFail, Return, TypeOK
  <2>2. mu = t /\ \A u \in Threads \ {t} : pc[u] \notin Critical /\ pc'[u] = pc[u]
    BY <2>1, <1>b, <1>c DEF LockAndVersions, Critical
  <2>3. pc'[t] \notin Critical
    BY <2>1, <1>b DEF Critical, InSchema
  <2>4. LockAndVersions'
    BY <2>1, <2>2, <2>3, <1>c DEF LockAndVersions, Critical, InSchema, Threads
  <2>5. OnlyBuildableServed' /\ Lag'
    <3>1. pc[t] # "cfgRebuild" /\ \A u \in Threads \ {t} : pc[u] # "cfgRebuild"
      BY <2>1, <2>2 DEF InSchema, Critical
    <3> QED BY <2>1, <3>1, <1>c DEF OnlyBuildableServed, Lag, Buildable
  <2> QED BY <1>a, <2>4, <2>5 DEF IInv, Lag
<1>6. CASE ConfigLoad(t)
  <2>1. /\ pc[t] = "cfgLoad" /\ UNCHANGED <<mu, cfg, model, handler, settings, db, req>>
        /\ \A u \in Threads \ {t} : pc'[u] = pc[u] /\ got'[u] = got[u]
        /\ pc'[t] \in {"idle", "listen", "wait", "cfgLock"}
    BY <1>6, <1>a, <1>b DEF ConfigLoad, Return, TypeOK
  <2>2. LockAndVersions'
    BY <2>1, <1>c DEF LockAndVersions, Critical, InSchema
  <2>3. OnlyBuildableServed' /\ Lag'
    BY <2>1, <1>c DEF OnlyBuildableServed, Lag, Buildable
  <2> QED BY <1>a, <2>2, <2>3 DEF IInv, Lag
<1>7. CASE ConfigApply(t)
  <2>1. /\ pc[t] = "cfgLock" /\ mu = "free" /\ mu' = t
        /\ UNCHANGED <<model, handler, db, req, got>>
        /\ pc' = [pc EXCEPT ![t] = "cfgRebuild"]
        /\ settings'.fns = settings.fns
    BY <1>7, <1>b DEF ConfigApply
  <2>2. LockAndVersions'
    BY <2>1, <1>b, <1>c DEF LockAndVersions, Critical, InSchema, Threads
  <2>3. OnlyBuildableServed' /\ Lag'
    BY <2>1, <1>b, <1>c DEF OnlyBuildableServed, Lag, Buildable
  <2> QED BY <1>a, <2>2, <2>3 DEF IInv, Lag
<1>8. CASE ConfigRebuild(t)
  <2>0. /\ handler' = IF Buildable(cfg) THEN [cfg |-> cfg, model |-> model] ELSE handler
        /\ mu' = "free" /\ pc[t] = "cfgRebuild"
        /\ UNCHANGED <<cfg, model, settings, db, req>>
    BY <1>8 DEF ConfigRebuild, RebuildLocked
  <2>1. /\ pc' = [pc EXCEPT ![t] = IF t = "signal" THEN "idle" ELSE resume]
        /\ got' = [got EXCEPT ![t] = NoLocals]
        /\ resume \in {"listen", "wait"}
    BY <1>8, <1>a DEF ConfigRebuild, RebuildLocked, Return, TypeOK
  <2>2. mu = t /\ \A u \in Threads \ {t} : pc[u] \notin Critical /\ pc'[u] = pc[u]
    BY <2>0, <2>1, <1>b, <1>c DEF LockAndVersions, Critical, InSchema
  <2>3. pc'[t] \notin Critical
    BY <2>1, <1>b DEF Critical, InSchema
  <2>4. LockAndVersions'
    <3>1. handler'.model.rel <= model.rel /\ handler'.model.col <= model.col
      BY <2>0, <1>b, <1>c DEF LockAndVersions, Model, FrontEnd
    <3>2. \A u \in Threads : (mu' = u <=> pc'[u] \in Critical)
      BY <2>0, <2>2, <2>3 DEF Threads
    <3>3. \A u \in Threads : pc'[u] \notin {"readFns", "readCols"}
      BY <2>2, <2>3 DEF Critical, InSchema
    <3> QED BY <3>1, <3>2, <3>3, <2>0, <1>c DEF LockAndVersions
  <2>5. OnlyBuildableServed' /\ Lag'
    <3>1. Buildable(handler'.cfg)
      BY <2>0, <1>c DEF OnlyBuildableServed, Buildable
    <3>2. Lag'
      BY <2>0 DEF Lag, Buildable
    <3> QED BY <3>1, <3>2, <2>0, <1>c DEF OnlyBuildableServed, Buildable
  <2> QED BY <1>a, <2>4, <2>5 DEF IInv, Lag
<1> QED
  BY <1>1, <1>2, <1>3, <1>4, <1>5, <1>6, <1>7, <1>8 DEF ReloadStep

\* Every step of the server keeps the invariant.
LEMMA NextIInv == IInv /\ [Next]_vars => IInv'
<1> SUFFICES ASSUME IInv, [Next]_vars
             PROVE  IInv'
  OBVIOUS
<1>a. TypeOK /\ TypeOK'
  BY NextTyped DEF IInv
<1>b. pc \in [Threads -> Places] /\ "signal" \in Threads /\ "listener" \in Threads
  BY <1>a DEF TypeOK, Places, Threads
<1>c. LockAndVersions /\ OnlyBuildableServed /\ Lag
  BY DEF IInv, Lag
<1> USE DEF appVars, connVars, envVars
<1>1. ASSUME NEW t \in Threads, ReloadStep(t)
      PROVE  IInv'
  BY <1>1, ReloadStepIInv
<1>2. ASSUME NEW s \in Signals, SendSignal(s)
      PROVE  IInv'
  BY <1>2, <1>a, OutsideStep DEF SendSignal
<1>3. CASE TakeSignal
  BY <1>3, <1>a, <1>b, OutsideStep DEF TakeSignal, Begin, Goto, Critical, InSchema
<1>4. CASE WaitBackoff
  BY <1>4, <1>a, <1>b, OutsideStep DEF WaitBackoff, Goto, Critical, InSchema
<1>5. CASE Connect
  BY <1>5, <1>a, <1>b, OutsideStep DEF Connect, Begin, Goto, Critical, InSchema
<1>6. CASE IssueListen
  BY <1>6, <1>a, <1>b, OutsideStep DEF IssueListen, Goto, Critical, InSchema
<1>7. CASE TakeNotification
  <2>1. DbNotifyAction(Head(queue).payload) \notin Critical
    BY DEF DbNotifyAction, Critical, InSchema
  <2>2. pc["listener"] \notin Critical
    BY <1>7 DEF TakeNotification, Critical, InSchema
  <2> QED
    BY <1>7, <1>a, <1>b, <2>1, <2>2, OutsideStep DEF TakeNotification, Begin, Goto
<1>8. CASE LostConnection
  BY <1>8, <1>a, <1>b, OutsideStep DEF LostConnection, Goto, Critical, InSchema
<1>9. CASE ConnectFail
  BY <1>9, <1>a, <1>b, OutsideStep DEF ConnectFail, Goto, Critical, InSchema
<1>10. CASE ListenFail
  BY <1>10, <1>a, <1>b, OutsideStep DEF ListenFail, Goto, Critical, InSchema
<1>11. CASE Drop
  BY <1>11, <1>a, OutsideStep DEF Drop
<1>12. CASE Ddl
  <2>1. db' = db + 1 /\ UNCHANGED <<mu, cfg, model, handler, settings, pc, got, req>>
    BY <1>12, Zenon DEF Ddl
  <2>2. db \in Nat /\ model \in Model /\ settings \in [cfg : Nat, fns : Nat]
        /\ got \in [Threads -> Locals]
    BY <1>a DEF TypeOK, Locals
  <2>3. LockAndVersions'
    BY <2>1, <2>2, <1>c DEF LockAndVersions, Model, Locals
  <2> QED
    BY <1>a, <2>1, <2>3, <1>c DEF IInv, Lag, OnlyBuildableServed, Buildable
<1>13. ASSUME NEW p \in Payloads, Notify(p)
       PROVE  IInv'
  BY <1>13, <1>a, OutsideStep DEF Notify
<1>14. ASSUME NEW k \in Kinds, EditConfig(k)
       PROVE  IInv'
  BY <1>14, <1>a, OutsideStep DEF EditConfig
<1>15. ASSUME NEW r \in Requests, StartRequest(r) \/ ExecuteRequest(r) \/ LogRequest(r)
       PROVE  IInv'
  <2>1. UNCHANGED <<mu, cfg, model, handler, settings, db, pc, got>>
    BY <1>15 DEF StartRequest, ExecuteRequest, LogRequest
  <2>2. LockAndVersions' /\ Lag'
    BY <2>1, <1>c DEF LockAndVersions, Lag, Buildable
  <2>3. OnlyBuildableServed'
    <3>1. req \in [Requests -> [st : {"none", "running", "answered"},
                                snap : FrontEnd, fns : Nat, scfg : Nat]]
      BY <1>a DEF TypeOK
    <3>2. Buildable(req'[r].snap.cfg)
      <4>1. CASE StartRequest(r)
        BY <4>1, <3>1, <1>c DEF StartRequest, OnlyBuildableServed, NoReq
      <4>2. CASE ExecuteRequest(r)
        BY <4>2, <3>1, <1>c DEF ExecuteRequest, OnlyBuildableServed
      <4>3. CASE LogRequest(r)
        BY <4>3, <3>1 DEF LogRequest, NoReq, Buildable, BootCfg
      <4> QED BY <1>15, <4>1, <4>2, <4>3
    <3>3. \A q \in Requests \ {r} : req'[q] = req[q]
      BY <1>15, <3>1 DEF StartRequest, ExecuteRequest, LogRequest
    <3> QED
      BY <2>1, <3>2, <3>3, <1>c DEF OnlyBuildableServed, Buildable
  <2> QED BY <1>a, <2>2, <2>3 DEF IInv, Lag
<1>16. CASE UNCHANGED vars
  BY <1>16, <1>a, OutsideStep DEF vars
<1> QED
  BY <1>1, <1>2, <1>3, <1>4, <1>5, <1>6, <1>7, <1>8, <1>9, <1>10, <1>11, <1>12, <1>13,
     <1>14, <1>15, <1>16 DEF Next, ListenerStep

-----------------------------------------------------------------------------
(***************************************************************************)
(* The functions of the backend against the model a request was planned on.*)
(***************************************************************************)

\* A step that touches neither the model, the functions nor the requests, and
\* brings no goroutine to the column queries.
LEMMA FnsQuiet ==
    ASSUME FnsInv, model' = model, settings'.fns = settings.fns, req' = req,
           \A t \in Threads : pc'[t] = "readCols" => pc[t] = "readCols" /\ got'[t] = got[t]
    PROVE  FnsInv'
BY DEF FnsInv, FunctionsNotOlder

\* The steps of a reload.
LEMMA ReloadStepFns ==
    ASSUME IInv, FnsInv, NEW t \in Threads, ReloadStep(t)
    PROVE  FnsInv'
<1>a. /\ pc \in [Threads -> Places] /\ got \in [Threads -> Locals] /\ db \in Nat
      /\ settings \in [cfg : Nat, fns : Nat] /\ model \in Model /\ resume \in {"listen", "wait"}
      /\ req \in [Requests -> [st : {"none", "running", "answered"},
                               snap : FrontEnd, fns : Nat, scfg : Nat]]
  BY DEF IInv, TypeOK, Places, Locals
<1>b. settings.fns <= db
  BY DEF IInv, LockAndVersions
<1> USE DEF Goto, appVars, connVars, envVars
<1>1. CASE ReadFunctions(t)
  <2>1. /\ settings'.fns = db /\ model' = model /\ req' = req /\ got' = got
        /\ pc' = [pc EXCEPT ![t] = "readCols"]
    BY <1>1, <1>a DEF ReadFunctions
  <2>2. got[t].rel <= db
    BY <1>1 DEF ReadFunctions, IInv, LockAndVersions
  <2>3. model'.rel <= settings'.fns
    BY <2>1, <1>a, <1>b DEF FnsInv, Model
  <2>4. ASSUME NEW u \in Threads, pc'[u] = "readCols" PROVE got'[u].rel <= settings'.fns
    <3>1. CASE u = t  BY <3>1, <2>1, <2>2
    <3>2. CASE u # t
      <4>1. pc[u] = "readCols"  BY <3>2, <2>1, <2>4, <1>a
      <4>2. got[u].rel <= settings.fns /\ got[u].rel \in Nat
        BY <4>1, <1>a DEF FnsInv, Locals
      <4> QED BY <4>2, <2>1, <1>a, <1>b
    <3> QED BY <3>1, <3>2
  <2>5. ASSUME NEW r \in Requests, req'[r].st = "running"
        PROVE  req'[r].snap.model.rel <= settings'.fns
    <3>1. req[r].snap.model.rel <= settings.fns /\ req[r].snap.model.rel \in Nat
      BY <2>5, <2>1, <1>a DEF FnsInv, FrontEnd, Model
    <3> QED BY <3>1, <2>1, <1>a, <1>b
  <2>6. FunctionsNotOlder'
    BY <2>1 DEF FnsInv, FunctionsNotOlder
  <2> QED BY <2>3, <2>4, <2>5, <2>6 DEF FnsInv
<1>2. CASE ReadColumns(t)
  <2>1. /\ settings' = settings /\ req' = req /\ model'.rel = got[t].rel
        /\ pc[t] = "readCols"
    BY <1>2 DEF ReadColumns
  <2>2. /\ pc' = [pc EXCEPT ![t] = IF t = "signal" THEN "idle" ELSE resume]
        /\ got' = [got EXCEPT ![t] = NoLocals]
    BY <1>2 DEF ReadColumns, RebuildLocked, Return
  <2>3. model'.rel <= settings'.fns
    BY <2>1 DEF FnsInv
  <2>4. \A u \in Threads : pc'[u] = "readCols" => pc[u] = "readCols" /\ got'[u] = got[u]
    BY <2>2, <1>a
  <2> QED BY <2>1, <2>3, <2>4 DEF FnsInv, FunctionsNotOlder
<1>3. CASE ReadRelations(t)
  <2>1. \A u \in Threads : pc'[u] = "readCols" => pc[u] = "readCols" /\ got'[u] = got[u]
    BY <1>3, <1>a DEF ReadRelations
  <2> QED BY <1>3, <2>1, FnsQuiet DEF ReadRelations
<1>4. CASE SchemaLock(t)
  <2>1. \A u \in Threads : pc'[u] = "readCols" => pc[u] = "readCols" /\ got'[u] = got[u]
    BY <1>4, <1>a DEF SchemaLock
  <2> QED BY <1>4, <2>1, FnsQuiet DEF SchemaLock
<1>5. CASE IntrospectFail(t)
  <2>1. \A u \in Threads : pc'[u] = "readCols" => pc[u] = "readCols" /\ got'[u] = got[u]
    BY <1>5, <1>a DEF IntrospectFail, Return
  <2> QED BY <1>5, <2>1, FnsQuiet DEF IntrospectFail
<1>6. CASE ConfigLoad(t)
  <2>1. \A u \in Threads : pc'[u] = "readCols" => pc[u] = "readCols" /\ got'[u] = got[u]
    BY <1>6, <1>a DEF ConfigLoad, Return
  <2> QED BY <1>6, <2>1, FnsQuiet DEF ConfigLoad
<1>7. CASE ConfigApply(t)
  <2>1. \A u \in Threads : pc'[u] = "readCols" => pc[u] = "readCols" /\ got'[u] = got[u]
    BY <1>7, <1>a DEF ConfigApply
  <2>2. settings'.fns = settings.fns
    BY <1>7, <1>a DEF ConfigApply
  <2> QED BY <1>7, <2>1, <2>2, FnsQuiet DEF ConfigApply
<1>8. CASE ConfigRebuild(t)
  <2>1. \A u \in Threads : pc'[u] = "readCols" => pc[u] = "readCols" /\ got'[u] = got[u]
    BY <1>8, <1>a DEF ConfigRebuild, RebuildLocked, Return
  <2> QED BY <1>8, <2>1, FnsQuiet DEF ConfigRebuild
<1> QED
  BY <1>1, <1>2, <1>3, <1>4, <1>5, <1>6, <1>7, <1>8 DEF ReloadStep

\* The steps of a request.
LEMMA RequestStepFns ==
    ASSUME IInv, FnsInv, NEW r \in Requests,
           StartRequest(r) \/ ExecuteRequest(r) \/ LogRequest(r)
    PROVE  FnsInv'
<1>a. /\ settings \in [cfg : Nat, fns : Nat] /\ model \in Model /\ handler \in FrontEnd
      /\ req \in [Requests -> [st : {"none", "running", "answered"},
                               snap : FrontEnd, fns : Nat, scfg : Nat]]
  BY DEF IInv, TypeOK
<1>1. model' = model /\ settings' = settings /\ pc' = pc /\ got' = got
  BY DEF StartRequest, ExecuteRequest, LogRequest, appVars
<1>2. \A q \in Requests \ {r} : req'[q] = req[q]
  BY <1>a DEF StartRequest, ExecuteRequest, LogRequest
<1>3. /\ req'[r].st = "running" => req'[r].snap.model.rel <= settings.fns
      /\ req'[r].st = "answered" => req'[r].fns >= req'[r].snap.model.rel
  <2>1. CASE StartRequest(r)
    <3>1. req'[r].st = "running" /\ req'[r].snap = handler
      BY <2>1, <1>a DEF StartRequest, NoReq
    <3>2. handler.model.rel <= settings.fns
      BY <1>a DEF IInv, LockAndVersions, FnsInv, FrontEnd, Model
    <3> QED BY <3>1, <3>2
  <2>2. CASE ExecuteRequest(r)
    <3>1. /\ req[r].st = "running" /\ req'[r].st = "answered"
          /\ req'[r].snap = req[r].snap /\ req'[r].fns = settings.fns
      BY <2>2, <1>a DEF ExecuteRequest
    <3> QED BY <3>1, <1>a DEF FnsInv, FrontEnd, Model
  <2>3. CASE LogRequest(r)
    BY <2>3, <1>a DEF LogRequest, NoReq
  <2> QED BY <2>1, <2>2, <2>3
<1> QED
  BY <1>1, <1>2, <1>3 DEF FnsInv, FunctionsNotOlder

\* Every step keeps the inductive form.
LEMMA NextFns == IInv /\ FnsInv /\ [Next]_vars => FnsInv'
<1> SUFFICES ASSUME IInv, FnsInv, [Next]_vars PROVE FnsInv'
  OBVIOUS
<1>a. pc \in [Threads -> Places]
  BY DEF IInv, TypeOK, Places
<1>1. ASSUME NEW t \in Threads, ReloadStep(t) PROVE FnsInv'
  BY <1>1, ReloadStepFns
<1>2. ASSUME NEW r \in Requests, StartRequest(r) \/ ExecuteRequest(r) \/ LogRequest(r)
      PROVE  FnsInv'
  BY <1>2, RequestStepFns
<1> DEFINE Elsewhere == /\ model' = model /\ settings' = settings /\ req' = req /\ got' = got
                        /\ \A t \in Threads : pc'[t] = "readCols" => pc[t] = "readCols"
<1>3. Elsewhere => FnsInv'
  BY FnsQuiet
<1>4. ASSUME TakeSignal PROVE Elsewhere
  BY <1>4, <1>a DEF TakeSignal, Begin, Goto, appVars
<1>5. ASSUME ListenerStep \/ ConnectFail \/ ListenFail PROVE Elsewhere
  <2>1. CASE Connect
    BY <2>1, <1>a DEF Connect, Begin, Goto, appVars
  <2>2. CASE TakeNotification
    BY <2>2, <1>a DEF TakeNotification, DbNotifyAction, Begin, Goto, appVars
  <2>3. CASE WaitBackoff \/ IssueListen \/ LostConnection \/ ConnectFail \/ ListenFail
    BY <2>3, <1>a DEF WaitBackoff, IssueListen, LostConnection, ConnectFail, ListenFail,
                      Goto, appVars
  <2> QED BY <1>5, <2>1, <2>2, <2>3 DEF ListenerStep
<1>6. ASSUME \/ \E s \in Signals : SendSignal(s)
             \/ Drop \/ Ddl
             \/ \E p \in Payloads : Notify(p)
             \/ \E k \in Kinds : EditConfig(k)
      PROVE  Elsewhere
  BY <1>6 DEF SendSignal, Drop, Ddl, Notify, EditConfig, appVars
<1>7. ASSUME UNCHANGED vars PROVE Elsewhere
  BY <1>7 DEF vars, appVars
<1> QED
  BY <1>1, <1>2, <1>3, <1>4, <1>5, <1>6, <1>7 DEF Next

-----------------------------------------------------------------------------
(***************************************************************************)
(* Theorems.                                                               *)
(***************************************************************************)

\* Every reachable state is well typed and satisfies the inductive invariant,
\* whatever the numbers of requests, signals, notifications and failures.
THEOREM ReloadInvariant == Spec => []IInv
BY InitIInv, NextIInv, PTL DEF Spec

\* Every variable of the reload machinery keeps its type in every reachable state.
THEOREM ReloadTypeCorrect == Spec => []TypeOK
<1>1. IInv => TypeOK  BY DEF IInv
<1> QED BY <1>1, ReloadInvariant, PTL

\* app.mu is held exactly inside the reloads' critical sections, and an
\* introspection under way never holds catalogs older than the current model.
THEOREM ReloadLockDiscipline == Spec => []LockAndVersions
<1>1. IInv => LockAndVersions  BY DEF IInv
<1> QED BY <1>1, ReloadInvariant, PTL

\* A configuration the attach functions refuse is never served.
THEOREM RefusedConfigNeverServed == Spec => []OnlyBuildableServed
<1>1. IInv => OnlyBuildableServed  BY DEF IInv
<1> QED BY <1>1, ReloadInvariant, PTL

\* With no reload under way and a configuration that builds, the front end is
\* built from the current configuration and the current model.
THEOREM ServedAgreesWithLoaded == Spec => []ServedIsCurrent
<1>1. IInv => ServedIsCurrent
  <2> SUFFICES ASSUME IInv, mu = "free", Buildable(cfg)
               PROVE  handler = [cfg |-> cfg, model |-> model]
    BY DEF ServedIsCurrent
  <2>1. \A t \in Threads : pc[t] # "cfgRebuild"
    BY DEF IInv, LockAndVersions, Threads, Critical
  <2> QED BY <2>1 DEF IInv
<1> QED BY <1>1, ReloadInvariant, PTL

\* No interleaving of reloads, signals, notifications and DDL ever makes the
\* server go back to an older schema.
THEOREM ServedSchemaNeverGoesBack == Spec => ServedSchemaMonotone
<1> DEFINE Forward == /\ handler'.model.rel >= handler.model.rel
                      /\ handler'.model.col >= handler.model.col
<1>1. IInv /\ IInv' /\ [Next]_vars => [Forward]_vars
  <2> SUFFICES ASSUME IInv, IInv', [Next]_vars
               PROVE  Forward \/ UNCHANGED vars
    OBVIOUS
  <2>a. handler \in FrontEnd /\ model \in Model /\ got \in [Threads -> Locals] /\ db \in Nat
    BY DEF IInv, TypeOK, Locals
  <2>b. handler' = handler => Forward
    BY <2>a DEF FrontEnd, Model
  <2>1. ASSUME NEW t \in Threads, ReadColumns(t)
        PROVE  Forward
    <3>1. handler' = handler \/ handler'.model = [rel |-> got[t].rel, col |-> db]
      BY <2>1 DEF ReadColumns, RebuildLocked
    <3>2. /\ model.rel <= model.col /\ model.col <= got[t].rel /\ model.col <= db
          /\ handler.model.rel <= model.rel /\ handler.model.col <= model.col
      BY <2>1 DEF ReadColumns, IInv, LockAndVersions
    <3> QED BY <3>1, <3>2, <2>a, <2>b DEF FrontEnd, Model, Locals
  <2>2. ASSUME NEW t \in Threads, ConfigRebuild(t)
        PROVE  Forward
    <3>1. handler' = handler \/ handler'.model = model
      BY <2>2 DEF ConfigRebuild, RebuildLocked
    <3>2. handler.model.rel <= model.rel /\ handler.model.col <= model.col
      BY DEF IInv, LockAndVersions
    <3> QED BY <3>1, <3>2, <2>a, <2>b DEF FrontEnd, Model
  <2>3. \/ handler' = handler
        \/ \E t \in Threads : ReadColumns(t) \/ ConfigRebuild(t)
    BY DEF Next, vars, ReloadStep, SchemaLock, ReadRelations, ReadFunctions,
           IntrospectFail, ConfigLoad, ConfigApply, SendSignal, TakeSignal,
           ListenerStep, WaitBackoff, Connect, IssueListen, TakeNotification,
           LostConnection, ConnectFail, ListenFail, Drop, Ddl, Notify, EditConfig,
           StartRequest, ExecuteRequest, LogRequest, appVars
  <2> QED BY <2>1, <2>2, <2>3, <2>b
<1> QED BY <1>1, ReloadInvariant, PTL DEF Spec, ServedSchemaMonotone

\* No request ever runs with functions older than the relations it was planned
\* on, however reloads interleave with it and wherever they fail.
THEOREM FunctionsNeverOlder == Spec => []FunctionsNotOlder
<1>1. Init => FnsInv
  BY DEF Init, FnsInv, FunctionsNotOlder, NoModel, NoReq, Threads
<1>2. FnsInv => FunctionsNotOlder
  BY DEF FnsInv
<1> QED BY <1>1, <1>2, NextFns, ReloadInvariant, PTL DEF Spec
=============================================================================
