--------------------------- MODULE TransactProofs ---------------------------
(***************************************************************************)
(* Proofs about the transaction model, for every number of requests,       *)
(* connections, keys and request shapes.                                   *)
(***************************************************************************)
EXTENDS Transact, FiniteSetTheorems, TLAPS

\* The window of a count is a count.
LEMMA WindowIsNat ==
    ASSUME NEW n \in Nat, NEW s \in Shape
    PROVE  Window(n, s) \in Nat
BY DEF Window, Shape

\* Counting the live rows of a table gives a natural number.
LEMMA LiveIsNat ==
    ASSUME NEW t
    PROVE  /\ Live(t) \subseteq Ids
           /\ IsFiniteSet(Live(t))
           /\ Cardinality(Live(t)) \in Nat
<1>1. Live(t) \subseteq Ids
  BY DEF Live
<1> QED
  BY <1>1, TransactAssumption, FS_Subset, FS_CardinalityType

\* Sets of keys are finite.
LEMMA KeysAreFinite ==
    ASSUME NEW S \in SUBSET Ids
    PROVE  IsFiniteSet(S) /\ Cardinality(S) \in Nat
BY TransactAssumption, FS_Subset, FS_CardinalityType

\* Constants of the model: no shape has an unknown kind, the absent value is
\* none of the others.
LEMMA Constants ==
    /\ \A s \in Shapes : s \in Shape
    /\ None \notin Reqs /\ None \notin Conns /\ None \notin Nat
    /\ None \notin Tables /\ None \notin Response
BY TransactAssumption

-----------------------------------------------------------------------------
(* Types.                                                                  *)

\* The table once a request's writes are durable is a table.
LEMMA AppliedIsTable ==
    ASSUME TypeOK, NEW r \in Reqs
    PROVE  Applied(r) \in Tables
BY DEF Applied, TypeOK, Tables

\* A connection that is back in the pool has the state of a new one.
LEMMA FreshIsConn == Fresh \in ConnState
<1>1. Authenticator \in Roles
  BY DEF Roles
<1>2. Unset \in {Unset, "hook", "fn"} /\ {} \in SUBSET Ids /\ None \in Tables \cup {None}
  OBVIOUS
<1> QED
  BY <1>1, <1>2 DEF Fresh, ConnState

\* A refused request gives its connection back and is answered.
LEMMA RefuseTypes ==
    ASSUME TypeOK, NEW r \in Reqs, pc[r] \in Open, NEW k \in Refusals, Refuse(r, k)
    PROVE  TypeOK'
<1>1. conn[r] \in Conns /\ [kind |-> k, status |-> Unset] \in Response
  BY Constants DEF TypeOK, Response, Endings, Unset
<1>2. pool' \in [Conns -> ConnState]
  BY <1>1, FreshIsConn DEF TypeOK, Refuse, Ended
<1>3. /\ conn' = [conn EXCEPT ![r] = None] /\ pc' = [pc EXCEPT ![r] = "done"]
      /\ resp' = [resp EXCEPT ![r] = [kind |-> k, status |-> Unset]]
      /\ UNCHANGED <<table, shape, total, full, rows, affected, inserted,
                     hooked, ctrl, ran>>
  BY DEF Refuse, Release, Answer, Goto, outcome
<1> QED
  BY <1>1, <1>2, <1>3, Constants DEF TypeOK, PCs, Open

\* The initial state has its types.
LEMMA InitTypes == Init => TypeOK
<1> SUFFICES ASSUME Init PROVE TypeOK
  OBVIOUS
<1>1. table \in Tables
  BY DEF Init, Tables
<1>2. pool \in [Conns -> ConnState]
  BY FreshIsConn DEF Init
<1> QED
  BY <1>1, <1>2, Constants DEF Init, TypeOK, PCs, Open, Controls, Unset

\* Writing rows or setting response.status keeps a connection's type.
LEMMA ConnUpdates ==
    ASSUME NEW x \in ConnState, NEW ws \in SUBSET Ids, NEW st \in {Unset, "hook", "fn"}
    PROVE  /\ [x EXCEPT !.ws = ws] \in ConnState
           /\ [x EXCEPT !.status = st] \in ConnState
           /\ [x EXCEPT !.ws = ws, !.status = st] \in ConnState
BY DEF ConnState

\* Every step keeps the types.
LEMMA NextTypes == TypeOK /\ [Next]_vars => TypeOK'
<1> SUFFICES ASSUME TypeOK, [Next]_vars PROVE TypeOK'
  OBVIOUS
<1>1. CASE UNCHANGED vars
  BY <1>1 DEF vars, outcome, TypeOK
<1>2. ASSUME NEW r \in Reqs, Arrive(r) \/ Step(r) \/ Fault(r) PROVE TypeOK'
  <2>0. /\ shape[r] \in Shape /\ shape[r] \in Shapes /\ pc[r] \in PCs
        /\ conn[r] # None => conn[r] \in Conns /\ pool[conn[r]] \in ConnState
        /\ (conn[r] # None) = (pc[r] \in Open)
    BY Constants DEF TypeOK
  <2>1. CASE Arrive(r)
    BY <2>1, Constants DEF Arrive, TypeOK, Goto, PCs, Open, outcome
  <2>2. CASE Begin(r)
    <3>1. PICK c \in Conns : /\ \A q \in Reqs : conn[q] # c
                             /\ conn' = [conn EXCEPT ![r] = c]
      BY <2>2 DEF Begin
    <3> QED
      BY <2>2, <3>1, Constants DEF Begin, TypeOK, Goto, PCs, Open, outcome
  <2>3. CASE BeginFails(r)
    <3>1. [kind |-> "sql", status |-> Unset] \in Response
      BY DEF Response, Endings, Refusals, Unset
    <3> QED
      BY <2>3, <3>1, Constants DEF BeginFails, Answer, TypeOK, Goto, PCs, Open, outcome
  <2>4. CASE ApplySession(r)
    <3>0. pc[r] \in Open /\ conn[r] \in Conns /\ "sql" \in Refusals
      BY <2>0, <2>4 DEF ApplySession, Open, Refusals
    <3>1. CASE Refuse(r, "sql")
      BY <3>0, <3>1, RefuseTypes
    <3>2. CASE ~Refuse(r, "sql")
      <4> DEFINE Dressed(h) ==
            [role |-> IF shape[r].role = "" THEN pool[conn[r]].role ELSE shape[r].role,
             status |-> IF h = "status" THEN "hook" ELSE pool[conn[r]].status,
             ws |-> {},
             snap |-> IF Isolation(shape[r]) = "repeatable read" THEN table ELSE None]
      <4>1. PICK h \in Hooks :
              /\ pool' = [pool EXCEPT ![conn[r]] = Dressed(h)]
              /\ hooked' = [hooked EXCEPT ![r] = (h = "status")]
              /\ ran' = [ran EXCEPT ![r] = @ \cup {pool'[conn[r]].role}]
              /\ Goto(r, FirstStep(shape[r]))
              /\ UNCHANGED <<table, conn, shape, outcome, ctrl, resp>>
        BY <2>4, <3>2 DEF ApplySession
      <4>2. Dressed(h) \in ConnState
        BY <2>0, <3>0 DEF TypeOK, ConnState, Roles
      <4>3. pool' \in [Conns -> ConnState] /\ pool'[conn[r]].role \in Roles
        <5> HIDE DEF Dressed
        <5>1. pool' \in [Conns -> ConnState] /\ pool'[conn[r]] = Dressed(h)
          BY <3>0, <4>1, <4>2 DEF TypeOK
        <5> QED
          BY <4>2, <5>1 DEF ConnState
      <4>4. FirstStep(shape[r]) \in Open
        BY <2>0 DEF FirstStep, Open, Shape, Kinds, Writes
      <4> HIDE DEF Dressed
      <4>5. ran' \in [Reqs -> SUBSET Roles] /\ hooked' \in [Reqs -> BOOLEAN]
        BY <4>1, <4>3 DEF TypeOK
      <4> QED
        BY <2>4, <3>0, <4>1, <4>3, <4>4, <4>5, Constants DEF TypeOK, Goto, PCs, outcome
    <3> QED
      BY <3>1, <3>2
  <2>5. CASE ReadControls(r)
    <3>0. pc[r] \in Open /\ conn[r] \in Conns /\ "control" \in Refusals
      BY <2>0, <2>5 DEF ReadControls, Open, Refusals
    <3>1. CASE Refuse(r, "control")
      BY <3>0, <3>1, RefuseTypes
    <3>2. CASE ~Refuse(r, "control")
      <4> DEFINE After == CASE shape[r].kind = "read" ->
                                   IF shape[r].count THEN "count" ELSE "query"
                            [] shape[r].kind = "call" -> "commit"
                            [] shape[r].kind \in Writes -> "enforce"
      <4>1. PICK got \in Controls :
              /\ ctrl' = [ctrl EXCEPT ![r] = got]
              /\ pc' = [pc EXCEPT ![r] = After]
              /\ Mark(r)
              /\ UNCHANGED <<table, pool, conn, shape, outcome, hooked, resp>>
        BY <2>0, <2>5, <3>0, <3>2 DEF ReadControls, Goto, ConnState, Controls
      <4>2. After \in Open
        BY <2>0 DEF Shape, Kinds, Open, Writes
      <4>3. ran' \in [Reqs -> SUBSET Roles]
        BY <2>0, <3>0, <4>1 DEF Mark, TypeOK, ConnState
      <4> HIDE DEF After
      <4> QED
        BY <3>0, <4>1, <4>2, <4>3, Constants DEF TypeOK, PCs, outcome
    <3> QED
      BY <3>1, <3>2
  <2>6. CASE CountRows(r)
    <3>1. Cardinality(Live(View(r))) \in Nat /\ pc[r] \in Open /\ conn[r] \in Conns
      BY <2>0, <2>6, LiveIsNat DEF CountRows, Open
    <3>2. ran' \in [Reqs -> SUBSET Roles]
      BY <2>0, <2>6, <3>1 DEF CountRows, Mark, TypeOK, ConnState
    <3> QED
      BY <2>6, <3>1, <3>2, Constants DEF CountRows, TypeOK, Goto, PCs, Open
  <2>7. CASE Query(r)
    <3>1. /\ Cardinality(Live(View(r))) \in Nat /\ pc[r] \in Open /\ conn[r] \in Conns
          /\ Window(Cardinality(Live(View(r))), shape[r]) \in Nat
      BY <2>0, <2>7, LiveIsNat, WindowIsNat DEF Query, Open
    <3>2. ran' \in [Reqs -> SUBSET Roles]
      BY <2>0, <2>7, <3>1 DEF Query, Mark, TypeOK, ConnState
    <3>3. PICK st \in {Unset, "hook", "fn"} :
             pool' = [pool EXCEPT ![conn[r]].status = st]
      BY <2>0, <2>7, <3>1 DEF Query, ConnState
    <3>4. pool' \in [Conns -> ConnState]
      <4>1. [pool[conn[r]] EXCEPT !.status = st] \in ConnState
        BY <2>0, <3>1, ConnUpdates
      <4> QED
        BY <3>1, <3>3, <4>1 DEF TypeOK
    <3> QED
      BY <2>7, <3>1, <3>2, <3>4, Constants DEF Query, TypeOK, Goto, PCs, Open
  <2>8. CASE Stream(r)
    <3>1. pc[r] \in Open /\ conn[r] \in Conns
      BY <2>0, <2>8 DEF Stream, Open
    <3>2. ran' \in [Reqs -> SUBSET Roles]
      BY <2>0, <2>8, <3>1 DEF Stream, Mark, TypeOK, ConnState
    <3>3. pool' \in [Conns -> ConnState]
      BY <2>8, <3>1, FreshIsConn DEF Stream, Ended, TypeOK
    <3>4. /\ conn' = [conn EXCEPT ![r] = None] /\ pc' = [pc EXCEPT ![r] = "respond"]
          /\ UNCHANGED <<table, shape, total, full, rows, affected, inserted,
                         hooked, ctrl, resp>>
      BY <2>8 DEF Stream, Release, Goto, outcome
    <3> QED
      BY <3>1, <3>2, <3>3, <3>4, Constants DEF TypeOK, PCs, Open
  <2>9. CASE NoOp(r)
    <3>1. pc[r] \in Open /\ conn[r] \in Conns
      BY <2>0, <2>9 DEF NoOp, Open
    <3>3. pool' \in [Conns -> ConnState]
      BY <2>9, <3>1, FreshIsConn DEF NoOp, Ended, TypeOK
    <3> QED
      BY <2>9, <3>1, <3>3, Constants
      DEF NoOp, Release, TypeOK, Goto, PCs, Open, outcome
  <2>10. CASE Mutate(r)
    <3>0. pc[r] \in Open /\ conn[r] \in Conns /\ "sql" \in Refusals
      BY <2>0, <2>10 DEF Mutate, Open, Refusals
    <3>1. CASE Refuse(r, "sql")
      BY <3>0, <3>1, RefuseTypes
    <3>2. CASE ~Refuse(r, "sql")
      <4>1. PICK ws \in SUBSET Ids, live \in SUBSET Ids :
              /\ pool' = [pool EXCEPT ![conn[r]].ws = ws]
              /\ affected' = [affected EXCEPT ![r] = Cardinality(ws)]
              /\ full' = [full EXCEPT ![r] = Cardinality(ws)]
              /\ rows' = [rows EXCEPT ![r] = Window(Cardinality(ws), shape[r])]
              /\ inserted' = [inserted EXCEPT ![r] = Cardinality(ws \ live)]
              /\ Mark(r)
              /\ Goto(r, "controls")
              /\ UNCHANGED <<table, conn, shape, total, hooked, ctrl, resp>>
        <5>1. Live(View(r)) \in SUBSET Ids
          BY LiveIsNat
        <5> QED
          BY <2>10, <3>2, <5>1 DEF Mutate
      <4>2. /\ Cardinality(ws) \in Nat /\ Cardinality(ws \ live) \in Nat
            /\ Window(Cardinality(ws), shape[r]) \in Nat
        BY <2>0, KeysAreFinite, WindowIsNat
      <4>3. ran' \in [Reqs -> SUBSET Roles]
        BY <2>0, <3>0, <4>1 DEF Mark, TypeOK, ConnState
      <4>4. pool' \in [Conns -> ConnState]
        <5>1. [pool[conn[r]] EXCEPT !.ws = ws] \in ConnState
          BY <2>0, <3>0, ConnUpdates
        <5> QED
          BY <3>0, <4>1, <5>1 DEF TypeOK
      <4> QED
        BY <3>0, <4>1, <4>2, <4>3, <4>4, Constants DEF TypeOK, Goto, PCs, Open
    <3> QED
      BY <3>1, <3>2
  <2>11. CASE Call(r)
    <3>0. pc[r] \in Open /\ conn[r] \in Conns
      BY <2>0, <2>11 DEF Call, Open
    <3>1. PICK hit \in SUBSET Ids, n \in 0 .. Cardinality(Ids) :
              /\ \E st \in IF shape[r].portable THEN {pool[conn[r]].status}
                          ELSE {pool[conn[r]].status, "fn"} :
                   pool' = [pool EXCEPT ![conn[r]].ws = hit, ![conn[r]].status = st]
              /\ full' = [full EXCEPT ![r] = n]
              /\ rows' = [rows EXCEPT ![r] = Window(n, shape[r])]
              /\ total' = [total EXCEPT ![r] =
                    IF ~shape[r].count \/ shape[r].portable THEN None
                    ELSE IF Window(n, shape[r]) = 0 THEN 0 ELSE n]
      BY <2>11 DEF Call
    <3>6. PICK st \in {Unset, "hook", "fn"} :
            pool' = [pool EXCEPT ![conn[r]].ws = hit, ![conn[r]].status = st]
      BY <2>0, <3>0, <3>1 DEF ConnState
    <3>2. n \in Nat /\ Window(n, shape[r]) \in Nat
      BY <2>0, WindowIsNat
    <3>3. ran' \in [Reqs -> SUBSET Roles]
      BY <2>0, <2>11, <3>0 DEF Call, Mark, TypeOK, ConnState
    <3>4. pool' \in [Conns -> ConnState]
      <4>1. [pool[conn[r]] EXCEPT !.ws = hit, !.status = st] \in ConnState
        BY <2>0, <3>0, ConnUpdates
      <4> QED
        BY <3>0, <3>6, <4>1 DEF TypeOK
    <3>5. total' \in [Reqs -> Nat \cup {None}]
      BY <3>1, <3>2 DEF TypeOK
    <3> QED
      BY <2>11, <3>0, <3>1, <3>2, <3>3, <3>4, <3>5, Constants
      DEF Call, TypeOK, Goto, PCs, Open
  <2>12. CASE Enforce(r)
    <3>0. pc[r] \in Open /\ "max" \in Refusals /\ "singular" \in Refusals
      BY <2>12 DEF Enforce, Open, Refusals
    <3>1. CASE Refuse(r, "max") \/ Refuse(r, "singular")
      BY <3>0, <3>1, RefuseTypes
    <3>2. CASE ~(Refuse(r, "max") \/ Refuse(r, "singular"))
      BY <2>0, <2>12, <3>2, Constants DEF Enforce, TypeOK, Goto, PCs, Open, outcome
    <3> QED
      BY <3>1, <3>2
  <2>13. CASE Commit(r)
    <3>1. pc[r] \in Open /\ conn[r] \in Conns
      BY <2>0, <2>13 DEF Commit, Open
    <3>2. table' \in Tables
      BY <2>13, AppliedIsTable DEF Commit, TypeOK
    <3>3. pool' \in [Conns -> ConnState]
      BY <2>13, <3>1, FreshIsConn DEF Commit, Ended, TypeOK
    <3> QED
      BY <2>13, <3>1, <3>2, <3>3, Constants
      DEF Commit, Release, TypeOK, Goto, PCs, Open, outcome
  <2>14. CASE CommitFails(r)
    <3>1. pc[r] \in Open /\ conn[r] \in Conns
      BY <2>0, <2>14 DEF CommitFails, Open
    <3>2. table' \in Tables
      BY <2>14, AppliedIsTable DEF CommitFails, TypeOK
    <3>3. pool' \in [Conns -> ConnState]
      BY <2>14, <3>1, FreshIsConn DEF CommitFails, Ended, TypeOK
    <3>4. [kind |-> "commit", status |-> Unset] \in Response
      BY DEF Response, Endings, Unset
    <3> QED
      BY <2>14, <3>1, <3>2, <3>3, <3>4, Constants
      DEF CommitFails, Release, Answer, TypeOK, Goto, PCs, Open, outcome
  <2>15. CASE Respond(r)
    <3>1. RenderError(r) \in Endings
      BY DEF RenderError, Endings, RenderErrors
    <3>2. DefaultStatus(r) \in {"200", "201", "204", "206"}
      BY <2>0 DEF DefaultStatus, WriteStatus, Shape, Kinds, Writes
    <3>3. ctrl[r] \in Controls
      BY DEF TypeOK
    <3> DEFINE st == IF RenderError(r) # "ok" THEN Unset
                     ELSE IF ctrl[r] # Unset THEN ctrl[r] ELSE DefaultStatus(r)
    <3>5. st \in {Unset, "hook", "fn", "200", "201", "204", "206"}
      BY <3>2, <3>3 DEF Controls
    <3>6. resp' = [resp EXCEPT ![r] = [kind |-> RenderError(r), status |-> st]]
      BY <2>15 DEF Respond, Answer
    <3> HIDE DEF st
    <3>4. PICK a \in Response : resp' = [resp EXCEPT ![r] = a]
      BY <3>1, <3>5, <3>6 DEF Response
    <3> QED
      BY <2>0, <2>15, <3>4, Constants DEF Respond, Answer, TypeOK, Goto, PCs, Open, outcome
  <2>16. CASE StreamFails(r)
    <3>1. pc[r] \in Open /\ "internal" \in Refusals /\ Refuse(r, "internal")
      BY <2>16 DEF StreamFails, Open, Refusals
    <3> QED
      BY <3>1, RefuseTypes
  <2>17. CASE StatementFails(r)
    <3>1. pc[r] \in Open /\ "sql" \in Refusals /\ Refuse(r, "sql")
      BY <2>17 DEF StatementFails, Open, Refusals
    <3> QED
      BY <3>1, RefuseTypes
  <2>18. CASE Disconnect(r)
    <3>1. pc[r] \in Open /\ "gone" \in Refusals /\ Refuse(r, "gone")
      BY <2>18 DEF Disconnect, Open, Refusals
    <3> QED
      BY <3>1, RefuseTypes
  <2> QED
    BY <1>2, <2>1, <2>2, <2>3, <2>4, <2>5, <2>6, <2>7, <2>8, <2>9, <2>10, <2>11,
       <2>12, <2>13, <2>14, <2>15, <2>16, <2>17, <2>18 DEF Step, Fault
<1> QED
  BY <1>1, <1>2 DEF Next

\* THE type invariant: the connection pool's bookkeeping and the types hold in
\* every behaviour of the handlers.
THEOREM TransactTypeCorrect == Spec => []TypeOK
BY InitTypes, NextTypes, PTL DEF Spec

-----------------------------------------------------------------------------
(* A step of one request leaves the others alone, except for what it       *)
(* commits: the frame that the invariants below share.                     *)

Untouched(r) ==
    /\ \A q \in Reqs \ {r} :
          /\ conn'[q] = conn[q] /\ pc'[q] = pc[q]
          /\ total'[q] = total[q] /\ rows'[q] = rows[q] /\ full'[q] = full[q]
          /\ affected'[q] = affected[q]
          /\ hooked'[q] = hooked[q] /\ ctrl'[q] = ctrl[q]
          /\ ran'[q] = ran[q] /\ resp'[q] = resp[q]
    /\ shape' = shape
    /\ \A c \in Conns : c # conn[r] => pool'[c] = pool[c]
    /\ table' = table \/ (pc[r] = "commit" /\ table' = Applied(r))

\* A refusal touches only its own request and connection.
LEMMA RefuseIsLocal ==
    ASSUME TypeOK, NEW r \in Reqs, pc[r] \in Open, NEW k, Refuse(r, k)
    PROVE  /\ Untouched(r) /\ table' = table
           /\ conn'[r] = None /\ pc'[r] = "done"
           /\ pool'[conn[r]] = Fresh
           /\ resp'[r] = [kind |-> k, status |-> Unset]
           /\ UNCHANGED <<shape, total, rows, affected, hooked, ctrl, ran>>
<1>1. conn[r] \in Conns
  BY Constants DEF TypeOK
<1> QED
  BY <1>1 DEF TypeOK, Refuse, Untouched, Release, Answer, Goto, Ended, outcome

\* Every step touches only its own request and connection.
LEMMA StepIsLocal ==
    ASSUME TypeOK, NEW r \in Reqs, Arrive(r) \/ Step(r) \/ Fault(r)
    PROVE  Untouched(r)
<1>0. pc[r] \in Open => conn[r] \in Conns
  BY DEF TypeOK
<1>1. CASE \E k \in Refusals : pc[r] \in Open /\ Refuse(r, k)
  BY <1>1, RefuseIsLocal
<1>2. CASE ~\E k \in Refusals : pc[r] \in Open /\ Refuse(r, k)
  <2>0. \A k \in Refusals : pc[r] \in Open => ~Refuse(r, k)
    BY <1>2
  <2>1. CASE Arrive(r)
    BY <2>1 DEF Arrive, TypeOK, Untouched, Goto, outcome
  <2>2. CASE Begin(r)
    BY <2>2 DEF Begin, TypeOK, Untouched, Goto, outcome
  <2>3. CASE BeginFails(r)
    BY <2>3 DEF BeginFails, Answer, TypeOK, Untouched, Goto, outcome
  <2>4. CASE ApplySession(r)
    BY <1>0, <2>0, <2>4
    DEF ApplySession, TypeOK, Untouched, Goto, outcome, Open, Refusals
  <2>5. CASE ReadControls(r)
    BY <1>0, <2>0, <2>5
    DEF ReadControls, Mark, TypeOK, Untouched, Goto, outcome, Open, Refusals
  <2>6. CASE CountRows(r)
    BY <1>0, <2>6 DEF CountRows, Mark, TypeOK, Untouched, Goto, Open
  <2>7. CASE Query(r)
    BY <1>0, <2>7 DEF Query, Mark, TypeOK, Untouched, Goto, Open
  <2>8. CASE Stream(r)
    BY <1>0, <2>8 DEF Stream, Mark, TypeOK, Untouched, Goto, Open, outcome, Release, Ended
  <2>9. CASE NoOp(r)
    BY <1>0, <2>9 DEF NoOp, TypeOK, Untouched, Goto, Open, outcome, Release, Ended
  <2>10. CASE Mutate(r)
    BY <1>0, <2>0, <2>10 DEF Mutate, Mark, TypeOK, Untouched, Goto, Open, Refusals
  <2>11. CASE Call(r)
    BY <1>0, <2>11 DEF Call, Mark, TypeOK, Untouched, Goto, Open
  <2>12. CASE Enforce(r)
    BY <1>0, <2>0, <2>12 DEF Enforce, TypeOK, Untouched, Goto, Open, Refusals, outcome
  <2>13. CASE Commit(r)
    BY <1>0, <2>13 DEF Commit, TypeOK, Untouched, Goto, Open, outcome, Release, Ended
  <2>14. CASE CommitFails(r)
    BY <1>0, <2>14
    DEF CommitFails, Answer, TypeOK, Untouched, Goto, Open, outcome, Release, Ended
  <2>15. CASE Respond(r)
    BY <2>15 DEF Respond, Answer, TypeOK, Untouched, Goto, outcome
  <2>16. CASE StreamFails(r) \/ StatementFails(r) \/ Disconnect(r)
    BY <2>0, <2>16 DEF StreamFails, StatementFails, Disconnect, Open, Refusals
  <2> QED
    BY <2>1, <2>2, <2>3, <2>4, <2>5, <2>6, <2>7, <2>8, <2>9, <2>10, <2>11,
       <2>12, <2>13, <2>14, <2>15, <2>16 DEF Step, Fault
<1> QED
  BY <1>1, <1>2

-----------------------------------------------------------------------------
(* Sessions.                                                               *)

\* A connection in the pool is as new; one taken but not dressed is too; a
\* dressed one carries its request's role and only its request's steering.
Spare == \A c \in Conns : (\A r \in Reqs : conn[r] # c) => pool[c] = Fresh

SessionOf(r) ==
    /\ pc[r] \in {"idle", "begin", "session"} => ctrl[r] = Unset
    /\ pc[r] = "session" => pool[conn[r]] = Fresh
    /\ pc[r] \in Open \ {"session"} => pool[conn[r]].role = RoleOf(shape[r])
    /\ pc[r] \in Open =>
          /\ pool[conn[r]].status = "hook" => hooked[r]
          /\ pool[conn[r]].status = "fn" => shape[r].kind = "call"
    /\ pc[r] = "call" => shape[r].kind = "call"
    /\ ran[r] \subseteq {RoleOf(shape[r])}
    /\ ctrl[r] = "hook" => hooked[r]
    /\ ctrl[r] = "fn" => shape[r].kind = "call"

SessionInv == Spare /\ \A r \in Reqs : SessionOf(r)

\* The other requests keep their sessions, because no two share a connection.
LEMMA OthersKeepSession ==
    ASSUME TypeOK, SessionInv, NEW r \in Reqs, Untouched(r), NEW q \in Reqs \ {r}
    PROVE  SessionOf(q)'
<1>1. SessionOf(q)
  BY DEF SessionInv
<1>2. /\ conn'[q] = conn[q] /\ pc'[q] = pc[q] /\ shape'[q] = shape[q]
      /\ hooked'[q] = hooked[q] /\ ctrl'[q] = ctrl[q] /\ ran'[q] = ran[q]
  BY DEF Untouched
<1>3. pc[q] \in Open => pool'[conn[q]] = pool[conn[q]]
  <2>1. pc[q] \in Open => conn[q] \in Conns /\ conn[q] # None
    BY Constants DEF TypeOK
  <2>2. pc[q] \in Open => conn[q] # conn[r]
    BY <2>1 DEF TypeOK
  <2> QED
    BY <2>1, <2>2 DEF Untouched
<1> QED
  BY <1>1, <1>2, <1>3 DEF SessionOf, Open

\* The pool stays as new when the step's own connection is kept, or is given
\* back as new.
LEMMA SpareKept ==
    ASSUME TypeOK, TypeOK', SessionInv, NEW r \in Reqs, Untouched(r),
           \/ conn'[r] = conn[r]
           \/ conn[r] = None
           \/ pool'[conn[r]] = Fresh
    PROVE  Spare'
<1> SUFFICES ASSUME NEW c \in Conns, \A q \in Reqs : conn'[q] # c
             PROVE  pool'[c] = Fresh
  BY DEF Spare
<1>1. CASE c = conn[r]
  BY <1>1, Constants
<1>2. CASE c # conn[r]
  <2>1. \A q \in Reqs : conn[q] # c
    BY <1>2 DEF Untouched
  <2>2. pool'[c] = pool[c]
    BY <1>2 DEF Untouched
  <2> QED
    BY <2>1, <2>2 DEF SessionInv, Spare
<1> QED
  BY <1>1, <1>2

\* Every step keeps the session invariant.
LEMMA NextSession == TypeOK /\ TypeOK' /\ SessionInv /\ [Next]_vars => SessionInv'
<1> SUFFICES ASSUME TypeOK, TypeOK', SessionInv, [Next]_vars PROVE SessionInv'
  OBVIOUS
<1>1. CASE UNCHANGED vars
  BY <1>1 DEF vars, outcome, SessionInv, Spare, SessionOf
<1>2. ASSUME NEW r \in Reqs, Arrive(r) \/ Step(r) \/ Fault(r) PROVE SessionInv'
  <2>0. /\ Untouched(r) /\ SessionOf(r) /\ shape[r] \in Shape
        /\ pc[r] \in Open => conn[r] \in Conns /\ pool[conn[r]] \in ConnState
        /\ shape' = shape
    BY <1>2, StepIsLocal, Constants DEF SessionInv, TypeOK, Untouched
  <2> SUFFICES Spare' /\ SessionOf(r)'
    BY <2>0, OthersKeepSession DEF SessionInv
  <2> DEFINE Kept == \/ conn'[r] = conn[r] \/ conn[r] = None \/ pool'[conn[r]] = Fresh
  <2> SUFFICES Kept /\ SessionOf(r)'
    BY <2>0, SpareKept
  <2>1. CASE \E k \in Refusals : pc[r] \in Open /\ Refuse(r, k)
    <3>1. /\ pool'[conn[r]] = Fresh /\ pc'[r] = "done"
          /\ UNCHANGED <<hooked, ctrl, ran>>
      BY <2>1, RefuseIsLocal
    <3> QED
      BY <2>0, <3>1 DEF SessionOf, Open
  <2>2. CASE ~\E k \in Refusals : pc[r] \in Open /\ Refuse(r, k)
    <3>0. \A k \in Refusals : pc[r] \in Open => ~Refuse(r, k)
      BY <2>2
    <3>1. CASE Arrive(r) \/ BeginFails(r) \/ Respond(r)
      BY <2>0, <3>1
      DEF Arrive, BeginFails, Respond, Answer, Goto, TypeOK, SessionOf, Open
    <3>2. CASE Begin(r)
      <4>1. PICK c \in Conns : /\ \A q \in Reqs : conn[q] # c
                               /\ conn' = [conn EXCEPT ![r] = c]
        BY <3>2 DEF Begin
      <4>2. pool[c] = Fresh /\ conn'[r] = c /\ conn[r] = None
        BY <3>2, <4>1 DEF SessionInv, Spare, Begin, TypeOK, Open
      <4> QED
        BY <2>0, <3>2, <4>2
        DEF Begin, Goto, TypeOK, SessionOf, Open, Fresh, Unset
    <3>3. CASE ApplySession(r)
      <4>1. PICK h \in Hooks :
              /\ pool' = [pool EXCEPT ![conn[r]] =
                   [role |-> IF shape[r].role = "" THEN pool[conn[r]].role
                             ELSE shape[r].role,
                    status |-> IF h = "status" THEN "hook" ELSE pool[conn[r]].status,
                    ws |-> {},
                    snap |-> IF Isolation(shape[r]) = "repeatable read"
                             THEN table ELSE None]]
              /\ hooked' = [hooked EXCEPT ![r] = (h = "status")]
              /\ ran' = [ran EXCEPT ![r] = @ \cup {pool'[conn[r]].role}]
              /\ pc' = [pc EXCEPT ![r] = FirstStep(shape[r])]
              /\ UNCHANGED <<conn, ctrl>>
        BY <3>0, <3>3 DEF ApplySession, Open, Refusals, Goto
      <4>2. pool[conn[r]] = Fresh /\ conn[r] \in Conns /\ pc[r] = "session"
        BY <2>0, <3>3 DEF ApplySession, SessionOf, Open
      <4>8. PICK rl, st, sn :
              /\ rl = IF shape[r].role = "" THEN pool[conn[r]].role ELSE shape[r].role
              /\ st = IF h = "status" THEN "hook" ELSE pool[conn[r]].status
              /\ pool' = [pool EXCEPT ![conn[r]] =
                            [role |-> rl, status |-> st, ws |-> {}, snap |-> sn]]
        BY <4>1
      <4>3. /\ pool'[conn[r]].role = RoleOf(shape[r])
            /\ pool'[conn[r]].status = IF h = "status" THEN "hook" ELSE Unset
        <5>1. pool[conn[r]].role = Authenticator /\ pool[conn[r]].status = Unset
          BY <4>2 DEF Fresh
        <5>2. pool'[conn[r]].role = rl /\ pool'[conn[r]].status = st
          BY <4>2, <4>8 DEF TypeOK
        <5> QED
          BY <4>8, <5>1, <5>2 DEF RoleOf
      <4>4. FirstStep(shape[r]) \in Open \ {"session"}
        BY <2>0 DEF FirstStep, Open, Shape, Kinds, Writes
      <4>9. FirstStep(shape[r]) = "call" => shape[r].kind = "call"
        BY <2>0 DEF FirstStep, Shape, Kinds, Writes
      <4>5. ran'[r] \subseteq {RoleOf(shape[r])}
        <5>1. ran'[r] = ran[r] \cup {RoleOf(shape[r])}
          BY <4>1, <4>3 DEF TypeOK
        <5> QED
          BY <2>0, <5>1 DEF SessionOf
      <4>6. /\ conn'[r] = conn[r] /\ hooked'[r] = (h = "status")
            /\ pc'[r] = FirstStep(shape[r]) /\ ctrl'[r] = Unset
        BY <2>0, <4>1, <4>2 DEF TypeOK, SessionOf
      <4> QED
        BY <2>0, <4>3, <4>4, <4>5, <4>6, <4>9 DEF SessionOf, Unset, Open
    <3>4. CASE ReadControls(r)
      <4>0. conn[r] \in Conns /\ pc[r] = "controls"
        BY <2>0, <3>4 DEF ReadControls, Open
      <4>1. /\ \/ ctrl'[r] = pool[conn[r]].status
               \/ shape[r].kind = "call" /\ ctrl'[r] \in {"fn", "204"}
            /\ Mark(r)
            /\ UNCHANGED <<pool, conn, hooked>>
            /\ pc'[r] \in {"count", "query", "commit", "enforce"}
        BY <2>0, <3>0, <3>4, <4>0
        DEF ReadControls, Goto, Open, Refusals, TypeOK, Shape, Kinds, Writes
      <4>2. ran'[r] \subseteq {RoleOf(shape[r])}
        BY <2>0, <4>0, <4>1 DEF Mark, TypeOK, SessionOf, Open
      <4> QED
        BY <2>0, <4>0, <4>1, <4>2 DEF SessionOf, Open
    <3>5. CASE CountRows(r)
      <4>0. conn[r] \in Conns /\ pc[r] = "count"
        BY <2>0, <3>5 DEF CountRows, Open
      <4>1. ran'[r] \subseteq {RoleOf(shape[r])}
        BY <2>0, <3>5, <4>0 DEF CountRows, Mark, TypeOK, SessionOf, Open
      <4> QED
        BY <2>0, <3>5, <4>0, <4>1 DEF CountRows, Goto, TypeOK, SessionOf, Open
    <3>6. CASE Query(r)
      <4>0. conn[r] \in Conns /\ pc[r] = "query"
        BY <2>0, <3>6 DEF Query, Open
      <4>1. ran'[r] \subseteq {RoleOf(shape[r])}
        BY <2>0, <3>6, <4>0 DEF Query, Mark, TypeOK, SessionOf, Open
      <4>2. PICK st : /\ st = pool[conn[r]].status \/ (shape[r].kind = "call" /\ st = "fn")
                      /\ pool' = [pool EXCEPT ![conn[r]].status = st]
        BY <3>6 DEF Query
      <4>3. pool'[conn[r]].role = pool[conn[r]].role /\ pool'[conn[r]].status = st
        BY <2>0, <4>0, <4>2 DEF TypeOK, ConnState, Open
      <4>4. /\ pc'[r] \in {"stream", "controls"} /\ UNCHANGED <<conn, hooked, ctrl>>
        BY <3>6 DEF Query, Goto, TypeOK
      <4> QED
        BY <2>0, <4>0, <4>1, <4>2, <4>3, <4>4 DEF SessionOf, Open
    <3>7. CASE Stream(r) \/ NoOp(r) \/ Commit(r) \/ CommitFails(r)
      <4>0. conn[r] \in Conns /\ pc[r] \in Open \ {"session"}
        BY <2>0, <3>7 DEF Stream, NoOp, Commit, CommitFails, Open
      <4>1. ran'[r] \subseteq {RoleOf(shape[r])}
        BY <2>0, <3>7, <4>0
        DEF Stream, NoOp, Commit, CommitFails, Mark, TypeOK, SessionOf
      <4>2. /\ pool'[conn[r]] = Fresh /\ pc'[r] \in {"respond", "done"}
            /\ UNCHANGED <<hooked, ctrl>>
        BY <3>7, <4>0
        DEF Stream, NoOp, Commit, CommitFails, Ended, Goto, Answer, TypeOK
      <4> QED
        BY <2>0, <4>0, <4>1, <4>2 DEF SessionOf, Open
    <3>8. CASE Mutate(r)
      <4>0. conn[r] \in Conns /\ pc[r] = "mutate"
        BY <2>0, <3>8 DEF Mutate, Open
      <4>1. PICK ws : pool' = [pool EXCEPT ![conn[r]].ws = ws]
        BY <3>0, <3>8 DEF Mutate, Open, Refusals
      <4>2. Mark(r) /\ pc'[r] = "controls" /\ UNCHANGED <<conn, hooked, ctrl>>
        BY <3>0, <3>8 DEF Mutate, Goto, Open, Refusals, TypeOK
      <4>3. ran'[r] \subseteq {RoleOf(shape[r])}
        BY <2>0, <4>0, <4>2 DEF Mark, TypeOK, SessionOf, Open
      <4>4. /\ pool'[conn[r]].role = pool[conn[r]].role
            /\ pool'[conn[r]].status = pool[conn[r]].status
        BY <2>0, <4>0, <4>1 DEF TypeOK, ConnState, Open
      <4> QED
        BY <2>0, <4>0, <4>2, <4>3, <4>4 DEF SessionOf, Open
    <3>9. CASE Call(r)
      <4>0. conn[r] \in Conns /\ pc[r] = "call"
        BY <2>0, <3>9 DEF Call, Open
      <4>5. shape[r].kind = "call"
        BY <2>0, <4>0 DEF SessionOf
      <4>1. PICK ws, st :
              pool' = [pool EXCEPT ![conn[r]].ws = ws, ![conn[r]].status = st]
              /\ st \in {pool[conn[r]].status, "fn"}
        BY <3>9 DEF Call
      <4>2. Mark(r) /\ pc'[r] = "controls" /\ UNCHANGED <<conn, hooked, ctrl>>
        BY <3>9 DEF Call, Goto, TypeOK
      <4>3. ran'[r] \subseteq {RoleOf(shape[r])}
        BY <2>0, <4>0, <4>2 DEF Mark, TypeOK, SessionOf, Open
      <4>4. /\ pool'[conn[r]].role = pool[conn[r]].role
            /\ pool'[conn[r]].status = st
        BY <2>0, <4>0, <4>1 DEF TypeOK, ConnState, Open
      <4> QED
        BY <2>0, <4>0, <4>1, <4>2, <4>3, <4>4, <4>5 DEF SessionOf, Open
    <3>10. CASE Enforce(r)
      BY <2>0, <3>0, <3>10 DEF Enforce, Goto, Open, Refusals, TypeOK, SessionOf
    <3>11. CASE StreamFails(r) \/ StatementFails(r) \/ Disconnect(r)
      BY <3>0, <3>11 DEF StreamFails, StatementFails, Disconnect, Open, Refusals
    <3> QED
      BY <1>2, <3>1, <3>2, <3>3, <3>4, <3>5, <3>6, <3>7, <3>8, <3>9, <3>10, <3>11
      DEF Step, Fault
  <2> QED
    BY <2>1, <2>2
<1> QED
  BY <1>1, <1>2 DEF Next

\* No session has been opened yet.
LEMMA InitSession == Init => SessionInv
BY Constants DEF Init, SessionInv, Spare, SessionOf, Open, Unset

\* No role, setting or steered status crosses from one request to another
\* through a pooled connection (queueSessionItems and applySession set
\* everything transaction-locally, and every path ends its transaction).
THEOREM SessionsDoNotLeak == Spec => []OwnSession
<1>1. SessionInv => OwnSession
  BY DEF SessionInv, SessionOf, OwnSession
<1> QED
  BY <1>1, InitTypes, NextTypes, InitSession, NextSession, PTL DEF Spec

-----------------------------------------------------------------------------
(* What is durable.                                                        *)

\* Nothing of a request is durable before its commit, and nothing ever of one
\* that asked for a rollback or was refused.
DurableOf(r) ==
    /\ pc[r] \notin {"respond", "done"} => Durable(r) = {}
    /\ pc[r] # "done" => resp[r] = None
    /\ shape[r].rollback => Durable(r) = {}
    /\ Done(r, Refusals) => Durable(r) = {}

DurableInv == \A r \in Reqs : DurableOf(r)

\* A commit only takes rows over from the other requests.
LEMMA OthersKeepDurable ==
    ASSUME TypeOK, NEW r \in Reqs, Untouched(r), NEW q \in Reqs \ {r}
    PROVE  Durable(q)' \subseteq Durable(q)
BY DEF Untouched, Durable, Applied, TypeOK, Tables

\* A step that leaves the table alone leaves what is durable alone.
LEMMA SameTable ==
    ASSUME NEW r, table' = table
    PROVE  Durable(r)' = Durable(r)
BY DEF Durable

\* Every step keeps the durability invariant.
LEMMA NextDurable == TypeOK /\ TypeOK' /\ DurableInv /\ [Next]_vars => DurableInv'
<1> SUFFICES ASSUME TypeOK, TypeOK', DurableInv, [Next]_vars PROVE DurableInv'
  OBVIOUS
<1>1. CASE UNCHANGED vars
  BY <1>1 DEF vars, outcome, DurableInv, DurableOf, Durable, Done
<1>2. ASSUME NEW r \in Reqs, Arrive(r) \/ Step(r) \/ Fault(r) PROVE DurableInv'
  <2>0. Untouched(r) /\ DurableOf(r) /\ shape' = shape
    BY <1>2, StepIsLocal DEF DurableInv, Untouched
  <2>q. ASSUME NEW q \in Reqs \ {r} PROVE DurableOf(q)'
    <3>1. Durable(q)' \subseteq Durable(q) /\ DurableOf(q)
      BY <2>0, OthersKeepDurable DEF DurableInv
    <3>2. pc'[q] = pc[q] /\ resp'[q] = resp[q] /\ shape'[q] = shape[q]
      BY <2>0 DEF Untouched
    <3> QED
      BY <3>1, <3>2 DEF DurableOf, Done
  <2> SUFFICES DurableOf(r)'
    BY <2>q DEF DurableInv
  <2>1. CASE \E k \in Refusals : pc[r] \in Open /\ Refuse(r, k)
    <3>1. table' = table /\ pc'[r] = "done" /\ Durable(r) = {}
      BY <2>0, <2>1, RefuseIsLocal DEF DurableOf, Open
    <3> QED
      BY <3>1, SameTable DEF DurableOf
  <2>2. CASE ~\E k \in Refusals : pc[r] \in Open /\ Refuse(r, k)
    <3>0. \A k \in Refusals : pc[r] \in Open => ~Refuse(r, k)
      BY <2>2
    <3>1. CASE \/ Arrive(r) \/ Begin(r) \/ BeginFails(r) \/ ApplySession(r)
               \/ ReadControls(r) \/ CountRows(r) \/ Query(r) \/ Stream(r)
               \/ NoOp(r) \/ Mutate(r) \/ Call(r) \/ Enforce(r)
      <4>1. table' = table /\ pc[r] \notin {"respond", "done"}
        BY <3>0, <3>1
        DEF Arrive, Begin, BeginFails, ApplySession, ReadControls, CountRows, Query,
            Stream, NoOp, Mutate, Call, Enforce, Open, Refusals
      <4>2. resp'[r] = resp[r] \/ pc'[r] = "done"
        BY <3>0, <3>1
        DEF Arrive, Begin, BeginFails, ApplySession, ReadControls, CountRows, Query,
            Stream, NoOp, Mutate, Call, Enforce, Open, Refusals, Answer, Goto, TypeOK
      <4> QED
        BY <2>0, <4>1, <4>2, SameTable DEF DurableOf
    <3>2. CASE Commit(r)
      <4>1. pc'[r] = "respond" /\ resp'[r] = None /\ pc[r] = "commit"
        BY <2>0, <3>2 DEF Commit, Goto, TypeOK, DurableOf
      <4>2. shape[r].rollback => Durable(r)' = Durable(r)
        BY <3>2, SameTable DEF Commit
      <4> QED
        BY <2>0, <4>1, <4>2 DEF DurableOf, Done
    <3>3. CASE CommitFails(r)
      <4>1. /\ pc'[r] = "done"
            /\ resp'[r] = [kind |-> "commit", status |-> Unset]
        BY <3>3 DEF CommitFails, Answer, Goto, TypeOK
      <4>3. shape[r].rollback => Durable(r)' = Durable(r)
        BY <3>3, SameTable DEF CommitFails
      <4>2. ~Done(r, Refusals)'
        BY <2>0, <4>1 DEF Done, Refusals
      <4> QED
        BY <2>0, <4>1, <4>2, <4>3 DEF DurableOf
    <3>4. CASE Respond(r)
      <4>1. table' = table /\ pc'[r] = "done" /\ pc[r] = "respond"
        BY <3>4 DEF Respond, Answer, Goto, TypeOK
      <4>2. PICK st : resp'[r] = [kind |-> RenderError(r), status |-> st]
        BY <3>4 DEF Respond, Answer, TypeOK
      <4>3. RenderError(r) \notin Refusals
        BY DEF RenderError, Refusals
      <4>4. ~Done(r, Refusals)'
        BY <2>0, <4>2, <4>3 DEF Done, Refusals
      <4> QED
        BY <2>0, <4>1, <4>4, SameTable DEF DurableOf
    <3>5. CASE StreamFails(r) \/ StatementFails(r) \/ Disconnect(r)
      BY <3>0, <3>5 DEF StreamFails, StatementFails, Disconnect, Open, Refusals
    <3> QED
      BY <1>2, <3>1, <3>2, <3>3, <3>4, <3>5 DEF Step, Fault
  <2> QED
    BY <2>1, <2>2
<1> QED
  BY <1>1, <1>2 DEF Next

\* Nothing has been written yet.
LEMMA InitDurable == Init => DurableInv
BY Constants DEF Init, DurableInv, DurableOf, Durable, Done

\* A request that the backend refused before its commit, or that asked for a
\* rollback, has left nothing behind when its answer goes out.
THEOREM RefusalsUndone == Spec => []RefusedLeavesNothing
<1>1. DurableInv => RefusedLeavesNothing
  BY DEF DurableInv, DurableOf, RefusedLeavesNothing
<1> QED
  BY <1>1, InitTypes, NextTypes, InitDurable, NextDurable, PTL DEF Spec

-----------------------------------------------------------------------------
(* The write contract.                                                     *)

Within(r) ==
    /\ shape[r].max # None => affected[r] <= shape[r].max
    /\ shape[r].media = "object" => affected[r] = 1

\* From the mutation to the commit the affected count is the size of the write
\* set; past the enforcement it is within the bounds; and what is durable is
\* within them for good.
WriteOf(r) ==
    shape[r].kind \in Writes =>
        /\ pc[r] \notin {"call", "count", "query", "stream"}
        /\ pc[r] \in {"controls", "enforce", "commit"} =>
              affected[r] = Cardinality(pool[conn[r]].ws)
        /\ pc[r] = "commit" => Within(r)
        /\ Durable(r) # {} => Within(r) /\ Cardinality(Durable(r)) <= affected[r]

WriteInv == \A r \in Reqs : WriteOf(r)

\* Committing a write set makes exactly that set durable in the name of a
\* request that had nothing durable before.
LEMMA CommitMakesDurable ==
    ASSUME TypeOK, NEW r \in Reqs, conn[r] \in Conns, Durable(r) = {},
           table' = Applied(r)
    PROVE  Durable(r)' = pool[conn[r]].ws
<1>1. pool[conn[r]].ws \subseteq Ids
  BY DEF TypeOK, ConnState
<1> QED
  BY <1>1 DEF Durable, Applied, TypeOK, Tables

\* The other requests keep their write contract.
LEMMA OthersKeepWrite ==
    ASSUME TypeOK, WriteInv, NEW r \in Reqs, Untouched(r), NEW q \in Reqs \ {r}
    PROVE  WriteOf(q)'
<1>1. /\ conn'[q] = conn[q] /\ pc'[q] = pc[q] /\ shape'[q] = shape[q]
      /\ affected'[q] = affected[q] /\ WriteOf(q)
      /\ affected[q] \in Nat
  BY DEF Untouched, WriteInv, TypeOK
<1>2. pc[q] \in Open => pool'[conn[q]] = pool[conn[q]]
  <2>1. pc[q] \in Open => conn[q] \in Conns /\ conn[q] # None
    BY Constants DEF TypeOK
  <2>2. pc[q] \in Open => conn[q] # conn[r]
    BY <2>1 DEF TypeOK
  <2> QED
    BY <2>1, <2>2 DEF Untouched
<1>3. Durable(q)' \subseteq Durable(q)
  BY OthersKeepDurable
<1>4. /\ Cardinality(Durable(q)') \in Nat /\ Cardinality(Durable(q)) \in Nat
      /\ Cardinality(Durable(q)') <= Cardinality(Durable(q))
  <2>1. Durable(q) \in SUBSET Ids
    BY DEF Durable
  <2> QED
    BY <1>3, <2>1, KeysAreFinite, FS_Subset
<1>5. Within(q)' = Within(q)
  BY <1>1 DEF Within
<1>6. Cardinality(Durable(q))' = Cardinality(Durable(q)')
  OBVIOUS
<1> QED
  BY <1>1, <1>2, <1>3, <1>4, <1>5, <1>6 DEF WriteOf, Open

\* Every step keeps the write contract.
LEMMA NextWrite ==
    TypeOK /\ TypeOK' /\ DurableInv /\ WriteInv /\ [Next]_vars => WriteInv'
<1> SUFFICES ASSUME TypeOK, TypeOK', DurableInv, WriteInv, [Next]_vars PROVE WriteInv'
  OBVIOUS
<1>1. CASE UNCHANGED vars
  BY <1>1 DEF vars, outcome, WriteInv, WriteOf, Within, Durable
<1>2. ASSUME NEW r \in Reqs, Arrive(r) \/ Step(r) \/ Fault(r) PROVE WriteInv'
  <2>0. /\ Untouched(r) /\ DurableOf(r) /\ WriteOf(r) /\ shape[r] \in Shape
        /\ pc[r] \in Open => conn[r] \in Conns /\ pool[conn[r]] \in ConnState
        /\ shape' = shape
    BY <1>2, StepIsLocal, Constants DEF DurableInv, WriteInv, TypeOK, Untouched
  <2> SUFFICES ASSUME shape[r].kind \in Writes PROVE WriteOf(r)'
    BY <2>0, OthersKeepWrite DEF WriteInv, WriteOf
  <2>1. CASE \E k \in Refusals : pc[r] \in Open /\ Refuse(r, k)
    <3>1. table' = table /\ pc'[r] = "done" /\ Durable(r) = {}
      BY <2>0, <2>1, RefuseIsLocal DEF DurableOf, Open
    <3> QED
      BY <3>1, SameTable DEF WriteOf
  <2>2. CASE ~\E k \in Refusals : pc[r] \in Open /\ Refuse(r, k)
    <3>0. \A k \in Refusals : pc[r] \in Open => ~Refuse(r, k)
      BY <2>2
    <3>1. CASE Arrive(r) \/ Begin(r) \/ BeginFails(r) \/ NoOp(r)
      <4>1. /\ table' = table /\ Durable(r) = {}
            /\ pc'[r] \in {"begin", "session", "done", "respond"}
        BY <2>0, <3>1 DEF Arrive, Begin, BeginFails, NoOp, Answer, Goto, TypeOK, DurableOf
      <4> QED
        BY <4>1, SameTable DEF WriteOf
    <3>2. CASE ApplySession(r)
      <4>1. table' = table /\ pc'[r] = FirstStep(shape[r]) /\ pc[r] = "session"
        BY <3>0, <3>2 DEF ApplySession, Goto, Open, Refusals, TypeOK
      <4>2. FirstStep(shape[r]) \in {"noop", "mutate"}
        BY <2>0 DEF FirstStep, Shape, Writes
      <4>3. Durable(r) = {}
        BY <2>0, <4>1 DEF DurableOf
      <4> QED
        BY <4>1, <4>2, <4>3, SameTable DEF WriteOf
    <3>3. CASE ReadControls(r)
      <4>1. /\ table' = table /\ pc'[r] = "enforce" /\ pc[r] = "controls"
            /\ UNCHANGED <<pool, conn, affected>>
        BY <2>0, <3>0, <3>3
        DEF ReadControls, Goto, Open, Refusals, TypeOK, outcome, Writes
      <4>2. Durable(r) = {}
        BY <2>0, <4>1 DEF DurableOf
      <4> QED
        BY <2>0, <4>1, <4>2, SameTable DEF WriteOf
    <3>4. CASE CountRows(r) \/ Query(r) \/ Stream(r) \/ Call(r)
      BY <2>0, <3>4 DEF CountRows, Query, Stream, Call, WriteOf
    <3>5. CASE Mutate(r)
      <4>1. PICK ws \in SUBSET Ids :
              /\ pool' = [pool EXCEPT ![conn[r]].ws = ws]
              /\ affected' = [affected EXCEPT ![r] = Cardinality(ws)]
        <5>1. Live(View(r)) \subseteq Ids
          BY LiveIsNat
        <5> QED
          BY <3>0, <3>5, <5>1 DEF Mutate, Open, Refusals
      <4>2. /\ table' = table /\ pc'[r] = "controls" /\ pc[r] = "mutate"
            /\ conn' = conn
        BY <3>0, <3>5 DEF Mutate, Goto, Open, Refusals, TypeOK
      <4>3. Durable(r) = {}
        BY <2>0, <4>2 DEF DurableOf
      <4>4. pool'[conn'[r]].ws = ws /\ affected'[r] = Cardinality(ws)
        BY <2>0, <4>1, <4>2 DEF TypeOK, ConnState, Open
      <4> QED
        BY <4>2, <4>3, <4>4, SameTable DEF WriteOf
    <3>6. CASE Enforce(r)
      <4>1. /\ ~MaxExceeded(r) /\ ~NotSingular(r)
            /\ table' = table /\ pc'[r] = "commit" /\ pc[r] = "enforce"
            /\ UNCHANGED <<pool, conn, affected>>
        BY <3>0, <3>6 DEF Enforce, Goto, Open, Refusals, TypeOK, outcome
      <4>2. Durable(r) = {} /\ affected[r] \in Nat
        BY <2>0, <4>1 DEF DurableOf, TypeOK
      <4>3. Within(r)
        BY <2>0, <4>1, <4>2 DEF Within, MaxExceeded, NotSingular, Shape
      <4>4. Within(r)'
        BY <2>0, <4>1, <4>3 DEF Within
      <4> QED
        BY <2>0, <4>1, <4>2, <4>4, SameTable DEF WriteOf
    <3>7. CASE Commit(r) \/ CommitFails(r)
      <4>1. /\ pc[r] = "commit" /\ pc'[r] \in {"respond", "done"}
            /\ affected' = affected /\ conn[r] \in Conns
            /\ table' = table \/ table' = Applied(r)
        BY <2>0, <3>7
        DEF Commit, CommitFails, Answer, Goto, TypeOK, outcome, Open
      <4>2. Durable(r) = {} /\ Within(r) /\ affected[r] = Cardinality(pool[conn[r]].ws)
        BY <2>0, <4>1 DEF DurableOf, WriteOf
      <4>3. Within(r)'
        BY <2>0, <4>1, <4>2 DEF Within
      <4>4. CASE table' = table
        BY <4>1, <4>2, <4>4, SameTable DEF WriteOf
      <4>5. CASE table' = Applied(r)
        <5>1. Durable(r)' = pool[conn[r]].ws
          BY <4>1, <4>2, <4>5, CommitMakesDurable
        <5>2. Cardinality(Durable(r))' = affected[r] /\ affected[r] \in Nat
          BY <4>2, <5>1 DEF TypeOK
        <5> QED
          BY <4>1, <4>3, <5>2 DEF WriteOf
      <4> QED
        BY <4>1, <4>4, <4>5
    <3>8. CASE Respond(r)
      <4>1. table' = table /\ pc'[r] = "done" /\ affected' = affected
        BY <3>8 DEF Respond, Answer, Goto, TypeOK, outcome
      <4>2. Within(r)' = Within(r) /\ Durable(r)' = Durable(r)
        BY <2>0, <4>1, SameTable DEF Within
      <4>3. Cardinality(Durable(r))' = Cardinality(Durable(r))
        BY <4>2
      <4> QED
        BY <2>0, <4>1, <4>2, <4>3 DEF WriteOf
    <3>9. CASE StreamFails(r) \/ StatementFails(r) \/ Disconnect(r)
      BY <3>0, <3>9 DEF StreamFails, StatementFails, Disconnect, Open, Refusals
    <3> QED
      BY <1>2, <3>1, <3>2, <3>3, <3>4, <3>5, <3>6, <3>7, <3>8, <3>9 DEF Step, Fault
  <2> QED
    BY <2>1, <2>2
<1> QED
  BY <1>1, <1>2 DEF Next

\* No write has begun.
LEMMA InitWrite == Init => WriteInv
BY Constants DEF Init, WriteInv, WriteOf, Durable, Writes

\* What a mutation leaves in the table is within max-affected, and one row for
\* a singular request, whatever window its representation was cut to and
\* whatever commits around it.
THEOREM WritesKeepContract == Spec => []WriteContract
<1>1. WriteInv => WriteContract
  BY DEF WriteInv, WriteOf, Within, WriteContract
<1> QED
  BY <1>1, InitTypes, NextTypes, InitDurable, NextDurable, InitWrite, NextWrite, PTL DEF Spec

-----------------------------------------------------------------------------
(* Counted reads.                                                          *)

\* A counted read holds one snapshot from its session to its cursor, so the
\* count and the page are taken of the same table.
PageOf(r) ==
    shape[r].kind = "read" =>
        /\ pc[r] \notin {"noop", "mutate", "call", "enforce", "commit"}
        /\ pc[r] \in {"idle", "begin", "session", "controls", "count"} =>
              total[r] = None
        /\ pc[r] \in {"controls", "count"} /\ shape[r].count =>
              pool[conn[r]].snap # None
        /\ pc[r] = "count" => shape[r].count
        /\ pc[r] = "query" /\ total[r] # None =>
              /\ pool[conn[r]].snap # None
              /\ total[r] = Cardinality(Live(pool[conn[r]].snap))
        /\ pc[r] \in {"stream", "respond"} /\ total[r] # None =>
              total[r] = full[r] /\ rows[r] = Window(total[r], shape[r])
        /\ Done(r, Reported) /\ total[r] # None =>
              total[r] = full[r] /\ rows[r] = Window(total[r], shape[r])

PageInv == \A r \in Reqs : PageOf(r)

\* The other requests keep their snapshot, count and page.
LEMMA OthersKeepPage ==
    ASSUME TypeOK, PageInv, NEW r \in Reqs, Untouched(r), NEW q \in Reqs \ {r}
    PROVE  PageOf(q)'
<1>1. /\ conn'[q] = conn[q] /\ pc'[q] = pc[q] /\ shape'[q] = shape[q]
      /\ total'[q] = total[q] /\ rows'[q] = rows[q] /\ full'[q] = full[q] /\ resp'[q] = resp[q]
      /\ PageOf(q)
  BY DEF Untouched, PageInv
<1>2. pc[q] \in Open => pool'[conn[q]] = pool[conn[q]]
  <2>1. pc[q] \in Open => conn[q] \in Conns /\ conn[q] # None
    BY Constants DEF TypeOK
  <2>2. pc[q] \in Open => conn[q] # conn[r]
    BY <2>1 DEF TypeOK
  <2> QED
    BY <2>1, <2>2 DEF Untouched
<1>3. Done(q, Reported)' = Done(q, Reported)
  BY <1>1 DEF Done
<1>4. pc[q] \in Open => Live(pool[conn[q]].snap)' = Live(pool[conn[q]].snap)
  BY <1>1, <1>2 DEF Live
<1>5. Window(total[q], shape[q])' = Window(total[q], shape[q])
  BY <1>1 DEF Window
<1> QED
  BY <1>1, <1>2, <1>3, <1>4, <1>5 DEF PageOf, Open

\* Every step keeps counts and pages in step.
LEMMA NextPage ==
    TypeOK /\ TypeOK' /\ DurableInv /\ PageInv /\ [Next]_vars => PageInv'
<1> SUFFICES ASSUME TypeOK, TypeOK', DurableInv, PageInv, [Next]_vars PROVE PageInv'
  OBVIOUS
<1>1. CASE UNCHANGED vars
  BY <1>1 DEF vars, outcome, PageInv, PageOf, Done, Live, Window
<1>2. ASSUME NEW r \in Reqs, Arrive(r) \/ Step(r) \/ Fault(r) PROVE PageInv'
  <2>0. /\ Untouched(r) /\ PageOf(r) /\ shape[r] \in Shape
        /\ pc[r] \in Open => conn[r] \in Conns /\ pool[conn[r]] \in ConnState
        /\ shape' = shape
        /\ pc[r] # "done" => resp[r] = None
    BY <1>2, StepIsLocal, Constants
    DEF PageInv, TypeOK, Untouched, DurableInv, DurableOf
  <2> SUFFICES ASSUME shape[r].kind = "read" PROVE PageOf(r)'
    BY <2>0, OthersKeepPage DEF PageInv, PageOf
  <2>n. resp'[r] = resp[r] /\ pc[r] # "done" => ~Done(r, Reported)'
    BY <2>0 DEF Done
  <2>1. CASE \E k \in Refusals : pc[r] \in Open /\ Refuse(r, k)
    <3>1. PICK k \in Refusals : /\ pc'[r] = "done"
                                /\ resp'[r] = [kind |-> k, status |-> Unset]
      BY <2>1, RefuseIsLocal
    <3>2. ~Done(r, Reported)'
      BY <3>1 DEF Done, Refusals, Reported
    <3> QED
      BY <3>1, <3>2 DEF PageOf
  <2>2. CASE ~\E k \in Refusals : pc[r] \in Open /\ Refuse(r, k)
    <3>0. \A k \in Refusals : pc[r] \in Open => ~Refuse(r, k)
      BY <2>2
    <3>1. CASE Arrive(r) \/ Begin(r)
      <4>1. /\ pc'[r] \in {"begin", "session"} /\ pc[r] \in {"idle", "begin"}
            /\ total' = total /\ resp' = resp
        BY <3>1 DEF Arrive, Begin, Goto, TypeOK, outcome
      <4> QED
        BY <2>0, <2>n, <4>1 DEF PageOf
    <3>2. CASE BeginFails(r)
      <4>1. pc'[r] = "done" /\ resp'[r] = [kind |-> "sql", status |-> Unset]
        BY <3>2 DEF BeginFails, Answer, Goto, TypeOK
      <4>2. ~Done(r, Reported)'
        BY <4>1 DEF Done, Reported
      <4> QED
        BY <4>1, <4>2 DEF PageOf
    <3>3. CASE ApplySession(r)
      <4>0. pc[r] = "session" /\ "sql" \in Refusals /\ ~Refuse(r, "sql")
        BY <3>0, <3>3 DEF ApplySession, Open, Refusals
      <4> DEFINE sn == IF Isolation(shape[r]) = "repeatable read" THEN table ELSE None
                 Dressed(h) ==
                   [role |-> IF shape[r].role = "" THEN pool[conn[r]].role ELSE shape[r].role,
                    status |-> IF h = "status" THEN "hook" ELSE pool[conn[r]].status,
                    ws |-> {}, snap |-> sn]
      <4>1. PICK h \in Hooks :
              /\ pool' = [pool EXCEPT ![conn[r]] = Dressed(h)]
              /\ Goto(r, FirstStep(shape[r]))
              /\ UNCHANGED <<table, conn, shape, outcome, ctrl, resp>>
        BY <3>3, <4>0 DEF ApplySession
      <4>2. /\ pc'[r] = FirstStep(shape[r]) /\ pc[r] = "session" /\ conn[r] \in Conns
            /\ UNCHANGED <<conn, total, resp>>
        BY <2>0, <4>0, <4>1 DEF Goto, Open, TypeOK, outcome
      <4>3. FirstStep(shape[r]) = "controls"
        BY DEF FirstStep, Writes
      <4>4. shape[r].count => sn # None
        <5>1. table # None
          BY Constants, TransactAssumption DEF TypeOK
        <5>2. shape[r].count => Isolation(shape[r]) = "repeatable read"
          BY DEF Isolation
        <5> QED
          BY <5>1, <5>2
      <4>6. Dressed(h).snap = sn
        OBVIOUS
      <4> HIDE DEF Dressed, sn
      <4>5. pool'[conn'[r]].snap = sn
        BY <4>1, <4>2, <4>6 DEF TypeOK
      <4> QED
        BY <2>0, <2>n, <4>2, <4>3, <4>4, <4>5 DEF PageOf
    <3>4. CASE ReadControls(r)
      <4>1. /\ pc[r] = "controls" /\ UNCHANGED <<pool, conn, total, resp>>
            /\ pc'[r] = IF shape[r].count THEN "count" ELSE "query"
        BY <2>0, <3>0, <3>4
        DEF ReadControls, Goto, Open, Refusals, TypeOK, outcome, Writes
      <4> QED
        BY <2>0, <2>n, <4>1 DEF PageOf
    <3>5. CASE CountRows(r)
      <4>1. /\ pc[r] = "count" /\ pc'[r] = "query" /\ UNCHANGED <<pool, conn, resp>>
            /\ total'[r] = Cardinality(Live(View(r)))
        BY <3>5 DEF CountRows, Goto, TypeOK
      <4>2. pool[conn[r]].snap # None /\ View(r) = pool[conn[r]].snap
        BY <2>0, <4>1 DEF PageOf, View
      <4>3. Live(pool[conn[r]].snap)' = Live(pool[conn[r]].snap)
        BY <4>1 DEF Live
      <4> QED
        BY <2>n, <4>1, <4>2, <4>3 DEF PageOf
    <3>6. CASE Query(r)
      <4>1. /\ pc[r] = "query" /\ pc'[r] = "stream" /\ UNCHANGED <<total, resp>>
            /\ rows'[r] = Window(Cardinality(Live(View(r))), shape[r])
            /\ full'[r] = Cardinality(Live(View(r)))
        BY <3>6 DEF Query, Goto, TypeOK
      <4>2. total[r] # None => Cardinality(Live(View(r))) = total[r]
        BY <2>0, <4>1 DEF PageOf, View
      <4>3. Window(total[r], shape[r])' = Window(total[r], shape[r])
        BY <2>0, <4>1 DEF Window
      <4> QED
        BY <2>0, <2>n, <4>1, <4>2, <4>3 DEF PageOf
    <3>7. CASE Stream(r)
      <4>1. /\ pc[r] = "stream" /\ pc'[r] = "respond" /\ UNCHANGED <<total, full, rows, resp>>
        BY <3>7 DEF Stream, Goto, TypeOK, outcome
      <4>3. Window(total[r], shape[r])' = Window(total[r], shape[r])
        BY <2>0, <4>1 DEF Window
      <4> QED
        BY <2>0, <2>n, <4>1, <4>3 DEF PageOf
    <3>8. CASE NoOp(r) \/ Mutate(r) \/ Call(r) \/ Enforce(r) \/ Commit(r) \/ CommitFails(r)
      BY <2>0, <3>8 DEF NoOp, Mutate, Call, Enforce, Commit, CommitFails, PageOf
    <3>9. CASE Respond(r)
      <4>1. /\ pc[r] = "respond" /\ pc'[r] = "done" /\ UNCHANGED <<total, full, rows>>
        BY <3>9 DEF Respond, Answer, Goto, TypeOK, outcome
      <4>3. Window(total[r], shape[r])' = Window(total[r], shape[r])
        BY <2>0, <4>1 DEF Window
      <4> QED
        BY <2>0, <4>1, <4>3 DEF PageOf
    <3>10. CASE StreamFails(r) \/ StatementFails(r) \/ Disconnect(r)
      BY <3>0, <3>10 DEF StreamFails, StatementFails, Disconnect, Open, Refusals
    <3> QED
      BY <1>2, <3>1, <3>2, <3>3, <3>4, <3>5, <3>6, <3>7, <3>8, <3>9, <3>10
      DEF Step, Fault
  <2> QED
    BY <2>1, <2>2
<1> QED
  BY <1>1, <1>2 DEF Next

\* No count has been taken.
LEMMA InitPage == Init => PageInv
BY DEF Init, PageInv, PageOf, Done

\* The total of a counted table read fits the page it returns, for any number
\* of concurrent writers.
THEOREM CountedReadsAgree == Spec => []PageOfTotal
<1>1. PageInv => PageOfTotal
  BY DEF PageInv, PageOf, PageOfTotal
<1> QED
  BY <1>1, InitTypes, NextTypes, InitDurable, NextDurable, InitPage, NextPage, PTL DEF Spec
=============================================================================
