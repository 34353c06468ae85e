------------------------------- MODULE Front --------------------------------
(***************************************************************************)
(* The HTTP front end: what happens to one request between net/http and    *)
(* the backend. The stages run in the handler's order and each may answer  *)
(* and stop.                                                               *)
(*                                                                         *)
(*   ServeHTTP   CORS, OPTIONS, authentication, schema negotiation, route  *)
(*   handleRead  negotiate, parse, Prefer, Range, plan, authorize, run     *)
(*   handleWrite negotiate, body, parse, Prefer, plan, authorize, run      *)
(*   handleRPC   negotiate, body, parse, Prefer, Range (GET), plan, run    *)
(*   handleRoot  openapi-mode, Accept, document or db-root-spec            *)
(*                                                                         *)
(* and then the renderer and the status line. Parsing, planning and        *)
(* execution are modelled elsewhere and appear here by their outcomes.     *)
(***************************************************************************)
EXTENDS Integers, Sequences, FiniteSets, Prefer, Negotiate

CONSTANTS
    Confs,      \* the configurations of the server
    Requests,   \* the requests of the clients
    MaxTotal,   \* the most rows a result can have before its window
    None        \* absent: no limit, no total, no media type

Methods == {"GET", "HEAD", "POST", "PATCH", "PUT", "DELETE", "OPTIONS", "TRACE"}
Paths == {"/", "/rpc/fn", "/rpc/", "/rpc/a/b", "/table", "/a/b"}
Reads == {"GET", "HEAD"}

\* A server: the identity source, db-schemas, CORS origins, db-max-rows,
\* db-tx-end, and what the backend can do.
Conf == [verifier : BOOLEAN, role : BOOLEAN, schemas : Seq(STRING),
         origins : SUBSET STRING, maxRows : Nat, txEnd : TxEnds,
         authz : BOOLEAN, plan : BOOLEAN, native : BOOLEAN,
         root : {"disabled", "document", "spec"}]

\* Range: absent, with a unit ("bytes=0-9"), malformed, or lo-[hi].
RangeHeader == [form : {"none", "unit", "bad", "open", "closed"}, lo : Nat, hi : Nat]

\* What net/http hands over: profile is the profile header the method reads,
\* offset and limit come from the query string.
RequestOK(r) ==
    /\ r.method \in Methods /\ r.path \in Paths
    /\ r.origin \in {"", "home", "elsewhere"} /\ r.preflight \in BOOLEAN
    /\ r.profile \in STRING
    /\ r.prefer \in Seq(Token) /\ r.accept \in Seq(Entry)
    /\ r.range \in RangeHeader
    /\ r.offset \in Nat /\ r.limit \in Nat \cup {None}

ASSUME FrontAssumption ==
    /\ Confs \subseteq Conf
    /\ \A r \in Requests : RequestOK(r)
    /\ MaxTotal \in Nat \ {0}
    /\ None \notin Nat

VARIABLES
    conf,       \* the server's configuration
    req,        \* the request
    media,      \* the negotiated media type
    pc,         \* the stage
    id,         \* the identity: "none", "anon" or "user"
    prefs,      \* the parsed preferences
    window,     \* offset and limit of the request
    gates,      \* ghost: the checks passed so far
    ran,        \* ghost: "no", "explain" or "run"; and with which tx
    result,     \* what the backend returned
    resp        \* the response: status, code, headers, Content-Range

vars == <<conf, req, media, pc, id, prefs, window, gates, ran, result, resp>>

NoResponse == [status |-> 0, code |-> "", headers |-> {}, applied |-> <<>>,
               range |-> <<>>, body |-> None]
NoResult == [rows |-> 0, total |-> None, status |-> 0, inserted |-> None,
             shape |-> "table", cols |-> 1, fails |-> FALSE]

Init ==
    /\ conf \in Confs
    /\ req \in Requests
    /\ media = Unacceptable
    /\ pc = "cors"
    /\ id = "none"
    /\ prefs = NoPreferences
    /\ window = [offset |-> 0, limit |-> None]
    /\ gates = {}
    /\ ran = [what |-> "no", rollback |-> FALSE]
    /\ result = NoResult
    /\ resp = NoResponse

-----------------------------------------------------------------------------
(* Helpers.                                                                *)

Pass(gate, next) == gates' = gates \cup {gate} /\ pc' = next
Headers(hs) == resp' = [resp EXCEPT !.headers = @ \cup hs]

\* writeError: the staged Content-Profile is dropped.
WriteError(status, code) ==
    /\ pc' = "done"
    /\ resp' = [resp EXCEPT !.status = status, !.code = code,
                            !.headers = @ \ {"Content-Profile"}]
    /\ UNCHANGED gates

\* A backend's error, graded: a privilege error is 401 with a challenge for an
\* anonymous request and 403 otherwise; a broken unique key is 409.
MapExecError(code) ==
    IF code = "42501"
    THEN IF id = "anon"
         THEN /\ pc' = "done" /\ UNCHANGED gates
              /\ resp' = [resp EXCEPT !.status = 401, !.code = code,
                            !.headers = (@ \ {"Content-Profile"}) \cup {"WWW-Authenticate"}]
         ELSE WriteError(403, code)
    ELSE WriteError(IF code = "PGRST116" THEN 406 ELSE 409, code)

\* applyControls: a status set by the function or the hook wins.
ApplyControls(default) == IF result.status # 0 THEN result.status ELSE default

IsRpc == req.path = "/rpc/fn"
IsGet == req.method \in Reads
\* The handlers: what each does to a request, in order.
ReadStages == <<"negotiate", "parse", "tx", "range", "cap", "plan", "authorize",
                "explain", "execute", "render">>
\* Faulty variant: the gate forgotten on the write path.
WriteStagesUngated == <<"negotiate", "body", "parse", "tx", "plan", "explain",
                        "execute", "render">>

WriteStages == <<"negotiate", "body", "parse", "tx", "plan", "authorize", "explain",
                 "execute", "render">>
CallStages == <<"negotiate", "body", "parse", "tx", "range", "cap", "plan", "explain",
                "execute", "render">>
RootStages == <<"root", "execute", "render">>
Stages ==
    IF req.path = "/" THEN RootStages
    ELSE IF IsRpc THEN CallStages ELSE IF IsGet THEN ReadStages ELSE WriteStages
After(stage) == Stages[1 + CHOOSE i \in DOMAIN Stages : Stages[i] = stage]
Onward == pc' = After(pc) /\ UNCHANGED <<gates, resp>>

IsUpsert == req.method = "PUT" \/ (req.method = "POST" /\ prefs.val["resolution"] # Absent)
Return == prefs.val["return"]

-----------------------------------------------------------------------------
(* ServeHTTP.                                                              *)

\* serveCORS: a preflight from an allowed origin is answered here.
ServeCors ==
    /\ pc = "cors"
    /\ IF req.origin = "" \/ (conf.origins # {} /\ req.origin \notin conf.origins)
       THEN pc' = "options" /\ UNCHANGED resp
       ELSE LET hs == {"Access-Control-Allow-Origin"}
                        \cup (IF conf.origins # {} THEN {"Access-Control-Allow-Credentials"} ELSE {})
            IN  IF req.preflight /\ req.method = "OPTIONS"
                THEN pc' = "done" /\ resp' = [resp EXCEPT !.status = 200,
                              !.headers = hs \cup {"Access-Control-Allow-Methods"}]
                ELSE pc' = "options" /\ Headers(hs)
    /\ UNCHANGED <<conf, media, req, id, prefs, window, gates, ran, result>>

\* OPTIONS answers with Allow before authentication.
HandleOptions ==
    /\ pc = "options"
    /\ IF req.method = "OPTIONS"
       THEN pc' = "done" /\ resp' = [resp EXCEPT !.status = 200, !.headers = @ \cup {"Allow"}]
       ELSE pc' = "auth" /\ UNCHANGED resp
    /\ UNCHANGED <<conf, media, req, id, prefs, window, gates, ran, result>>

\* authenticate: the verifier's answer, or the static role, or 401.
Authenticate ==
    /\ pc = "auth"
    /\ \/ /\ conf.verifier /\ WriteError(401, "PGRST301") /\ UNCHANGED id
       \/ /\ ~conf.verifier /\ ~conf.role
          /\ WriteError(401, "PGRST302") /\ UNCHANGED id
       \/ /\ Pass("auth", "schema") /\ UNCHANGED resp
          /\ id' \in IF conf.verifier THEN {"anon", "user"} ELSE {"anon"}
          /\ conf.verifier \/ conf.role
    /\ UNCHANGED <<conf, media, req, prefs, window, ran, result>>

\* resolveSchema: mutating methods read Content-Profile, the others
\* Accept-Profile; the first exposed schema is the default.
ResolveSchema ==
    /\ pc = "schema"
    /\ IF req.profile \notin {""} \cup Range(conf.schemas) THEN WriteError(406, "PGRST106")
       ELSE /\ Pass("schema", "route")
            /\ Headers(IF req.profile # "" \/ Len(conf.schemas) > 1
                       THEN {"Content-Profile"} ELSE {})
    /\ UNCHANGED <<conf, media, req, id, prefs, window, ran, result>>

\* The switch on path and method, with the handlers' path checks.
Route ==
    /\ pc = "route"
    /\ CASE req.path = "/rpc/a/b" -> WriteError(404, "PGRST125")
         [] req.path = "/rpc/" -> WriteError(404, "PGRST202")
         [] req.path = "/rpc/fn" /\ req.method \notin Reads \cup {"POST"} ->
              WriteError(405, "PGRST101")
         [] req.path = "/" -> pc' = "root" /\ UNCHANGED <<resp, gates>>
         [] req.path \in {"/table", "/a/b"} /\ req.method = "TRACE" -> WriteError(405, "PGRST117")
         [] req.path = "/a/b" /\ req.method # "TRACE" -> WriteError(404, "PGRST125")
         [] OTHER -> pc' = "negotiate" /\ UNCHANGED <<resp, gates>>
    /\ UNCHANGED <<conf, media, req, id, prefs, window, ran, result>>

\* handleRoot, and serveRootSpec's planning.
Root ==
    /\ pc = "root"
    /\ CASE ~IsGet ->
              /\ pc' = "done" /\ UNCHANGED gates
              /\ resp' = [resp EXCEPT !.status = 405, !.code = "PGRST117",
                            !.headers = (@ \ {"Content-Profile"}) \cup {"Allow"}]
         [] IsGet /\ conf.root = "disabled" -> WriteError(404, "PGRST126")
         [] IsGet /\ conf.root # "disabled" /\ ~RootAcceptable(req.accept) ->
              WriteError(406, "PGRST107")
         [] OTHER ->
              \/ /\ conf.root = "spec" /\ Pass("plan", After(pc)) /\ UNCHANGED resp
              \/ /\ conf.root = "spec" /\ ~conf.native /\ WriteError(404, "PGRST202")
              \/ /\ conf.root = "document" /\ pc' = "done" /\ UNCHANGED gates
                 /\ resp' = [resp EXCEPT !.status = 200,
                               !.body = IF req.method = "HEAD" THEN None ELSE 1]
    /\ media' = Json
    /\ UNCHANGED <<conf, req, id, prefs, window, ran, result>>

-----------------------------------------------------------------------------
(* handleRead, handleWrite and handleRPC, up to the backend.               *)

NegotiateAccept ==
    /\ pc = "negotiate"
    /\ media' = NegotiateMedia(req.accept)
    /\ IF media' = Unacceptable THEN WriteError(406, "PGRST107")
       ELSE Onward
    /\ UNCHANGED <<conf, req, id, prefs, window, ran, result>>

\* readBody: over max-request-body, or unreadable; DELETE and GET have none.
ReadBody ==
    /\ pc = "body"
    /\ \/ ~IsGet /\ req.method # "DELETE" /\ WriteError(413, "body")
       \/ ~IsGet /\ req.method # "DELETE" /\ WriteError(400, "PGRST102")
       \/ Onward
    /\ UNCHANGED <<conf, media, req, id, prefs, window, ran, result>>

\* ParseRead, ParseWrite and ParseCall: the query string, the body and Prefer.
Parse ==
    /\ pc = "parse"
    /\ \/ /\ StrictError(ParsePrefer(req.prefer))
          /\ WriteError(400, "PGRST122") /\ UNCHANGED <<prefs, window>>
       \/ /\ ~StrictError(ParsePrefer(req.prefer))
          /\ \E e \in {<<400, "PGRST100">>, <<416, "PGRST103">>} : WriteError(e[1], e[2])
          /\ UNCHANGED <<prefs, window>>
       \/ /\ ~StrictError(ParsePrefer(req.prefer))
          /\ prefs' = ParsePrefer(req.prefer)
          /\ window' = [offset |-> req.offset, limit |-> req.limit]
          /\ Onward
    /\ UNCHANGED <<conf, media, req, id, ran, result>>

\* applyTxPolicy.
ApplyTxPolicy ==
    /\ pc = "tx"
    /\ prefs' = ResolveTx(prefs, conf.txEnd)
    /\ IF StrictError(prefs') THEN WriteError(400, "PGRST122")
       ELSE Onward
    /\ UNCHANGED <<conf, media, req, id, window, ran, result>>

\* Faulty variant: forgets that both ends of a range are included.
RangeWindowShort(r, w) ==
    IF r.form = "closed" THEN [offset |-> r.lo, limit |-> r.hi - r.lo] ELSE w

\* parseRangeHeader: lo and hi become offset and limit; an open range leaves
\* the limit alone; a unit or a malformed value is ignored; inverted is 416.
RangeWindow(r, w) ==
    CASE r.form = "open" -> [w EXCEPT !.offset = r.lo]
      [] r.form = "closed" -> [offset |-> r.lo, limit |-> r.hi - r.lo + 1]
      [] OTHER -> w

RangeRequest ==
    /\ pc = "range"
    /\ IF IsGet /\ req.range.form = "closed" /\ req.range.hi < req.range.lo
       THEN WriteError(416, "PGRST103") /\ UNCHANGED window
       ELSE window' = (IF IsGet THEN RangeWindow(req.range, window) ELSE window) /\ Onward
    /\ UNCHANGED <<conf, media, req, id, prefs, ran, result>>

\* capLimit: db-max-rows bounds a read's or a call's window, never a write's.
CapLimit(l) ==
    IF conf.maxRows # 0 /\ (l = None \/ l > conf.maxRows) THEN conf.maxRows ELSE l
CapWindow ==
    /\ pc = "cap"
    /\ window' = [window EXCEPT !.limit = CapLimit(@)]
    /\ Onward
    /\ UNCHANGED <<conf, media, req, id, prefs, ran, result>>

\* plan.Read, plan.Write and plan.Call, or the minimal plan of a native call.
Planning ==
    /\ pc = "plan"
    /\ \/ WriteError(404, IF IsRpc THEN "PGRST202" ELSE "PGRST205")
       \/ WriteError(400, "PGRST108")
       \/ IsRpc /\ IsGet /\ WriteError(405, "PGRST101")
       \/ Pass("plan", After(pc)) /\ UNCHANGED resp
    /\ UNCHANGED <<conf, media, req, id, prefs, window, ran, result>>

\* authorize: denied, a row outside WITH CHECK, or passed.
Authorize ==
    /\ pc = "authorize"
    /\ \/ conf.authz /\ MapExecError("42501")
       \/ conf.authz /\ ~IsGet /\ WriteError(403, "42501 RLS")
       \/ Pass("authorize", After(pc)) /\ UNCHANGED resp
    /\ UNCHANGED <<conf, media, req, id, prefs, window, ran, result>>

\* servePlan: gated by db-plan-enabled and the backend; never runs the query.
ServePlan ==
    /\ pc = "explain"
    /\ \/ media # PlanMedia /\ Onward /\ UNCHANGED ran
       \/ media = PlanMedia /\ ~conf.plan /\ WriteError(406, "PGRST107") /\ UNCHANGED ran
       \/ /\ media = PlanMedia /\ conf.plan /\ ran' = [ran EXCEPT !.what = "explain"]
          /\ \/ MapExecError("42501")
             \/ /\ pc' = "done" /\ UNCHANGED gates
                /\ resp' = [resp EXCEPT !.status = 200, !.body = 1]
    /\ UNCHANGED <<conf, media, req, id, prefs, window, result>>

-----------------------------------------------------------------------------
(* The backend, and the response.                                          *)

\* LiftResponseControls: a portable function's status column is checked; a
\* PostgreSQL function's GUC is taken as it is.
Sendable(s) == s >= 100 /\ s <= 599
LiftResponseControls(s) ==
    IF s = 0 \/ conf.native \/ Sendable(s) THEN [status |-> s, ok |-> TRUE]
    ELSE [status |-> 0, ok |-> FALSE]

\* What a window shows of n rows.
Shown(n) == LET past == IF n > window.offset THEN n - window.offset ELSE 0
            IN  IF window.limit # None /\ window.limit < past THEN window.limit ELSE past

\* The rows a backend answers with: a window of n rows with their count or an
\* estimate of it, n rows of a function that promises one, nothing, or the rows a
\* mutation touched. Reading them may fail part way.
Answers(shape, n) ==
    LET paged == IsGet \/ IsRpc
        counted == prefs.val["count"]
        totals == CASE counted = Absent -> {None}
                    [] counted = "exact" -> {n}
                    [] OTHER -> 0..MaxTotal
    IN  {[rows |-> IF shape \in {"table", "setof"} /\ paged THEN Shown(n) ELSE n,
          total |-> t, status |-> s, inserted |-> i, shape |-> shape, cols |-> c,
          fails |-> f]
           : t \in IF paged /\ shape # "void" THEN totals ELSE {None},
             s \in {0, 202, 1000},
             i \in IF ~IsRpc /\ IsUpsert THEN {None} \cup 0..n ELSE {None},
             c \in 1..2,
             f \in IF paged \/ Return = "representation" THEN BOOLEAN ELSE {FALSE}}

Execute ==
    /\ pc = "execute"
    /\ ran' = [what |-> "run",
               rollback |-> ~IsGet /\ prefs.val["tx"] = "rollback"]
    /\ \/ \E code \in {"42501", "23505", "PGRST116"} : MapExecError(code) /\ UNCHANGED result
       \/ \E shape \in IF IsRpc THEN {"table", "setof", "scalar", "object", "void"}
                       ELSE IF req.path = "/" THEN {"scalar"} ELSE {"table"} :
          \E n \in 0..MaxTotal : \E r \in Answers(shape, n) :
            /\ r.status # 0 => req.path # "/" /\ (conf.native \/ (IsRpc /\ n > 0))
            /\ LET lift == LiftResponseControls(r.status)
               IN  IF lift.ok
                   THEN result' = r /\ Onward
                   ELSE WriteError(500, "PGRST112") /\ UNCHANGED result
    /\ UNCHANGED <<conf, media, req, id, prefs, window>>

\* renderFor, renderCall and renderCallObject: an error, or the rows rendered.
ScalarMedia == {<<"application", "octet-stream">>, <<"text", "plain">>}
RenderStatus(res, drained) ==
    IF media \in ScalarMedia /\ res.cols # 1 /\ res.shape # "void" THEN 400
    ELSE IF ~drained.ok THEN 500
    ELSE IF SingularMedia(media) /\ res.shape \notin {"object", "void"} /\ res.rows # 1 THEN 406
    ELSE 200
RenderCode(status) ==
    CASE status = 400 -> "PGRST100" [] status = 406 -> "PGRST116" [] OTHER -> "XX000"
RenderRows(res) == IF res.shape = "void" THEN 0 ELSE res.rows

\* A scalar media type, and a function that promises one value, have a body of one
\* value: renderScalar, renderCall and renderCallObject count every row and write
\* the first.
OneValue == \/ media \in ScalarMedia /\ result.shape # "void"
            \/ media # <<"text", "csv">> /\ result.shape \in {"scalar", "object"}
BodyRows(n) == IF OneValue /\ n > 1 THEN 1 ELSE n

\* Faulty variant: a stream that fails part way ends the body.
DrainIgnoresErr(read, failed) == [ok |-> TRUE, rows |-> read]

\* The rows are read to the end before anything is written: a stream that fails
\* part way is an error.
Drain(read, failed) == [ok |-> ~failed, rows |-> read]

\* contentRange.
ContentRange(offset, n, total) ==
    IF n = 0 THEN <<total>> ELSE <<offset, offset + n - 1, total>>

\* A status outside net/http's range panics in WriteHeader: the connection is
\* closed without a response.
SendStatus(s, r) ==
    IF s < 100 \/ s > 999 THEN [r EXCEPT !.status = 0, !.code = "panic"] ELSE [r EXCEPT !.status = s]

\* writePaged, for reads and calls.
WritePaged(n) ==
    LET staged == [resp EXCEPT !.applied = AppliedHeader(prefs),
                               !.range = ContentRange(window.offset, n, result.total),
                               !.body = IF req.method = "HEAD" THEN None ELSE BodyRows(n)]
        status == IF result.total # None /\ n < result.total THEN 206 ELSE 200
    IN  IF window.offset > 0 /\ result.total # None /\ window.offset > result.total
        THEN resp' = [staged EXCEPT !.status = 416, !.code = "PGRST103", !.body = None]
        ELSE resp' = SendStatus(ApplyControls(status), staged)

\* writeStatus, writeContentRange and locationHeader.
WriteStatus ==
    CASE req.method = "POST" -> IF IsUpsert /\ result.inserted = 0 THEN 200 ELSE 201
      [] req.method = "PUT" ->
           IF Return # "representation" THEN 204
           ELSE IF result.inserted \notin {None, 0} THEN 201 ELSE 200
      [] OTHER -> IF Return = "representation" THEN 200 ELSE 204
WriteContentRange ==
    LET total == IF prefs.val["count"] = "exact" THEN result.rows ELSE None
    IN  CASE req.method = "PUT" -> <<>>
          [] req.method = "PATCH" /\ result.rows > 0 -> <<0, result.rows - 1, total>>
          [] OTHER -> <<total>>
Located(pk) ==
    req.method = "POST" /\ Return = "headers-only" /\ pk /\ result.rows = 1

\* A write's headers are staged before its representation is rendered.
WriteWrite ==
    /\ pc = "render" /\ ~IsGet /\ ~IsRpc
    /\ \E pk \in BOOLEAN, read \in 0..result.rows :
         LET staged == [resp EXCEPT !.applied = AppliedHeader(prefs),
                          !.range = WriteContentRange,
                          !.headers = IF Located(pk) THEN @ \cup {"Location"} ELSE @]
             d == Drain(read, result.fails)
             status == RenderStatus(result, d)
         IN  /\ ~result.fails => read = result.rows
             /\ CASE Return # "representation" ->
                       resp' = SendStatus(ApplyControls(WriteStatus), staged)
                  [] Return = "representation" /\ status # 200 ->
                       resp' = [staged EXCEPT !.status = status, !.code = RenderCode(status),
                                              !.headers = @ \ {"Content-Profile"}]
                  [] OTHER -> resp' = SendStatus(ApplyControls(WriteStatus),
                                                 [staged EXCEPT !.body = BodyRows(d.rows)])
    /\ pc' = "done"
    /\ UNCHANGED <<conf, media, req, id, prefs, window, gates, ran, result>>

\* A read or a call: render, then writePaged; the root document's function has
\* no paging.
WriteRead ==
    /\ pc = "render" /\ (IsGet \/ IsRpc)
    /\ \E read \in 0..RenderRows(result) :
         LET d == Drain(read, result.fails)
             status == RenderStatus(result, d)
         IN  /\ ~result.fails => read = RenderRows(result)
             /\ \/ status # 200 /\ WriteError(status, RenderCode(status))
                \/ /\ status = 200 /\ pc' = "done" /\ UNCHANGED gates
                   /\ IF req.path # "/" THEN WritePaged(d.rows)
                      ELSE resp' = [resp EXCEPT !.status = 200,
                                      !.body = IF req.method = "HEAD" THEN None ELSE BodyRows(d.rows)]
    /\ UNCHANGED <<conf, media, req, id, prefs, window, ran, result>>

Finished == pc = "done" /\ UNCHANGED vars

Next ==
    \/ Finished
    \/ ServeCors \/ HandleOptions \/ Authenticate \/ ResolveSchema \/ Route \/ Root
    \/ NegotiateAccept \/ ReadBody \/ Parse \/ ApplyTxPolicy \/ RangeRequest
    \/ CapWindow \/ Planning \/ Authorize \/ ServePlan \/ Execute
    \/ WriteWrite \/ WriteRead

Spec == Init /\ [][Next]_vars

-----------------------------------------------------------------------------
(* Properties.                                                             *)

\* Every variable holds a value of its kind at every stage of the handlers.
TypeOK ==
    /\ conf \in Conf /\ RequestOK(req)
    /\ pc \in {"cors", "options", "auth", "schema", "route", "root", "negotiate", "body",
               "parse", "tx", "range", "cap", "plan", "authorize", "explain",
               "execute", "render", "done"}
    /\ id \in {"none", "anon", "user"}
    /\ gates \subseteq {"auth", "schema", "plan", "authorize"}
    /\ DOMAIN prefs.val = PreferKeys /\ prefs.applied \subseteq prefs.seen
    /\ window.offset \in Nat /\ window.limit \in Nat \cup {None}
    /\ result.rows \in 0..MaxTotal
    /\ pc = "done" => resp.status \in 100..599 \/ resp.code = "panic"

\* The backend sees a request, to run it or to explain it, only once it has an
\* identity, a schema and a plan, a table request also the gate's consent, and
\* no preference that handling=strict refuses; a plan request never runs the
\* query. (ServeHTTP, handleRead, handleWrite, handleRPC.)
ExecutionEarned ==
    ran.what # "no" =>
       /\ id # "none" /\ {"auth", "schema", "plan"} \subseteq gates
       /\ req.path = "/table" => "authorize" \in gates
       /\ req.path # "/" => ~(FirstValue(req.prefer, "handling") = "strict"
                             /\ Offends(req.prefer, conf.txEnd))
       /\ ran.what = "run" => media # PlanMedia

\* The transaction of a mutation or a call ends as db-tx-end and, where it lets
\* the client choose, the first tx= preference say. (ResolveTx, applyTxPolicy,
\* handleWrite's Write.Tx.)
TxPolicyKept ==
    ran.what = "run" /\ ~IsGet =>
       ran.rollback = RollsBack(req.prefer, conf.txEnd)

\* Preference-Applied names exactly the preferences that took effect: a valid
\* first occurrence, tx only where db-tx-end lets the client choose,
\* max-affected only under strict handling. (AppliedHeader.)
EchoHonest ==
    pc = "done" /\ resp.code = "" /\ ran.what = "run" /\ req.path # "/" =>
       Range(resp.applied) =
         {k \in PreferKeys :
            /\ FirstValue(req.prefer, k) # Absent
            /\ k = "tx" => conf.txEnd \in {"commit-allow-override", "rollback-allow-override"}
            /\ k = "max-affected" => FirstValue(req.prefer, "handling") = "strict"}

Paged == pc = "done" /\ ran.what = "run" /\ (IsGet \/ IsRpc) /\ req.path # "/"
         /\ Len(resp.range) > 0

\* A window of rows with an exact count is described truthfully: Content-Range
\* lies inside the total and the Range asked for and stops short of neither
\* without reason, 206 means rows were left out, 200 that none were, 416 that
\* the offset is past the last row. (parseRangeHeader, contentRange, writePaged.)
PagedHonestly ==
    Paged /\ prefs.val["count"] = "exact" /\ result.shape \in {"table", "setof"} =>
       LET n == result.total  w == resp.range  asked == req.range
       IN  /\ Len(w) = 3 =>
                /\ w[2] < n /\ w[2] - w[1] + 1 = result.rows
                /\ IsGet /\ asked.form = "closed" =>
                     /\ w[1] = asked.lo /\ w[2] <= asked.hi
                     /\ \/ w[2] \in {asked.hi, n - 1}
                        \/ result.rows = conf.maxRows
           /\ resp.status = 416 <=> window.offset > n
           /\ result.status = 0 /\ resp.status # 416 =>
                (resp.status = 206 <=> result.rows < n)

\* db-max-rows is a hard cap on what a read or a set-returning call answers
\* with, whatever limit or Range the client sent. (capLimit.)
RowCap ==
    (pc = "render" \/ Paged) /\ (IsGet \/ IsRpc) /\ req.path # "/"
      /\ result.shape \in {"table", "setof"} /\ conf.maxRows # 0 =>
       result.rows <= conf.maxRows

\* No error sent through writeError names the negotiated schema, however far the
\* request got. (The paged 416 does not go through it.)
NoSchemaOnError ==
    pc = "done" /\ resp.code # "" /\ ~(resp.status = 416 /\ Paged) /\ resp.code # "panic" =>
       "Content-Profile" \notin resp.headers

\* A privilege error asks an anonymous client to authenticate, and never sends
\* an authenticated one into a token refresh. (mapExecError, ErrPermissionDenied;
\* the WITH CHECK violation is a plain 403.)
PrivilegeGraded ==
    resp.code = "42501" =>
       IF id = "anon" THEN resp.status = 401 /\ "WWW-Authenticate" \in resp.headers
       ELSE resp.status = 403 /\ "WWW-Authenticate" \notin resp.headers

\* The renderers read the rows to the end: rows that fail while they are read make an
\* error, never a success, even where the part that was read would fill the body. A
\* successful body holds every row; only a scalar media type and a function that
\* promises one value stop at the first, whatever the result holds. (renderRows,
\* renderCSV, renderScalar, renderCall, renderCallObject, renderVoid.)
Rendered == IsGet \/ IsRpc \/ Return = "representation"
CompleteBody ==
    pc = "done" /\ ran.what = "run" /\ resp.code = "" =>
       /\ Rendered => ~result.fails
       /\ \/ resp.body \in {None, RenderRows(result)}
          \/ OneValue /\ RenderRows(result) > 1 /\ resp.body = 1

\* No portable function can make the server panic on its status line.
\* (LiftResponseControls, applyControls.)
StatusSendable == ~conf.native => resp.code # "panic"

\* The media type is the best the Accept header admits, and a request is refused
\* only when it admits none. (parseAccept, negotiate.)
NegotiatedBest ==
    /\ media # Unacceptable /\ req.path # "/" => BestFor(req.accept, media)
    /\ pc = "done" /\ resp.code = "PGRST107" /\ media = Unacceptable =>
         \A i \in DOMAIN req.accept, k \in DOMAIN SupportedMedia :
            ~Admits(req.accept[i], SupportedMedia[k])

\* Only a request that earned it reaches the backend, and its transaction ends as
\* the server's policy lets it. (ServeHTTP to Execute.)
GatesKept == TypeOK /\ ExecutionEarned /\ TxPolicyKept

\* The headers and the status of an answer describe what was done: preferences,
\* window, total and cap. (AppliedHeader, writePaged, capLimit.)
AnswerDescribesResult == EchoHonest /\ PagedHonestly /\ RowCap

\* Whatever fails on the way is reported as itself: no success over rows that failed
\* to arrive, no leftover header, no wrong grade, no panic. (writeError, mapExecError,
\* renderRows.)
FailuresReported == NoSchemaOnError /\ PrivilegeGraded /\ CompleteBody /\ StatusSendable
=============================================================================
