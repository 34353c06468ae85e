------------------------------ MODULE MCFront -------------------------------
(***************************************************************************)
(* Front on a handful of servers and the requests that tell its stages     *)
(* apart: every method on every path, and for the endpoints that reach the *)
(* backend every Accept, Prefer and Range below, one family at a time.     *)
(***************************************************************************)
EXTENDS Front

Server == [verifier |-> TRUE, role |-> TRUE, schemas |-> <<"api", "other">>,
           origins |-> {"home"}, maxRows |-> 2, txEnd |-> "commit",
           authz |-> TRUE, plan |-> TRUE, native |-> FALSE, root |-> "document"]

MCConfs ==
    {Server,
     [Server EXCEPT !.txEnd = "rollback-allow-override", !.maxRows = 0, !.plan = FALSE,
                    !.schemas = <<"api">>, !.root = "spec", !.native = TRUE],
     [Server EXCEPT !.txEnd = "commit-allow-override", !.authz = FALSE, !.origins = {},
                    !.verifier = FALSE, !.root = "spec"],
     [Server EXCEPT !.txEnd = "rollback", !.verifier = FALSE, !.role = FALSE],
     [Server EXCEPT !.txEnd = "rollback", !.root = "disabled"]}

Tok(k, v) == [k |-> k, v |-> v]
Acc(t, s, q) == [typ |-> t, sub |-> s, q |-> q, strip |-> FALSE]

MCAccepts ==
    {<<>>,
     <<Acc("application", "xml", 10)>>,
     <<Acc("text", "csv", 5), Acc("application", "object", 9)>>,
     <<Acc("application", "json", 0), Acc("text", "*", 10)>>,
     <<Acc("application", "xml", 10), Acc("*", "*", 1)>>,
     <<Acc("application", "plan", 10)>>,
     <<Acc("text", "plain", 10), Acc("text", "csv", 10)>>,
     <<[Acc("application", "object", 10) EXCEPT !.strip = TRUE]>>}

MCPrefers ==
    {<<>>,
     <<Tok("tx", "rollback")>>,
     <<Tok("tx", "commit"), Tok("tx", "rollback"), Tok("return", "representation")>>,
     <<Tok("tx", "maybe"), Tok("tx", "commit"), Tok("return", "headers-only")>>,
     <<Tok("handling", "strict"), Tok("tx", "rollback"), Tok("max-affected", "1")>>,
     <<Tok("handling", "strict"), Tok("colour", "red")>>,
     <<Tok("max-affected", "1"), Tok("count", "exact"), Tok("return", "representation")>>,
     <<Tok("handling", "strict"), Tok("max-affected", "1"), Tok("resolution", "merge-duplicates")>>}

MCRanges ==
    {[form |-> f, lo |-> 0, hi |-> 0] : f \in {"none", "unit", "bad"}}
      \cup {[form |-> "open", lo |-> l, hi |-> 0] : l \in {0, 3}}
      \cup {[form |-> "closed", lo |-> l, hi |-> h] : l \in {0, 1, 3}, h \in {0, 1, 3}}

Plain == [method |-> "GET", path |-> "/table", origin |-> "", preflight |-> FALSE,
          profile |-> "", accept |-> <<>>, prefer |-> <<>>,
          range |-> [form |-> "none", lo |-> 0, hi |-> 0], offset |-> 0, limit |-> None]

Serving == {"GET", "HEAD", "POST", "PATCH", "PUT", "DELETE"}
MCRequests ==
    {[Plain EXCEPT !.method = m, !.path = p] : m \in Methods, p \in Paths}
      \cup {[Plain EXCEPT !.method = m, !.origin = o, !.preflight = f, !.profile = n]
              : m \in {"GET", "OPTIONS"}, o \in {"", "home", "elsewhere"}, f \in BOOLEAN,
                n \in {"", "api", "hidden"}}
      \cup {[Plain EXCEPT !.method = m, !.path = p, !.accept = a]
              : m \in {"GET", "POST"}, p \in {"/", "/table", "/rpc/fn"}, a \in MCAccepts}
      \cup {[Plain EXCEPT !.method = m, !.path = p, !.prefer = t]
              : m \in Serving, p \in {"/table", "/rpc/fn"}, t \in MCPrefers}
      \cup {[Plain EXCEPT !.method = m, !.path = p, !.accept = a,
                          !.prefer = <<Tok("return", "representation"), Tok("count", "exact")>>]
              : m \in {"GET", "POST", "PATCH"}, p \in {"/table", "/rpc/fn"}, a \in MCAccepts}
      \cup {[Plain EXCEPT !.path = p, !.range = r, !.offset = o, !.limit = l,
                          !.prefer = <<Tok("count", c)>>]
              : p \in {"/table", "/rpc/fn"}, r \in MCRanges, o \in {0, 2},
                l \in {None, 0, 3}, c \in {"exact", "planned"}}
=============================================================================
