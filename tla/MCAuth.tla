------------------------------- MODULE MCAuth -------------------------------
(***************************************************************************)
(* Instances of Auth: two keys that a reload rotates, and tokens that are  *)
(* good, expiring, early, signed by either key, garbled or misaddressed.   *)
(***************************************************************************)
EXTENDS Auth, FiniteSets, TLC

Absent == [kind |-> "absent", n |-> 0]
Num(n) == [kind |-> "num", n |-> n]
Text   == [kind |-> "text", n |-> 0]
NoAud  == [kind |-> "absent", vals |-> {}]
Role(x) == [present |-> TRUE, text |-> x]
NoRole  == [present |-> FALSE, text |-> ""]

Claims == [exp |-> Absent, nbf |-> Absent, iat |-> Absent, aud |-> NoAud, role |-> Role("web")]
Good   == [shape |-> "jws", alg |-> "HS256", kid |-> "", signer |-> "k1", claims |-> Claims]

\* Tokens whose answer changes with the clock, the verifier or the cache.
RaceTokens ==
    {[Good EXCEPT !.claims.exp = Num(0)],
     [Good EXCEPT !.claims.nbf = Num(1), !.claims.iat = Num(0)],
     [Good EXCEPT !.signer = "k2", !.alg = "RS256", !.kid = "b"]}

\* One token per way of being refused, and some that just pass.
CheckTokens ==
    {Good,
     [Good EXCEPT !.shape = "parts"], [Good EXCEPT !.shape = "header"],
     [Good EXCEPT !.shape = "payload"],
     [Good EXCEPT !.alg = "none"], [Good EXCEPT !.alg = "XX"], [Good EXCEPT !.alg = "RS256"],
     [Good EXCEPT !.alg = "EdDSA"], [Good EXCEPT !.kid = "zz"], [Good EXCEPT !.signer = "k9"],
     [Good EXCEPT !.claims.exp = Text], [Good EXCEPT !.claims.nbf = Text],
     [Good EXCEPT !.claims.iat = Text], [Good EXCEPT !.claims.iat = Num(2)],
     [Good EXCEPT !.claims.exp = Num(0), !.claims.nbf = Num(2)],
     [Good EXCEPT !.claims.aud = [kind |-> "string", vals |-> {"us"}]],
     [Good EXCEPT !.claims.aud = [kind |-> "string", vals |-> {"them"}]],
     [Good EXCEPT !.claims.aud = [kind |-> "list", vals |-> {}]],
     [Good EXCEPT !.claims.aud = [kind |-> "list", vals |-> {"us", "them"}]],
     [Good EXCEPT !.claims.aud = [kind |-> "list", vals |-> {"them"}]],
     [Good EXCEPT !.claims.aud = [kind |-> "mixed", vals |-> {"us"}]],
     [Good EXCEPT !.claims.aud = [kind |-> "other", vals |-> {}]],
     [Good EXCEPT !.claims.role = NoRole], [Good EXCEPT !.claims.role = Role("root")],
     [Good EXCEPT !.signer = "k2", !.alg = "RS256", !.kid = "b"],
     [Good EXCEPT !.signer = "k2", !.alg = "PS256", !.kid = "b"]}

K1 == [id |-> "k1", kid |-> "", alg |-> "", family |-> "hmac"]
K2 == [id |-> "k2", kid |-> "b", alg |-> "RS256", family |-> "rsa"]

Base == [keys |-> {K1}, algs |-> {}, aud |-> "us", anon |-> "anon", permitted |-> {},
         skew |-> 1, cacheSize |-> 1]

\* Before and after a key rotation.
RaceConfs == {[Base EXCEPT !.keys = {K1, K2}, !.skew = 0],
              [Base EXCEPT !.keys = {K2}]}

Symmetry == Permutations(Requests)

\* The configurations the checks tell apart.
CheckConfs ==
    {Base, [Base EXCEPT !.keys = {K1, K2}, !.cacheSize = 0],
     [Base EXCEPT !.keys = {}], [Base EXCEPT !.anon = "", !.permitted = {"web"}],
     [Base EXCEPT !.aud = "", !.algs = {"RS256", "HS512"}, !.keys = {K1, K2}],
     [Base EXCEPT !.permitted = {"web"}]}

AllTokens == RaceTokens \cup CheckTokens
AllConfs  == RaceConfs \cup CheckConfs

\* Tokens in a request or in a cache.
InUse == ({req[r].header.token : r \in Requests} \ {Nil})
         \cup UNION {KeysOf(verifiers[g].cache) : g \in DOMAIN verifiers}

\* The instance explores two regions: overlapping requests over the tokens that
\* a rotation, a cache or the first tick tell apart, and one request at a time
\* with every token against every configuration and clock.
Explored ==
    \/ /\ clock <= 1 /\ InUse \subseteq RaceTokens
       /\ \A g \in DOMAIN verifiers : verifiers[g].conf \in RaceConfs
    \/ /\ Len(verifiers) = 1 /\ verifiers[1].conf \in CheckConfs
       /\ InUse \subseteq CheckTokens
       /\ Cardinality({r \in Requests : req[r].st # "none"}) <= 1
=============================================================================
