-------------------------------- MODULE Auth --------------------------------
(***************************************************************************)
(* Request authentication (auth/auth.go): Verifier.Authenticate run by     *)
(* concurrent requests that share the verifier's token cache, while the    *)
(* clock moves and configuration reloads replace the verifier.             *)
(*                                                                         *)
(* A raw token is a record of what decoding it yields: its shape, the alg  *)
(* and kid of its header, the key that signed it and its claims.  A time   *)
(* claim is [kind, n]: "absent" (or null), "num", or "text" for a value    *)
(* that is not a number.  A key has an id, the kid and alg it is pinned to *)
(* ("" for none) and a family.  Decoding and signature checking are        *)
(* golang-jwt's: a signature verifies under the key that made it only.     *)
(***************************************************************************)
EXTENDS SieveOps

CONSTANTS
    Requests,
    Tokens,      \* raw tokens clients may present
    Confs,       \* configurations that NewVerifier accepts
    MaxClock,    \* bound on the clock
    MaxReloads   \* bound on configuration reloads

TimeClaim == [kind : {"absent", "num", "text"}, n : Int]

ASSUME AuthAssumption ==
    /\ Nil \notin Tokens
    /\ \A t \in Tokens :
          /\ t.shape \in {"parts", "header", "payload", "jws"}
          /\ {t.claims.exp, t.claims.nbf, t.claims.iat} \subseteq TimeClaim
          /\ t.claims.aud.kind \in {"absent", "string", "list", "mixed", "other"}
          /\ t.claims.aud.kind = "string" => \A a, b \in t.claims.aud.vals : a = b
    /\ \A c \in Confs : c.cacheSize \in Int /\ c.skew \in Int /\ "none" \notin c.algs
    /\ MaxClock \in Nat /\ MaxReloads \in Nat

VARIABLES
    clock,       \* Unix time, as v.now reads it
    verifiers,   \* every Verifier built so far; the last one serves new requests
    req          \* Authenticate calls

vars == <<clock, verifiers, req>>

\* What Authenticate returns.
Err(code, why) == [code |-> code, why |-> why, role |-> "", anon |-> FALSE]
Ok(role, anon) == [code |-> "ok", why |-> "", role |-> role, anon |-> anon]
Pending        == Err("pending", "")

(***************************************************************************)
(* Algorithms and keys.                                                    *)
(***************************************************************************)
Hmac  == {"HS256", "HS384", "HS512"}
Rsa   == {"RS256", "RS384", "RS512", "PS256", "PS384", "PS512"}
Ecdsa == {"ES256", "ES384", "ES512"}
\* The methods golang-jwt knows besides these match no key of a verifier.
KnownAlgs == Hmac \cup Rsa \cup Ecdsa \cup {"EdDSA"}

MethodMatchesKey(alg, k) ==
    \/ alg \in Hmac  /\ k.family = "hmac"
    \/ alg \in Rsa   /\ k.family = "rsa"
    \/ alg \in Ecdsa /\ k.family = "ecdsa"

\* resolveMethods: a configured list wins, else the families of the keys.
Methods(conf) ==
    IF conf.algs # {} THEN conf.algs
    ELSE {a \in KnownAlgs : \E k \in conf.keys : MethodMatchesKey(a, k)}

\* checkAlg, on the unverified header
CheckAlg(t, conf) ==
    CASE t.shape = "header"         -> "crypto"
      [] t.shape # "header" /\ t.alg = "none" -> "unsecured"
      [] t.shape # "header" /\ t.alg # "none" /\ t.alg \notin KnownAlgs -> "crypto"
      [] t.shape # "header" /\ t.alg \in KnownAlgs \ Methods(conf) -> "noKey"
      [] OTHER -> ""

\* keyfunc: the keys a token may be verified with
Candidates(t, conf) ==
    {k \in conf.keys : /\ t.kid # "" => k.kid = t.kid
                       /\ k.alg # "" => k.alg = t.alg
                       /\ MethodMatchesKey(t.alg, k)}

\* ParseWithClaims and mapJWTError: claims that do not decode, no candidate
\* key, and no candidate that made the signature
CheckSignature(t, conf) ==
    IF t.shape = "payload" THEN "crypto"
    ELSE IF Candidates(t, conf) = {} THEN "noKey"
    ELSE IF \E k \in Candidates(t, conf) : k.id = t.signer THEN ""
    ELSE "badSignature"

(***************************************************************************)
(* Claims.                                                                 *)
(***************************************************************************)
CheckTime(c, fails, why) ==
    IF c.kind = "absent" THEN "" ELSE IF c.kind = "text" THEN "type"
    ELSE IF fails THEN why ELSE ""

\* checkAud: a string is a list of one; "mixed" is an array with an element
\* that is not a string, "other" any other type.
CheckAud(aud, conf) ==
    CASE aud.kind = "absent"            -> ""
      [] aud.kind \in {"mixed", "other"} -> "type"
      [] OTHER -> IF \/ aud.kind = "list" /\ aud.vals = {}
                     \/ \E a \in aud.vals : conf.aud = "" \/ conf.aud = a
                  THEN "" ELSE "audience"

\* validateClaims: exp, nbf, iat, then aud; the first fault is the answer.
ValidateClaims(c, conf, now) ==
    LET exp == CheckTime(c.exp, now - conf.skew > c.exp.n, "expired")
        nbf == CheckTime(c.nbf, now + conf.skew < c.nbf.n, "notYet")
        iat == CheckTime(c.iat, now + conf.skew < c.iat.n, "future")
    IN  IF exp # "" THEN exp ELSE IF nbf # "" THEN nbf ELSE IF iat # "" THEN iat
        ELSE CheckAud(c.aud, conf)

\* A token with nothing left to check but its claims.
Decodes(t, conf) ==
    t.shape # "parts" /\ CheckAlg(t, conf) = "" /\ CheckSignature(t, conf) = ""

\* verify
Verify(t, conf, now) ==
    LET alg    == CheckAlg(t, conf)
        sig    == CheckSignature(t, conf)
        claims == ValidateClaims(t.claims, conf, now)
    IN  IF t.shape = "parts" THEN Err("PGRST301", "parts")
        ELSE IF alg # "" THEN Err("PGRST301", alg)
        ELSE IF sig # "" THEN Err("PGRST301", sig)
        ELSE IF claims # "" THEN Err("PGRST303", claims)
        ELSE Pending

\* resolve: the role claim (the role-claim path's value rendered as text), or
\* the anonymous role when the path resolves to nothing
Resolve(c, conf) ==
    LET role == IF c.role.present THEN c.role.text ELSE conf.anon IN
    IF ~c.role.present /\ conf.anon = "" THEN Err("PGRST302", "")
    ELSE IF role = conf.anon \/ conf.permitted = {} \/ role \in conf.permitted
         THEN Ok(role, FALSE)
    ELSE Err("403", role)

Anon(conf) == IF conf.anon = "" THEN Err("PGRST302", "") ELSE Ok(conf.anon, TRUE)

(***************************************************************************)
(* Authenticate, cut where another goroutine may come between: the cache's *)
(* get and put are two critical sections, with the verification between.   *)
(***************************************************************************)
Headers == {[bearer |-> FALSE, token |-> Nil], [bearer |-> TRUE, token |-> Nil]}
           \cup [bearer : {TRUE}, token : Tokens]

Conf(r) == verifiers[req[r].ver].conf
Cached(conf) == conf.cacheSize > 0       \* v.cache # nil
NoClaims == [none |-> TRUE]
Call(st, ver, h, claims, at, res) ==
    [st |-> st, ver |-> ver, header |-> h, claims |-> claims, at |-> at, res |-> res]
NoReq == Call("none", 1, [bearer |-> FALSE, token |-> Nil], NoClaims, 0, Pending)

Init ==
    /\ clock = 0
    /\ \E c \in Confs : verifiers = <<[conf |-> c, cache |-> EmptyCache]>>
    /\ req = [r \in Requests |-> NoReq]

\* bearer and the answers that need no token
Begin(r, h) ==
    /\ req[r].st = "none"
    /\ LET ver  == Len(verifiers)
           conf == verifiers[ver].conf
           answer(res) == Call("done", ver, h, NoClaims, clock, res)
       IN req' = [req EXCEPT ![r] =
              IF ~h.bearer THEN answer(Anon(conf))
              ELSE IF h.token = Nil THEN answer(Err("PGRST301", "empty"))
              ELSE IF conf.keys = {} THEN answer(Err("PGRST300", ""))
              ELSE Call(IF Cached(conf) THEN "get" ELSE "verify", ver, h, NoClaims,
                        clock, Pending)]
    /\ UNCHANGED <<clock, verifiers>>

\* The call of r goes on in another state, or is answered.
Continue(r, st, claims, at) ==
    req' = [req EXCEPT ![r] = Call(st, @.ver, @.header, claims, at, Pending)]
Answer(r, at, res) ==
    req' = [req EXCEPT ![r] = Call("done", @.ver, @.header, NoClaims, at, res)]
UseCache(v, c) == verifiers' = [verifiers EXCEPT ![v] = [conf |-> @.conf, cache |-> c]]

CacheGet(r) ==
    /\ req[r].st = "get"
    /\ LET c == verifiers[req[r].ver].cache
           t == req[r].header.token
       IN /\ UseCache(req[r].ver, GetOp(c, t))
          /\ IF Hit(c, t) THEN Continue(r, "hit", c.items[t], clock)
                          ELSE Continue(r, "verify", NoClaims, clock)
    /\ UNCHANGED clock

\* Faulty variant: a cached token is trusted without another look at the clock.
HitUnchecked(r) ==
    /\ req[r].st = "hit"
    /\ Answer(r, clock, Resolve(req[r].claims, Conf(r)))
    /\ UNCHANGED <<clock, verifiers>>

\* A hit: the claims are validated again, against the clock of now.
HitValidate(r) ==
    /\ req[r].st = "hit"
    /\ LET fault == ValidateClaims(req[r].claims, Conf(r), clock) IN
       Answer(r, clock, IF fault # "" THEN Err("PGRST303", fault)
                        ELSE Resolve(req[r].claims, Conf(r)))
    /\ UNCHANGED <<clock, verifiers>>

\* Faulty variant: what verify refuses for its claims is cached all the same.
VerifyCachesRefused(r) ==
    /\ req[r].st = "verify"
    /\ LET t == req[r].header.token
           v == Verify(t, Conf(r), clock)
       IN IF v.code = "PGRST301" THEN Answer(r, clock, v)
          ELSE Continue(r, "put", t.claims, clock)
    /\ UNCHANGED <<clock, verifiers>>

\* A miss, or no cache: the whole verification.
VerifyToken(r) ==
    /\ req[r].st = "verify"
    /\ LET t == req[r].header.token
           v == Verify(t, Conf(r), clock)
       IN IF v # Pending THEN Answer(r, clock, v)
          ELSE IF Cached(Conf(r))
          THEN Continue(r, "put", t.claims, clock)
          ELSE Answer(r, clock, Resolve(t.claims, Conf(r)))
    /\ UNCHANGED <<clock, verifiers>>

\* put, then resolve, which reads no clock
CachePut(r) ==
    /\ req[r].st = "put"
    /\ UseCache(req[r].ver, PutOp(verifiers[req[r].ver].cache, req[r].header.token,
                                  req[r].claims, Conf(r).cacheSize))
    /\ Answer(r, req[r].at, Resolve(req[r].claims, Conf(r)))
    /\ UNCHANGED clock

Finish(r) ==
    /\ req[r].st = "done"
    /\ req' = [req EXCEPT ![r] = NoReq]
    /\ UNCHANGED <<clock, verifiers>>

\* The wall clock: it may also be set back.
SetClock(n) ==
    /\ clock' = n /\ n # clock
    /\ UNCHANGED <<verifiers, req>>

\* Faulty variant: the new verifier takes over the old one's cache.
ReloadKeepsCache(c) ==
    /\ Len(verifiers) <= MaxReloads
    /\ verifiers' = Append(verifiers, [conf |-> c, cache |-> verifiers[Len(verifiers)].cache])
    /\ UNCHANGED <<clock, req>>

\* attachAuth in a rebuild: a new Verifier with an empty cache.  Requests in
\* flight keep theirs.
Reload(c) ==
    /\ Len(verifiers) <= MaxReloads
    /\ verifiers' = Append(verifiers, [conf |-> c, cache |-> EmptyCache])
    /\ UNCHANGED <<clock, req>>

Next ==
    \/ \E r \in Requests :
          \/ \E h \in Headers : Begin(r, h)
          \/ CacheGet(r) \/ HitValidate(r) \/ VerifyToken(r) \/ CachePut(r) \/ Finish(r)
    \/ \E n \in 0 .. MaxClock : SetClock(n)
    \/ \E c \in Confs : Reload(c)

Spec == Init /\ [][Next]_vars

-----------------------------------------------------------------------------
\* What the verifier would answer without a cache, to a header at a time.
Uncached(h, conf, now) ==
    IF ~h.bearer THEN Anon(conf)
    ELSE IF h.token = Nil THEN Err("PGRST301", "empty")
    ELSE IF conf.keys = {} THEN Err("PGRST300", "")
    ELSE LET v == Verify(h.token, conf, now) IN
         IF v # Pending THEN v ELSE Resolve(h.token.claims, conf)

\* "the cache only skips signature work": whatever requests, evictions, clock
\* changes and reloads come between, an answer is the one the request's own
\* verifier would give without a cache at the instant it looked at the clock.
CacheTransparent ==
    \A r \in Requests : req[r].st = "done" =>
        req[r].res = Uncached(req[r].header, Conf(r), req[r].at)

\* The audience clause, as checkAud has it: a claim that names an audience must
\* name the configured one. A token without the claim, or with an empty list, is
\* accepted whatever audience is configured; the comment on Config.Audience
\* (auth.go:54) says that the audience must appear.
AudienceFits(aud, conf) ==
    /\ aud.kind \in {"absent", "string", "list"}
    /\ aud.kind = "string" \/ (aud.kind = "list" /\ aud.vals # {}) =>
         conf.aud = "" \/ conf.aud \in aud.vals

\* What a token must be for a verifier to accept it, declaratively: signed with an
\* allowed method by a configured key of that method's family, which is the key
\* that the token's kid names, if any, and not pinned to another method; not
\* expired or early by more than the skew; and meant for no other audience.
ValidToken(t, conf, now) ==
    /\ t.shape = "jws" /\ t.alg \in Methods(conf)
    /\ \E k \in conf.keys : /\ k.id = t.signer /\ MethodMatchesKey(t.alg, k)
                            /\ t.kid \in {"", k.kid} /\ k.alg \in {"", t.alg}
    /\ "text" \notin {t.claims.exp.kind, t.claims.nbf.kind, t.claims.iat.kind}
    /\ t.claims.exp.kind = "num" => now <= t.claims.exp.n + conf.skew
    /\ t.claims.nbf.kind = "num" => now >= t.claims.nbf.n - conf.skew
    /\ t.claims.iat.kind = "num" => now >= t.claims.iat.n - conf.skew
    /\ AudienceFits(t.claims.aud, conf)

\* No token is accepted that is not valid for the request's own verifier, cached or
\* not (verify, keyfunc, validateClaims, checkAud).
AcceptedIsValid ==
    \A r \in Requests : req[r].st = "done" /\ req[r].res.code = "ok" /\ ~req[r].res.anon =>
        ValidToken(req[r].header.token, Conf(r), req[r].at)

\* A cache only holds tokens its own verifier decodes, with their claims, and
\* keeps to its size: two requests that miss the same token and both put it
\* leave one entry.
CachesSound ==
    \A g \in DOMAIN verifiers :
        LET conf == verifiers[g].conf
            c    == verifiers[g].cache
        IN  /\ WellFormed(c, Tokens, {t.claims : t \in Tokens}, conf.cacheSize)
            /\ \A t \in KeysOf(c) :
                  /\ c.items[t] = t.claims
                  /\ Decodes(t, conf)
=============================================================================
