----------------------------- MODULE AuthProofs -----------------------------
(***************************************************************************)
(* The token cache is transparent, for any tokens, configurations, number  *)
(* of requests, reloads and clock changes.                                 *)
(***************************************************************************)
EXTENDS Auth, SieveOpsProofs

ClaimSets == {t.claims : t \in Tokens}

Typed ==
    /\ clock \in Int
    /\ \E S : verifiers \in Seq(S)
    /\ Len(verifiers) >= 1
    /\ \A g \in 1 .. Len(verifiers) : verifiers[g].conf \in Confs
    /\ DOMAIN req = Requests

\* What holds of a call at each of its states, given its verifier's conf.
CallFits(q, conf) ==
    /\ q.header \in Headers /\ q.at \in Int
    /\ q.st \in {"get", "hit", "verify", "put"} =>
          q.header.bearer /\ q.header.token # Nil /\ conf.keys # {}
    /\ q.st = "hit" => q.claims = q.header.token.claims /\ Decodes(q.header.token, conf)
    /\ q.st = "put" => /\ q.claims = q.header.token.claims
                       /\ Verify(q.header.token, conf, q.at) = Pending
    /\ q.st = "done" => q.res = Uncached(q.header, conf, q.at)

CallsFit ==
    \A r \in Requests : /\ req[r].ver \in 1 .. Len(verifiers)
                        /\ CallFits(req[r], verifiers[req[r].ver].conf)

CacheSound(v) ==
    /\ WellFormed(v.cache, Tokens, ClaimSets, v.conf.cacheSize)
    /\ \A t \in KeysOf(v.cache) : v.cache.items[t] = t.claims /\ Decodes(t, v.conf)

IInv == Typed /\ (\A g \in 1 .. Len(verifiers) : CacheSound(verifiers[g])) /\ CallsFit

-----------------------------------------------------------------------------
\* verify, split into the part that depends on the clock and the part a cached
\* entry stands for.
LEMMA VerifyOfDecoded ==
    ASSUME NEW t, NEW conf, NEW now
    PROVE  /\ Decodes(t, conf) =>
                 Verify(t, conf, now) = IF ValidateClaims(t.claims, conf, now) # ""
                     THEN Err("PGRST303", ValidateClaims(t.claims, conf, now)) ELSE Pending
           /\ Verify(t, conf, now) = Pending => Decodes(t, conf)
<1>1. \A why : Err("PGRST301", why) # Pending /\ Err("PGRST303", why) # Pending
  BY DEF Err, Pending
<1> QED
  BY <1>1 DEF Verify, Decodes

\* A token of a bearer header is one of Tokens.
LEMMA HeaderToken ==
    ASSUME NEW h \in Headers, h.bearer, h.token # Nil PROVE h.token \in Tokens
<1>1. CASE h = [bearer |-> FALSE, token |-> Nil] \/ h = [bearer |-> TRUE, token |-> Nil]
  BY <1>1
<1>2. CASE h \in [bearer : {TRUE}, token : Tokens]
  BY <1>2
<1> QED
  BY <1>1, <1>2 DEF Headers

\* Giving one verifier another cache changes nothing else.
LEMMA UseCacheEffect ==
    ASSUME Typed, NEW v \in 1 .. Len(verifiers), NEW c, UseCache(v, c)
    PROVE  /\ \E S : verifiers' \in Seq(S)
           /\ Len(verifiers') = Len(verifiers)
           /\ verifiers'[v] = [conf |-> verifiers[v].conf, cache |-> c]
           /\ \A g \in 1 .. Len(verifiers) : g # v => verifiers'[g] = verifiers[g]
           /\ \A g \in 1 .. Len(verifiers) : verifiers'[g].conf = verifiers[g].conf
<1>1. PICK S : verifiers \in Seq(S)
  BY DEF Typed
<1> DEFINE x == [conf |-> verifiers[v].conf, cache |-> c]
           T == S \cup {x}
<1>2. verifiers \in Seq(T)
  BY <1>1, SeqMonotonic
<1>3. verifiers' = [verifiers EXCEPT ![v] = x]
  BY DEF UseCache
<1>4. x.conf = verifiers[v].conf
  OBVIOUS
<1> HIDE DEF x, T
<1>5. x \in T
  BY DEF T
<1>6. /\ verifiers' \in Seq(T) /\ Len(verifiers') = Len(verifiers) /\ verifiers'[v] = x
      /\ \A g \in 1 .. Len(verifiers) : g # v => verifiers'[g] = verifiers[g]
  BY <1>2, <1>3, <1>5, ExceptSeq
<1> QED
  BY <1>4, <1>6 DEF x

\* A step that changes the call of one request, and of the verifiers at most
\* one cache, needs no more than that call and that cache looked at.
LEMMA OneCall ==
    ASSUME IInv, NEW r \in Requests, NEW q, req' = [req EXCEPT ![r] = q],
           clock' = clock, Len(verifiers') = Len(verifiers),
           \E S : verifiers' \in Seq(S),
           \A g \in 1 .. Len(verifiers) : verifiers'[g].conf = verifiers[g].conf,
           \A g \in 1 .. Len(verifiers) : CacheSound(verifiers'[g]),
           q.ver \in 1 .. Len(verifiers),
           CallFits(q, verifiers[q.ver].conf)
    PROVE  IInv'
<1>1. Typed'
  BY DEF IInv, Typed
<1>2. (\A g \in 1 .. Len(verifiers) : CacheSound(verifiers[g]))'
  BY DEF CacheSound
<1>3. ASSUME NEW s \in Requests
      PROVE  req'[s].ver \in 1 .. Len(verifiers') /\ CallFits(req'[s], verifiers'[req'[s].ver].conf)
  <2>1. DOMAIN req = Requests
    BY DEF IInv, Typed
  <2>2. CASE s = r
    BY <2>1, <2>2
  <2>3. CASE s # r
    BY <2>1, <2>3 DEF IInv, CallsFit
  <2> QED
    BY <2>2, <2>3
<1>4. CallsFit'
  BY <1>3 DEF CallsFit, CallFits
<1> QED
  BY <1>1, <1>2, <1>4 DEF IInv

\* The same for a step that leaves the verifiers alone.
LEMMA OneCallOnly ==
    ASSUME IInv, NEW r \in Requests, NEW q, req' = [req EXCEPT ![r] = q],
           UNCHANGED <<clock, verifiers>>,
           q.ver \in 1 .. Len(verifiers),
           CallFits(q, verifiers[q.ver].conf)
    PROVE  IInv'
<1>1. \E S : verifiers \in Seq(S)
  BY DEF IInv, Typed
<1>2. \A g \in 1 .. Len(verifiers) : CacheSound(verifiers[g])
  BY DEF IInv
<1> QED
  BY <1>1, <1>2, OneCall

\* The latest verifier exists.
LEMMA LatestVerifier == IInv => Len(verifiers) \in 1 .. Len(verifiers)
<1> SUFFICES ASSUME IInv PROVE Len(verifiers) \in 1 .. Len(verifiers)
  OBVIOUS
<1>1. PICK S : verifiers \in Seq(S)
  BY DEF IInv, Typed
<1>2. Len(verifiers) \in Nat /\ Len(verifiers) >= 1
  BY <1>1, LenProperties DEF IInv, Typed
<1> QED
  BY <1>2

\* A call that starts, and one that is answered without a token.
LEMMA BeginKeeps ==
    ASSUME IInv, NEW r \in Requests, NEW h \in Headers, Begin(r, h) PROVE IInv'
<1> DEFINE ver  == Len(verifiers)
           conf == verifiers[ver].conf
           done(res) == Call("done", ver, h, NoClaims, clock, res)
<1>1. ver \in 1 .. Len(verifiers) /\ clock \in Int
  BY LatestVerifier DEF IInv, Typed
<1>2. UNCHANGED <<clock, verifiers>>
  BY DEF Begin
<1>3. ASSUME NEW res, res = Uncached(h, conf, clock), req' = [req EXCEPT ![r] = done(res)]
      PROVE  IInv'
  <2>1. done(res).ver = ver /\ CallFits(done(res), conf)
    BY <1>1, <1>3 DEF Call, CallFits
  <2> QED
    BY <1>1, <1>2, <1>3, <2>1, OneCallOnly
<1>4. CASE ~h.bearer
  BY <1>3, <1>4 DEF Begin, Uncached
<1>5. CASE h.bearer /\ h.token = Nil
  BY <1>3, <1>5 DEF Begin, Uncached
<1>6. CASE h.bearer /\ h.token # Nil /\ conf.keys = {}
  BY <1>3, <1>6 DEF Begin, Uncached
<1>7. CASE h.bearer /\ h.token # Nil /\ conf.keys # {}
  <2> DEFINE q == Call(IF Cached(conf) THEN "get" ELSE "verify", ver, h, NoClaims, clock, Pending)
  <2>1. req' = [req EXCEPT ![r] = q]
    BY <1>7 DEF Begin
  <2>2. q.ver = ver /\ CallFits(q, conf)
    BY <1>1, <1>7 DEF Call, CallFits
  <2> QED
    BY <1>1, <1>2, <2>1, <2>2, OneCallOnly
<1> QED
  BY <1>4, <1>5, <1>6, <1>7

\* A call that goes on or is answered keeps its verifier and its header.
LEMMA CallFields ==
    ASSUME NEW st, NEW ver, NEW h, NEW claims, NEW at, NEW res
    PROVE  LET q == Call(st, ver, h, claims, at, res) IN
           /\ q.st = st /\ q.ver = ver /\ q.header = h
           /\ q.claims = claims /\ q.at = at /\ q.res = res
BY DEF Call

\* What is known of a call under way.
LEMMA CallKnown ==
    ASSUME IInv, NEW r \in Requests
    PROVE  /\ req[r].ver \in 1 .. Len(verifiers)
           /\ CallFits(req[r], Conf(r))
           /\ CacheSound(verifiers[req[r].ver])
           /\ Conf(r) = verifiers[req[r].ver].conf /\ Conf(r) \in Confs
           /\ clock \in Int
BY DEF IInv, CallsFit, Conf, Typed

\* A hit answers what the whole verification would: the cached token decodes.
LEMMA HitKeeps ==
    ASSUME IInv, NEW r \in Requests, HitValidate(r) PROVE IInv'
<1> DEFINE t   == req[r].header.token
           f   == ValidateClaims(t.claims, Conf(r), clock)
           res == IF f # "" THEN Err("PGRST303", f) ELSE Resolve(t.claims, Conf(r))
           q   == Call("done", req[r].ver, req[r].header, NoClaims, clock, res)
<1>1. /\ req[r].header \in Headers /\ req[r].header.bearer /\ t # Nil /\ Conf(r).keys # {}
      /\ req[r].claims = t.claims /\ Decodes(t, Conf(r))
  BY CallKnown DEF HitValidate, CallFits
<1>2. req' = [req EXCEPT ![r] = q] /\ UNCHANGED <<clock, verifiers>>
  BY <1>1 DEF HitValidate, Answer
<1>3. res = Uncached(req[r].header, Conf(r), clock)
  <2>1. Err("PGRST303", f) # Pending
    BY DEF Err, Pending
  <2> QED
    BY <1>1, <2>1, VerifyOfDecoded DEF Uncached
<1> HIDE DEF res
<1>4. /\ q.st = "done" /\ q.ver = req[r].ver /\ q.header = req[r].header
      /\ q.at = clock /\ q.res = res
  BY CallFields
<1>5. req[r].ver \in 1 .. Len(verifiers) /\ clock \in Int /\ Conf(r) = verifiers[req[r].ver].conf
  BY CallKnown
<1> HIDE DEF q
<1>6. CallFits(q, Conf(r))
  BY <1>1, <1>3, <1>4, <1>5 DEF CallFits
<1> QED
  BY <1>2, <1>4, <1>5, <1>6, OneCallOnly

\* A miss verifies, and hands on only claims that were found valid.
LEMMA VerifyKeeps ==
    ASSUME IInv, NEW r \in Requests, VerifyToken(r) PROVE IInv'
<1> DEFINE t == req[r].header.token
           v == Verify(t, Conf(r), clock)
<1>1. req[r].header \in Headers /\ req[r].header.bearer /\ t # Nil /\ Conf(r).keys # {}
  BY CallKnown DEF VerifyToken, CallFits
<1>2. UNCHANGED <<clock, verifiers>>
  BY DEF VerifyToken
<1>3. ASSUME NEW res, res = Uncached(req[r].header, Conf(r), clock), Answer(r, clock, res)
      PROVE  IInv'
  <2> DEFINE q == Call("done", req[r].ver, req[r].header, NoClaims, clock, res)
  <2>1. req' = [req EXCEPT ![r] = q]
    BY <1>3 DEF Answer
  <2>2. CallFits(q, Conf(r))
    BY <1>1, <1>3, CallKnown, CallFields DEF CallFits
  <2>3. q.ver = req[r].ver
    BY CallFields
  <2>4. q.ver \in 1 .. Len(verifiers) /\ Conf(r) = verifiers[q.ver].conf
    BY <2>3, CallKnown
  <2> HIDE DEF q
  <2> QED
    BY <1>2, <2>1, <2>2, <2>4, OneCallOnly
<1>4. CASE v # Pending
  BY <1>1, <1>3, <1>4 DEF VerifyToken, Uncached
<1>5. CASE v = Pending /\ ~Cached(Conf(r))
  BY <1>1, <1>3, <1>5 DEF VerifyToken, Uncached
<1>6. CASE v = Pending /\ Cached(Conf(r))
  <2> DEFINE q == Call("put", req[r].ver, req[r].header, t.claims, clock, Pending)
  <2>1. req' = [req EXCEPT ![r] = q]
    BY <1>6 DEF VerifyToken, Continue
  <2>2. CallFits(q, Conf(r))
    BY <1>1, <1>6, CallKnown, CallFields DEF CallFits
  <2>3. q.ver = req[r].ver
    BY CallFields
  <2>4. q.ver \in 1 .. Len(verifiers) /\ Conf(r) = verifiers[q.ver].conf
    BY <2>3, CallKnown
  <2> HIDE DEF q
  <2> QED
    BY <1>2, <2>1, <2>2, <2>4, OneCallOnly
<1> QED
  BY <1>4, <1>5, <1>6

\* The caches after one of them is replaced by a sound one.
LEMMA CachesAfter ==
    ASSUME IInv, NEW v \in 1 .. Len(verifiers), NEW c, UseCache(v, c),
           CacheSound([conf |-> verifiers[v].conf, cache |-> c])
    PROVE  /\ \A g \in 1 .. Len(verifiers) : CacheSound(verifiers'[g])
           /\ \A g \in 1 .. Len(verifiers) : verifiers'[g].conf = verifiers[g].conf
           /\ Len(verifiers') = Len(verifiers)
           /\ \E S : verifiers' \in Seq(S)
<1>1. Typed /\ \A g \in 1 .. Len(verifiers) : CacheSound(verifiers[g])
  BY DEF IInv
<1>2. /\ verifiers'[v] = [conf |-> verifiers[v].conf, cache |-> c]
      /\ \A g \in 1 .. Len(verifiers) : g # v => verifiers'[g] = verifiers[g]
  BY <1>1, UseCacheEffect
<1>3. \A g \in 1 .. Len(verifiers) : CacheSound(verifiers'[g])
  BY <1>1, <1>2
<1> QED
  BY <1>1, <1>3, UseCacheEffect

\* A lookup returns the claims of the token it was asked for.
LEMMA GetKeeps ==
    ASSUME IInv, NEW r \in Requests, CacheGet(r) PROVE IInv'
<1> DEFINE v == req[r].ver
           c == verifiers[v].cache
           t == req[r].header.token
           d == GetOp(c, t)
           x == [conf |-> Conf(r), cache |-> d]
<1>1. req[r].header \in Headers /\ req[r].header.bearer /\ t # Nil /\ Conf(r).keys # {}
  BY CallKnown DEF CacheGet, CallFits
<1>2. /\ WellFormed(c, Tokens, ClaimSets, Conf(r).cacheSize)
      /\ \A k \in KeysOf(c) : c.items[k] = k.claims /\ Decodes(k, Conf(r))
  BY CallKnown DEF CacheSound
<1>3. Conf(r).cacheSize \in Int
  BY CallKnown, AuthAssumption
<1>4. /\ WellFormed(d, Tokens, ClaimSets, Conf(r).cacheSize)
      /\ d.items = c.items /\ KeysOf(d) = KeysOf(c)
  BY <1>2, <1>3, GetWellFormed
<1>5. x.conf = Conf(r) /\ x.cache = d
  OBVIOUS
<1>6. CacheSound(x)
  <2> HIDE DEF x, d
  <2> QED
    BY <1>2, <1>4, <1>5 DEF CacheSound
<1>7. UseCache(v, d) /\ clock' = clock
  BY DEF CacheGet
<1> DEFINE q == IF Hit(c, t) THEN Call("hit", v, req[r].header, c.items[t], clock, Pending)
                             ELSE Call("verify", v, req[r].header, NoClaims, clock, Pending)
<1>8. req' = [req EXCEPT ![r] = q]
  BY DEF CacheGet, Continue
<1>9. q.ver = v /\ CallFits(q, Conf(r))
  <2>1. CASE Hit(c, t)
    <3>1. c.items[t] = t.claims /\ Decodes(t, Conf(r))
      <4>1. t \in KeysOf(c)
        BY <2>1 DEF Hit
      <4> HIDE DEF c, t
      <4> QED
        BY <1>2, <4>1
    <3>2. /\ q.st = "hit" /\ q.ver = v /\ q.header = req[r].header
          /\ q.claims = c.items[t] /\ q.at = clock
      <4>1. q = Call("hit", v, req[r].header, c.items[t], clock, Pending)
        BY <2>1
      <4> HIDE DEF q, v, c, t
      <4> QED
        BY <4>1 DEF Call
    <3>3. CallFits(req[r], Conf(r)) /\ clock \in Int
      BY CallKnown
    <3> HIDE DEF q
    <3> QED
      BY <1>1, <3>1, <3>2, <3>3 DEF CallFits
  <2>2. CASE ~Hit(c, t)
    <3>1. q.st = "verify" /\ q.ver = v /\ q.header = req[r].header /\ q.at = clock
      <4>1. q = Call("verify", v, req[r].header, NoClaims, clock, Pending)
        BY <2>2
      <4> HIDE DEF q, v, c, t
      <4> QED
        BY <4>1 DEF Call
    <3>2. CallFits(req[r], Conf(r)) /\ clock \in Int
      BY CallKnown
    <3> HIDE DEF q
    <3> QED
      BY <1>1, <3>1, <3>2 DEF CallFits
  <2> QED
    BY <2>1, <2>2
<1> HIDE DEF q, d, x, v, c, t
<1>10. /\ \A g \in 1 .. Len(verifiers) : CacheSound(verifiers'[g])
       /\ \A g \in 1 .. Len(verifiers) : verifiers'[g].conf = verifiers[g].conf
       /\ Len(verifiers') = Len(verifiers)
       /\ \E S : verifiers' \in Seq(S)
  BY <1>6, <1>7, CallKnown, CachesAfter DEF x, v
<1> QED
  BY <1>7, <1>8, <1>9, <1>10, CallKnown, OneCall DEF v

\* A put leaves the cache sound and answers with the role of the claims.
LEMMA PutKeeps ==
    ASSUME IInv, NEW r \in Requests, CachePut(r) PROVE IInv'
<1> DEFINE v == req[r].ver
           c == verifiers[v].cache
           t == req[r].header.token
           n == Conf(r).cacheSize
           d == PutOp(c, t, req[r].claims, n)
           x == [conf |-> Conf(r), cache |-> d]
<1>1. /\ req[r].header \in Headers /\ req[r].header.bearer /\ t # Nil /\ Conf(r).keys # {}
      /\ req[r].claims = t.claims /\ Verify(t, Conf(r), req[r].at) = Pending
      /\ req[r].at \in Int
  BY CallKnown DEF CachePut, CallFits
<1>2. t \in Tokens /\ t.claims \in ClaimSets /\ Decodes(t, Conf(r))
  BY <1>1, HeaderToken, VerifyOfDecoded DEF ClaimSets
<1>3. /\ WellFormed(c, Tokens, ClaimSets, n)
      /\ \A k \in KeysOf(c) : c.items[k] = k.claims /\ Decodes(k, Conf(r))
  BY CallKnown DEF CacheSound
<1>4. n \in Int
  BY CallKnown, AuthAssumption
<1>5. WellFormed(d, Tokens, ClaimSets, n) /\ PutEffect(c, d, t, t.claims, n)
  BY <1>1, <1>2, <1>3, <1>4, PutWellFormed
<1>6. x.conf = Conf(r) /\ x.cache = d
  OBVIOUS
<1>7. CacheSound(x)
  <2> HIDE DEF x, d
  <2>1. \A k \in KeysOf(d) : d.items[k] = k.claims /\ Decodes(k, Conf(r))
    BY <1>2, <1>3, <1>5 DEF PutEffect
  <2> QED
    BY <1>5, <1>6, <2>1 DEF CacheSound
<1>8. UseCache(v, d) /\ clock' = clock
  BY DEF CachePut
<1> DEFINE q == Call("done", v, req[r].header, NoClaims, req[r].at, Resolve(t.claims, Conf(r)))
<1>9. req' = [req EXCEPT ![r] = q]
  BY <1>1 DEF CachePut, Answer
<1>10. Resolve(t.claims, Conf(r)) = Uncached(req[r].header, Conf(r), req[r].at)
  BY <1>1 DEF Uncached
<1>11. q.ver = v /\ CallFits(q, Conf(r))
  BY <1>1, <1>10, CallKnown, CallFields DEF CallFits
<1> HIDE DEF q, d, x, v, c, t
<1>12. /\ \A g \in 1 .. Len(verifiers) : CacheSound(verifiers'[g])
       /\ \A g \in 1 .. Len(verifiers) : verifiers'[g].conf = verifiers[g].conf
       /\ Len(verifiers') = Len(verifiers)
       /\ \E S : verifiers' \in Seq(S)
  BY <1>7, <1>8, CallKnown, CachesAfter DEF x, v
<1> QED
  BY <1>8, <1>9, <1>11, <1>12, CallKnown, OneCall DEF v

\* An answered call leaves nothing behind.
LEMMA FinishKeeps ==
    ASSUME IInv, NEW r \in Requests, Finish(r) PROVE IInv'
<1>1. NoReq.st = "none" /\ NoReq.ver = 1 /\ NoReq.at = 0
      /\ NoReq.header = [bearer |-> FALSE, token |-> Nil]
  BY CallFields DEF NoReq
<1>2. req' = [req EXCEPT ![r] = NoReq] /\ UNCHANGED <<clock, verifiers>>
  BY DEF Finish
<1>3. CallFits(NoReq, verifiers[NoReq.ver].conf)
  BY <1>1 DEF CallFits, Headers
<1>4. NoReq.ver \in 1 .. Len(verifiers)
  BY <1>1, LatestVerifier
<1> QED
  BY <1>2, <1>3, <1>4, OneCallOnly

\* No answer depends on a clock that moves after it.
LEMMA ClockKeeps ==
    ASSUME IInv, NEW n \in 0 .. MaxClock, SetClock(n) PROVE IInv'
<1>1. clock' \in Int /\ UNCHANGED <<verifiers, req>>
  BY AuthAssumption DEF SetClock
<1>2. Typed'
  BY <1>1 DEF IInv, Typed
<1>3. (\A g \in 1 .. Len(verifiers) : CacheSound(verifiers[g]))' /\ CallsFit'
  BY <1>1 DEF IInv, CallsFit, CallFits, CacheSound
<1> QED
  BY <1>2, <1>3 DEF IInv

\* A new verifier starts with an empty cache and disturbs no earlier one.
LEMMA ReloadKeeps ==
    ASSUME IInv, NEW c \in Confs, Reload(c) PROVE IInv'
<1> DEFINE x == [conf |-> c, cache |-> EmptyCache]
           L == Len(verifiers)
<1>1. PICK S : verifiers \in Seq(S)
  BY DEF IInv, Typed
<1> DEFINE T == S \cup {x}
<1>2. verifiers \in Seq(T) /\ L \in Nat
  BY <1>1, SeqMonotonic, LenProperties
<1>3. verifiers' = Append(verifiers, x) /\ UNCHANGED <<clock, req>>
  BY DEF Reload
<1>4. x.conf = c /\ x.cache = EmptyCache
  OBVIOUS
<1>5. x \in T
  OBVIOUS
<1> HIDE DEF x, T
<1>6. /\ verifiers' \in Seq(T) /\ Len(verifiers') = L + 1
      /\ verifiers'[L + 1] = x
      /\ \A g \in 1 .. L : verifiers'[g] = verifiers[g]
  BY <1>2, <1>3, <1>5, AppendProperties
<1>7. CacheSound(x)
  <2>1. c.cacheSize \in Int
    BY AuthAssumption
  <2> QED
    BY <1>4, <2>1, EmptyWellFormed DEF CacheSound
<1>8. \A g \in 1 .. L + 1 : g \in 1 .. L \/ g = L + 1
  BY <1>2
<1>9. \A g \in 1 .. L + 1 : CacheSound(verifiers'[g])
  BY <1>6, <1>7, <1>8 DEF IInv
<1>10. Typed'
  <2>1. \A g \in 1 .. L + 1 : verifiers'[g].conf \in Confs
    BY <1>4, <1>6, <1>8 DEF IInv, Typed
  <2>2. clock' \in Int /\ DOMAIN req' = Requests
    BY <1>3 DEF IInv, Typed
  <2>3. Len(verifiers') >= 1
    BY <1>2, <1>6
  <2> QED
    BY <1>6, <2>1, <2>2, <2>3 DEF Typed
<1>11. CallsFit'
  <2>1. ASSUME NEW r \in Requests
        PROVE  /\ req'[r].ver \in 1 .. Len(verifiers')
               /\ CallFits(req'[r], verifiers'[req'[r].ver].conf)
    <3>1. req[r].ver \in 1 .. L /\ CallFits(req[r], verifiers[req[r].ver].conf)
      BY DEF IInv, CallsFit
    <3>2. req[r].ver \in 1 .. L + 1
      BY <1>2, <3>1
    <3> QED
      BY <1>3, <1>6, <3>1, <3>2
  <2> QED
    BY <2>1 DEF CallsFit, CallFits
<1>12. (\A g \in 1 .. Len(verifiers) : CacheSound(verifiers[g]))'
  BY <1>6, <1>9 DEF CacheSound
<1> QED
  BY <1>10, <1>11, <1>12 DEF IInv

\* The first verifier has an empty cache and no call has started.
LEMMA InitIInv == Init => IInv
<1> SUFFICES ASSUME Init PROVE IInv
  OBVIOUS
<1>1. PICK c \in Confs : verifiers = <<[conf |-> c, cache |-> EmptyCache]>>
  BY DEF Init
<1> DEFINE x == [conf |-> c, cache |-> EmptyCache]
<1>2. x.conf = c /\ x.cache = EmptyCache
  OBVIOUS
<1>3. verifiers = <<x>>
  BY <1>1
<1> HIDE DEF x
<1>4. verifiers \in Seq({x}) /\ Len(verifiers) = 1 /\ verifiers[1] = x
  BY <1>3
<1>5. CacheSound(x)
  <2>1. c.cacheSize \in Int
    BY AuthAssumption
  <2> QED
    BY <1>2, <2>1, EmptyWellFormed DEF CacheSound
<1>6. clock = 0 /\ req = [r \in Requests |-> NoReq]
  BY DEF Init
<1>7. \E S : verifiers \in Seq(S)
  BY <1>4
<1>8. \A g \in 1 .. Len(verifiers) : verifiers[g].conf \in Confs
  BY <1>2, <1>4
<1>9. Typed
  BY <1>4, <1>6, <1>7, <1>8 DEF Typed
<1>10. NoReq.st = "none" /\ NoReq.ver = 1 /\ NoReq.at = 0
      /\ NoReq.header = [bearer |-> FALSE, token |-> Nil]
  BY CallFields DEF NoReq
<1>11. CallFits(NoReq, verifiers[NoReq.ver].conf)
  BY <1>10 DEF CallFits, Headers
<1>12. CallsFit
  BY <1>4, <1>6, <1>10, <1>11 DEF CallsFit
<1> QED
  BY <1>4, <1>5, <1>12, <1>9 DEF IInv

\* Every step preserves the inductive invariant.
LEMMA NextIInv == IInv /\ [Next]_vars => IInv'
<1> SUFFICES ASSUME IInv, [Next]_vars PROVE IInv'
  OBVIOUS
<1>1. CASE UNCHANGED vars
  BY <1>1 DEF vars, IInv, Typed, CallsFit, CallFits, CacheSound
<1>2. ASSUME NEW r \in Requests, \E h \in Headers : Begin(r, h) PROVE IInv'
  BY <1>2, BeginKeeps
<1>3. ASSUME NEW r \in Requests,
             CacheGet(r) \/ HitValidate(r) \/ VerifyToken(r) \/ CachePut(r) \/ Finish(r)
      PROVE  IInv'
  BY <1>3, GetKeeps, HitKeeps, VerifyKeeps, PutKeeps, FinishKeeps
<1>4. CASE \E n \in 0 .. MaxClock : SetClock(n)
  BY <1>4, ClockKeeps
<1>5. CASE \E c \in Confs : Reload(c)
  BY <1>5, ReloadKeeps
<1> QED
  BY <1>1, <1>2, <1>3, <1>4, <1>5 DEF Next

\* The inductive invariant: what is in flight and what is cached agree with the
\* verifier they belong to.
LEMMA AuthInvariant == Spec => []IInv
BY InitIInv, NextIInv, PTL DEF Spec

\* For any tokens, configurations, cache sizes and schedules, a cached answer
\* is the answer the request's verifier would give without its cache at the
\* moment it read the clock (Authenticate, verify, jwtCache).
THEOREM CacheIsTransparent == Spec => []CacheTransparent
<1>1. IInv => CacheTransparent
  BY DEF IInv, CallsFit, CallFits, CacheTransparent, Conf
<1> QED
  BY <1>1, AuthInvariant, PTL

\* Every verifier's cache stays within its size and holds only tokens that
\* verifier decodes, across reloads that change the keys.
THEOREM CachesStaySound == Spec => []CachesSound
<1>1. IInv => CachesSound
  <2> SUFFICES ASSUME IInv PROVE CachesSound
    OBVIOUS
  <2>1. PICK S : verifiers \in Seq(S)
    BY DEF IInv, Typed
  <2>2. DOMAIN verifiers = 1 .. Len(verifiers)
    BY <2>1
  <2> QED
    BY <2>2 DEF IInv, CachesSound, CacheSound, ClaimSets
<1> QED
  BY <1>1, AuthInvariant, PTL

\* An uncached answer that accepts a token only does so for a valid one.
LEMMA AcceptsValid ==
    ASSUME NEW h \in Headers, NEW conf \in Confs, NEW now \in Int,
           Uncached(h, conf, now).code = "ok", ~Uncached(h, conf, now).anon
    PROVE  ValidToken(h.token, conf, now)
<1> DEFINE t == h.token
           c == t.claims
<1>1. \A code, why : code # "ok" => Err(code, why).code # "ok"
  BY DEF Err
<1>2. h.bearer
  <2>1. Anon(conf).code = "ok" => Anon(conf).anon
    BY <1>1 DEF Anon, Ok, Err
  <2> QED
    BY <2>1 DEF Uncached
<1>3. t # Nil /\ conf.keys # {}
  BY <1>1, <1>2 DEF Uncached
<1>4. t \in Tokens
  BY <1>2, <1>3, HeaderToken
<1>5. Verify(t, conf, now) = Pending
  <2>1. Verify(t, conf, now) # Pending => Verify(t, conf, now).code # "ok"
    BY <1>1 DEF Verify
  <2> QED
    BY <1>2, <1>3, <2>1 DEF Uncached
<1>6. Decodes(t, conf)
  BY <1>5, VerifyOfDecoded
<1>7. ValidateClaims(c, conf, now) = ""
  <2>1. Err("PGRST303", ValidateClaims(c, conf, now)) # Pending
    BY DEF Err, Pending
  <2> QED
    BY <1>5, <1>6, <2>1, VerifyOfDecoded
<1>8. t.shape \in {"parts", "header", "payload", "jws"} /\ c.exp \in TimeClaim
      /\ c.nbf \in TimeClaim /\ c.iat \in TimeClaim
      /\ c.aud.kind \in {"absent", "string", "list", "mixed", "other"}
  BY <1>4, AuthAssumption
<1>9. conf.skew \in Int
  BY AuthAssumption
<1>10. t.shape = "jws"
  BY <1>6, <1>8 DEF Decodes, CheckAlg, CheckSignature
<1>11. t.alg \in Methods(conf)
  BY <1>6, <1>10 DEF Decodes, CheckAlg
<1>12. \E k \in conf.keys : /\ k.id = t.signer /\ MethodMatchesKey(t.alg, k)
                           /\ t.kid \in {"", k.kid} /\ k.alg \in {"", t.alg}
  <2>1. PICK k \in Candidates(t, conf) : k.id = t.signer
    BY <1>6, <1>10 DEF Decodes, CheckSignature
  <2> QED
    BY <2>1 DEF Candidates
<1>13. /\ CheckTime(c.exp, now - conf.skew > c.exp.n, "expired") = ""
       /\ CheckTime(c.nbf, now + conf.skew < c.nbf.n, "notYet") = ""
       /\ CheckTime(c.iat, now + conf.skew < c.iat.n, "future") = ""
       /\ CheckAud(c.aud, conf) = ""
  BY <1>7 DEF ValidateClaims
<1>14. /\ c.exp.kind # "text" /\ (c.exp.kind = "num" => ~(now - conf.skew > c.exp.n))
       /\ c.nbf.kind # "text" /\ (c.nbf.kind = "num" => ~(now + conf.skew < c.nbf.n))
       /\ c.iat.kind # "text" /\ (c.iat.kind = "num" => ~(now + conf.skew < c.iat.n))
  BY <1>8, <1>13 DEF CheckTime, TimeClaim
<1>15. c.exp.n \in Int /\ c.nbf.n \in Int /\ c.iat.n \in Int
  BY <1>8 DEF TimeClaim
<1>16. /\ c.exp.kind = "num" => now <= c.exp.n + conf.skew
       /\ c.nbf.kind = "num" => now >= c.nbf.n - conf.skew
       /\ c.iat.kind = "num" => now >= c.iat.n - conf.skew
  BY <1>9, <1>14, <1>15
<1>17. AudienceFits(c.aud, conf)
  <2>1. CASE c.aud.kind = "absent"
    BY <2>1 DEF AudienceFits
  <2>2. CASE c.aud.kind \in {"mixed", "other"}
    BY <1>13, <2>2 DEF CheckAud
  <2>3. CASE c.aud.kind \in {"string", "list"}
    <3>1. \/ c.aud.kind = "list" /\ c.aud.vals = {}
          \/ \E a \in c.aud.vals : conf.aud = "" \/ conf.aud = a
      BY <1>13, <2>3 DEF CheckAud
    <3> QED
      BY <2>3, <3>1 DEF AudienceFits
  <2> QED
    BY <1>8, <2>1, <2>2, <2>3
<1> QED
  BY <1>10, <1>11, <1>12, <1>14, <1>16, <1>17 DEF ValidToken

\* For any tokens and configurations, an accepted token was signed with an allowed
\* method by a configured key that its kid and the key's own method admit, is
\* within its times, give or take the skew, when it is accepted, and names no other
\* audience, cached or not (verify, keyfunc, validateClaims, checkAud).
THEOREM OnlyValidAccepted == Spec => []AcceptedIsValid
<1>1. IInv => AcceptedIsValid
  <2> SUFFICES ASSUME IInv, NEW r \in Requests, req[r].st = "done",
                      req[r].res.code = "ok", ~req[r].res.anon
               PROVE  ValidToken(req[r].header.token, Conf(r), req[r].at)
    BY DEF AcceptedIsValid
  <2>1. /\ req[r].header \in Headers /\ Conf(r) \in Confs /\ req[r].at \in Int
        /\ req[r].res = Uncached(req[r].header, Conf(r), req[r].at)
    BY CallKnown DEF CallFits
  <2> QED
    BY <2>1, AcceptsValid
<1> QED
  BY <1>1, AuthInvariant, PTL
=============================================================================
