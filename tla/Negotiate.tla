------------------------------ MODULE Negotiate -----------------------------
(***************************************************************************)
(* Content negotiation: which media type answers an Accept header. An      *)
(* entry is [typ, sub, q, strip]; q is in tenths.                          *)
(***************************************************************************)
EXTENDS Naturals, Sequences, FiniteSets

Entry == [typ : STRING, sub : STRING, q : Nat, strip : BOOLEAN]

Unacceptable == <<"none", "none">>
Json == <<"application", "json">>
ObjectMedia == <<"application", "object">>
ArrayMedia == <<"application", "array">>
PlanMedia == <<"application", "plan">>
Stripped(m) == <<m[1], m[2], "stripped">>

\* In order of preference; "object", "array" and "plan" are the vendor types.
SupportedMedia == <<Json, ArrayMedia, ObjectMedia, PlanMedia, <<"text", "csv">>,
                    <<"application", "octet-stream">>, <<"text", "plain">>>>

SingularMedia(m) == m \in {ObjectMedia, Stripped(ObjectMedia)}

\* sort.SliceStable by descending quality.
Before(es, i, j) == es[i].q > es[j].q \/ (es[i].q = es[j].q /\ i < j)
ParseAccept(es) ==
    [n \in DOMAIN es |->
       es[CHOOSE i \in DOMAIN es :
            Cardinality({j \in DOMAIN es : Before(es, j, i)}) = n - 1]]

\* The first supported type a test admits.
FirstSupported(Test(_)) ==
    LET ok == {i \in DOMAIN SupportedMedia : Test(SupportedMedia[i])}
    IN  IF ok = {} THEN Unacceptable
        ELSE SupportedMedia[CHOOSE i \in ok : \A j \in ok : i <= j]

\* The plan family has a bare, a +text and a +json spelling; they are one
\* subtype here, as the suffixless vendor spellings are one with theirs.
Produced(r) ==
    IF r.typ = "*" /\ r.sub = "*" THEN Json
    ELSE IF r.sub = "*" THEN FirstSupported(LAMBDA m : m[1] = r.typ)
    ELSE LET m == FirstSupported(LAMBDA s : s = <<r.typ, r.sub>>)
         IN  IF r.strip /\ m \in {ArrayMedia, ObjectMedia} THEN Stripped(m) ELSE m

NegotiateIn(rs) ==
    LET ok == {i \in DOMAIN rs : rs[i].q > 0 /\ Produced(rs[i]) # Unacceptable}
    IN  IF rs = <<>> THEN Json
        ELSE IF ok = {} THEN Unacceptable
        ELSE Produced(rs[CHOOSE i \in ok : \A j \in ok : i <= j])

\* Faulty variant: the ranges as the client lists them.
NegotiateUnsorted(es) == NegotiateIn(es)

NegotiateMedia(es) == NegotiateIn(ParseAccept(es))

\* The root document is JSON only.
RootAcceptable(es) ==
    \/ es = <<>>
    \/ \E i \in DOMAIN es :
         /\ es[i].q > 0
         /\ <<es[i].typ, es[i].sub>> \in
              {<<"*", "*">>, <<"application", "*">>, <<"application", "openapi+json">>, Json}

(* A declarative reading, for the properties.                              *)
-----------------------------------------------------------------------------
Admits(r, m) ==
    /\ r.q > 0
    /\ <<r.typ, r.sub>> \in {<<"*", "*">>, <<m[1], "*">>, <<m[1], m[2]>>}
    /\ Len(m) = 3 => r.strip

\* m answers es when some entry admits it and no entry of a higher quality, or
\* of the same quality and earlier, admits any type that can be produced.
BestFor(es, m) ==
    \/ es = <<>> /\ m = Json
    \/ \E i \in DOMAIN es :
         /\ Admits(es[i], m)
         /\ \A j \in DOMAIN es : Before(es, j, i) =>
              \A k \in DOMAIN SupportedMedia : ~Admits(es[j], SupportedMedia[k])
=============================================================================
