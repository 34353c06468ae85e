----------------------------- MODULE FrontProofs -----------------------------
(***************************************************************************)
(* Proofs about the HTTP front end, for every configuration, every request *)
(* and every Prefer and Accept header.                                     *)
(***************************************************************************)
EXTENDS Front, SequenceTheorems, FiniteSetTheorems, TLAPS

\* The least-number principle, for a set.
LEMMA LeastNumber ==
    ASSUME NEW S \in SUBSET Nat, S # {}
    PROVE  \E i \in S : \A k \in S : i <= k
<1> DEFINE R == OpToRel(<, Nat)
<1>1. IsWellFoundedOn(R, Nat)
  BY NatLessThanWellFounded
<1>2. PICK x \in S : \A y \in S : <<y, x>> \notin R
  <2> HIDE DEF R
  <2> QED
    BY <1>1, WFMin, Zenon
<1>3. ASSUME NEW k \in S PROVE x <= k
  <2>1. ~(k < x)
    BY <1>2 DEF OpToRel
  <2> QED
    BY <2>1
<1> QED
  BY <1>3

\* A loop of len rounds has a history: the values after each round.
LEMMA Iterates ==
    ASSUME NEW S, NEW base \in S, NEW len \in Nat, NEW F \in [1 .. len -> [S -> S]]
    PROVE  \E f \in [0 .. len -> S] : f[0] = base /\ \A n \in 1 .. len : f[n] = F[n][f[n - 1]]
<1> DEFINE Rounds(f, m) == /\ f \in [0 .. m -> S] /\ f[0] = base
                           /\ \A n \in 1 .. m : f[n] = F[n][f[n - 1]]
           Bad == {m \in Nat : m <= len /\ ~ \E f : Rounds(f, m)}
<1>1. Bad = {}
  <2> SUFFICES ASSUME Bad # {} PROVE FALSE
    OBVIOUS
  <2>1. PICK m \in Bad : \A k \in Bad : m <= k
    <3> HIDE DEF Bad
    <3>1. Bad \in SUBSET Nat
      BY DEF Bad
    <3> QED
      BY <3>1, LeastNumber
  <2>2. CASE m = 0
    <3> DEFINE f == [n \in 0 .. 0 |-> base]
    <3>1. Rounds(f, 0)
      OBVIOUS
    <3> QED
      BY <2>1, <2>2, <3>1
  <2>3. CASE m # 0
    <3>1. m - 1 \in Nat /\ m - 1 <= len /\ m \in Nat /\ m <= len /\ m >= 1
      BY <2>1, <2>3
    <3>2. m - 1 \notin Bad
      <4> HIDE DEF Bad
      <4> QED
        BY <2>1, <3>1
    <3>3. PICK f : Rounds(f, m - 1)
      BY <3>1, <3>2
    <3> DEFINE g == [n \in 0 .. m |-> IF n = m THEN F[m][f[m - 1]] ELSE f[n]]
    <3>4. f[m - 1] \in S /\ F[m] \in [S -> S]
      BY <3>1, <3>3
    <3>5. g \in [0 .. m -> S]
      <4>1. ASSUME NEW n \in 0 .. m PROVE (IF n = m THEN F[m][f[m - 1]] ELSE f[n]) \in S
        BY <3>1, <3>3, <3>4
      <4> QED
        BY <4>1
    <3>6. g[0] = base
      BY <2>3, <3>1, <3>3
    <3>7. ASSUME NEW n \in 1 .. m PROVE g[n] = F[n][g[n - 1]]
      <4>1. n \in 0 .. m /\ n - 1 \in 0 .. m /\ n - 1 # m
        BY <3>1
      <4>2. g[n - 1] = f[n - 1]
        BY <4>1
      <4>3. CASE n = m
        BY <4>1, <4>2, <4>3
      <4>4. CASE n # m
        <5>1. n \in 1 .. (m - 1)
          BY <3>1, <4>4
        <5>2. g[n] = f[n]
          BY <4>1, <4>4
        <5> QED
          BY <3>3, <4>2, <5>1, <5>2
      <4> QED
        BY <4>3, <4>4
    <3> HIDE DEF g
    <3>8. Rounds(g, m)
      BY <3>5, <3>6, <3>7
    <3> QED
      BY <2>1, <3>8
  <2> QED
    BY <2>2, <2>3
<1>2. \E f : Rounds(f, len)
  <2>1. len <= len
    OBVIOUS
  <2> HIDE DEF Rounds
  <2> QED
    BY <1>1, <2>1
<1> QED
  BY <1>2

-----------------------------------------------------------------------------
(* The Prefer header.                                                      *)

\* The provers do not know that a literal is a STRING, so the literals that the code
\* stores are listed.
Values == STRING \cup {Absent, "rollback"}
Offender == Token \cup [k : {"tx"}, v : Values]
PrefState == [val : [PreferKeys -> Values], seen : SUBSET PreferKeys,
              applied : SUBSET PreferKeys, invalid : Seq(Offender)]

\* No token before the i-th has its key.
IsFirst(toks, i) == \A j \in 1 .. (i - 1) : toks[j].k # toks[i].k

\* p is what the first n tokens say: of each key the first occurrence counts.
Agrees(p, toks, n) ==
    /\ p \in PrefState
    /\ \A k \in PreferKeys \ p.seen :
         k \notin p.applied /\ p.val[k] = Absent /\ \A i \in 1 .. n : toks[i].k # k
    /\ \A k \in p.seen : \E i \in 1 .. n :
         /\ toks[i].k = k /\ IsFirst(toks, i)
         /\ IF toks[i].v \in ValidValues[k]
            THEN k \in p.applied /\ p.val[k] = toks[i].v
            ELSE k \notin p.applied /\ p.val[k] = Absent
    /\ p.invalid # <<>> <=>
         \E i \in 1 .. n : \/ toks[i].k \notin PreferKeys
                           \/ IsFirst(toks, i) /\ toks[i].v \notin ValidValues[toks[i].k]

\* No value is the absent one.
LEMMA ValuesPresent ==
    ASSUME NEW k \in PreferKeys
    PROVE  Absent \notin ValidValues[k]
<1>1. k \in {"resolution", "missing", "return", "count", "tx", "handling", "timezone",
             "max-affected"}
  BY DEF PreferKeys
<1>2. ValidValues["return"] = {"minimal", "headers-only", "representation"}
  BY DEF ValidValues, PreferKeys
<1>3. ValidValues["count"] = {"exact", "planned", "estimated"}
  BY DEF ValidValues, PreferKeys
<1>4. ValidValues["resolution"] = {"merge-duplicates", "ignore-duplicates"}
  BY DEF ValidValues, PreferKeys
<1>5. ValidValues["missing"] = {"default", "null"}
  BY DEF ValidValues, PreferKeys
<1>6. ValidValues["tx"] = {"commit", "rollback"}
  BY DEF ValidValues, PreferKeys
<1>7. ValidValues["handling"] = {"strict", "lenient"}
  BY DEF ValidValues, PreferKeys
<1>8. ValidValues["max-affected"] = {"0", "1"} /\ ValidValues["timezone"] = {"UTC"}
  BY DEF ValidValues, PreferKeys
<1> QED
  BY <1>1, <1>2, <1>3, <1>4, <1>5, <1>6, <1>7, <1>8 DEF Absent

\* A round of the loop yields preferences.
LEMMA TakeTokenTypes ==
    ASSUME NEW p \in PrefState, NEW t \in Token
    PROVE  TakeToken(p, t) \in PrefState
<1>1. Append(p.invalid, t) \in Seq(Offender)
  <2>1. t \in Offender /\ p.invalid \in Seq(Offender)
    BY DEF PrefState, Offender
  <2> QED
    BY <2>1, AppendProperties
<1>2. t.v \in Values
  BY DEF Token, Values
<1>3. CASE t.k \notin PreferKeys
  <2>1. TakeToken(p, t) = [p EXCEPT !.invalid = Append(p.invalid, t)]
    BY <1>3 DEF TakeToken, PrefState
  <2> QED
    BY <1>1, <2>1 DEF PrefState
<1>4. CASE t.k \in PreferKeys /\ t.k \notin p.seen /\ t.v \in ValidValues[t.k]
  <2>1. TakeToken(p, t) = [p EXCEPT !.seen = p.seen \cup {t.k}, !.applied = p.applied \cup {t.k},
                                    !.val = [p.val EXCEPT ![t.k] = t.v]]
    BY <1>4 DEF TakeToken, PrefState
  <2> DEFINE v == [p.val EXCEPT ![t.k] = t.v]
             a == p.seen \cup {t.k}
             d == p.applied \cup {t.k}
  <2>2. v \in [PreferKeys -> Values] /\ a \in SUBSET PreferKeys /\ d \in SUBSET PreferKeys
    BY <1>2, <1>4 DEF PrefState
  <2>3. TakeToken(p, t) = [p EXCEPT !.seen = a, !.applied = d, !.val = v]
    BY <2>1
  <2> HIDE DEF v, a, d
  <2> QED
    BY <2>2, <2>3 DEF PrefState
<1>5. CASE t.k \in PreferKeys /\ t.k \notin p.seen /\ t.v \notin ValidValues[t.k]
  <2>1. TakeToken(p, t) = [p EXCEPT !.seen = p.seen \cup {t.k}, !.invalid = Append(p.invalid, t)]
    BY <1>5 DEF TakeToken, PrefState
  <2> QED
    BY <1>1, <1>5, <2>1, ZenonT(40) DEF PrefState
<1>6. CASE t.k \in PreferKeys /\ t.k \in p.seen
  BY <1>6 DEF TakeToken
<1> QED
  BY <1>3, <1>4, <1>5, <1>6

\* One more token.
LEMMA TakeTokenAgrees ==
    ASSUME NEW toks \in Seq(Token), NEW n \in 1 .. Len(toks), NEW p, Agrees(p, toks, n - 1)
    PROVE  Agrees(TakeToken(p, toks[n]), toks, n)
<1> DEFINE t == toks[n]
           q == TakeToken(p, t)
<1>0. /\ Len(toks) \in Nat /\ n \in Nat /\ n >= 1 /\ n - 1 \in Nat
      /\ 1 .. n = (1 .. (n - 1)) \cup {n} /\ n \notin 1 .. (n - 1)
  BY LenProperties
<1>1. t \in Token /\ p \in PrefState
  BY ElementOfSeq DEF Agrees
<1>2. /\ Append(p.invalid, t) \in Seq(Offender) /\ Append(p.invalid, t) # <<>>
  <2>1. t \in Offender /\ p.invalid \in Seq(Offender)
    BY <1>1 DEF PrefState, Offender
  <2> QED
    BY <2>1, AppendProperties
<1>3. t.k \notin p.seen /\ t.k \in PreferKeys => IsFirst(toks, n)
  BY DEF Agrees, IsFirst
<1>4. t.k \in p.seen => ~IsFirst(toks, n)
  BY DEF Agrees, IsFirst
<1>5. CASE t.k \notin PreferKeys
  <2>1. q = [p EXCEPT !.invalid = Append(@, t)]
    BY <1>5 DEF TakeToken
  <2>2. /\ q \in PrefState /\ q.val = p.val /\ q.seen = p.seen /\ q.applied = p.applied
        /\ q.invalid = Append(p.invalid, t)
    BY <1>1, <1>2, <2>1 DEF PrefState
  <2> HIDE DEF q
  <2> QED
    BY <1>0, <1>2, <1>5, <2>2 DEF Agrees, q
<1>6. CASE t.k \in p.seen
  <2>1. q = p
    BY <1>1, <1>6 DEF TakeToken, PrefState
  <2> HIDE DEF q
  <2>2. \A k \in PreferKeys \ p.seen : \A i \in 1 .. n : toks[i].k # k
    BY <1>0, <1>6 DEF Agrees
  <2>3. t.k \in PreferKeys
    BY <1>1, <1>6 DEF PrefState
  <2> QED
    BY <1>0, <1>4, <1>6, <2>1, <2>2, <2>3 DEF Agrees, q
<1>7. CASE t.k \in PreferKeys /\ t.k \notin p.seen /\ t.v \in ValidValues[t.k]
  <2>1. q = [p EXCEPT !.seen = @ \cup {t.k}, !.applied = @ \cup {t.k}, !.val[t.k] = t.v]
    BY <1>7 DEF TakeToken
  <2>2. t.k \in PreferKeys /\ t.v \in Values
    BY <1>1, <1>7 DEF Token, Values
  <2> HIDE DEF q, t
  <2>3. q = [p EXCEPT !.seen = p.seen \cup {t.k}, !.applied = p.applied \cup {t.k},
                      !.val = [p.val EXCEPT ![t.k] = t.v]]
    BY <1>1, <2>1 DEF PrefState
  <2>4. /\ q \in PrefState /\ q.val = [p.val EXCEPT ![t.k] = t.v] /\ q.seen = p.seen \cup {t.k}
        /\ q.applied = p.applied \cup {t.k} /\ q.invalid = p.invalid
    BY <1>1, <2>2, <2>3 DEF PrefState
  <2>5. q.val[t.k] = t.v /\ \A k \in PreferKeys \ {t.k} : q.val[k] = p.val[k]
    BY <1>1, <2>2, <2>4 DEF PrefState
  <2>6. \A k \in PreferKeys \ q.seen :
          k \notin q.applied /\ q.val[k] = Absent /\ \A i \in 1 .. n : toks[i].k # k
    BY <1>0, <2>4, <2>5 DEF Agrees, t
  <2>7. ASSUME NEW k \in q.seen
        PROVE  \E i \in 1 .. n : /\ toks[i].k = k /\ IsFirst(toks, i)
                                 /\ IF toks[i].v \in ValidValues[k]
                                    THEN k \in q.applied /\ q.val[k] = toks[i].v
                                    ELSE k \notin q.applied /\ q.val[k] = Absent
    <3>1. CASE k = t.k
      BY <1>0, <1>3, <1>7, <2>4, <2>5, <3>1 DEF t
    <3>2. CASE k # t.k
      <4>1. k \in p.seen /\ k \in PreferKeys \ {t.k}
        BY <1>1, <2>4, <3>2 DEF PrefState
      <4>2. q.val[k] = p.val[k] /\ (k \in q.applied <=> k \in p.applied)
        BY <2>4, <2>5, <4>1
      <4> QED
        BY <1>0, <4>1, <4>2 DEF Agrees
    <3> QED
      BY <3>1, <3>2
  <2>8. q.invalid # <<>> <=>
          \E i \in 1 .. n : \/ toks[i].k \notin PreferKeys
                            \/ IsFirst(toks, i) /\ toks[i].v \notin ValidValues[toks[i].k]
    BY <1>0, <1>7, <2>4 DEF Agrees, t
  <2> QED
    BY <2>4, <2>6, <2>7, <2>8 DEF Agrees, q, t
<1>8. CASE t.k \in PreferKeys /\ t.k \notin p.seen /\ t.v \notin ValidValues[t.k]
  <2>1. q = [p EXCEPT !.seen = @ \cup {t.k}, !.invalid = Append(@, t)]
    BY <1>8 DEF TakeToken
  <2>2. /\ q \in PrefState /\ q.val = p.val /\ q.seen = p.seen \cup {t.k}
        /\ q.applied = p.applied /\ q.invalid = Append(p.invalid, t)
    BY <1>1, <1>2, <1>8, <2>1, ZenonT(40) DEF PrefState
  <2> HIDE DEF q
  <2> QED
    BY <1>0, <1>2, <1>3, <1>8, <2>2 DEF Agrees, q
<1> QED
  BY <1>5, <1>6, <1>7, <1>8

\* The loop starts without preferences.
LEMMA NoPreferencesAgree ==
    ASSUME NEW toks
    PROVE  Agrees(NoPreferences, toks, 0)
<1>1. NoPreferences \in PrefState
  <2>1. <<>> \in Seq(Offender) /\ Absent \in Values
    BY EmptySeq DEF Values
  <2> QED
    BY <2>1 DEF NoPreferences, PrefState
<1>2. /\ NoPreferences.seen = {} /\ NoPreferences.applied = {}
      /\ NoPreferences.invalid = <<>>
      /\ \A k \in PreferKeys : NoPreferences.val[k] = Absent
  BY DEF NoPreferences
<1> QED
  BY <1>1, <1>2 DEF Agrees

\* The loop over the tokens is well defined: each round continues the one before.
LEMMA TakenUnfolds ==
    ASSUME NEW toks \in Seq(Token)
    PROVE  \E p : /\ p[0] = NoPreferences
                  /\ \A n \in 1 .. Len(toks) : p[n] = TakeToken(p[n - 1], toks[n])
                  /\ Taken(toks) = p[Len(toks)]
<1> DEFINE len == Len(toks)
           Loop(p) == [n \in 0 .. len |-> IF n = 0 THEN NoPreferences
                                         ELSE TakeToken(p[n - 1], toks[n])]
           F == [n \in 1 .. len |-> [x \in PrefState |-> TakeToken(x, toks[n])]]
           g == CHOOSE q : q = Loop(q)
<1>1. len \in Nat
  BY LenProperties
<1>2. F \in [1 .. len -> [PrefState -> PrefState]] /\ NoPreferences \in PrefState
  BY TakeTokenTypes, NoPreferencesAgree, ElementOfSeq DEF Agrees
<1>3. PICK f \in [0 .. len -> PrefState] :
        f[0] = NoPreferences /\ \A n \in 1 .. len : f[n] = F[n][f[n - 1]]
  <2> HIDE DEF F, len
  <2> QED
    BY <1>1, <1>2, Iterates
<1> HIDE DEF len
<1>4. f = Loop(f)
  <2>1. ASSUME NEW n \in 0 .. len
        PROVE  f[n] = IF n = 0 THEN NoPreferences ELSE TakeToken(f[n - 1], toks[n])
    <3>1. CASE n = 0
      BY <1>3, <3>1
    <3>2. CASE n # 0
      <4>1. n \in 1 .. len /\ n - 1 \in 0 .. len
        BY <1>1, <3>2
      <4> QED
        BY <1>3, <3>2, <4>1
    <3> QED
      BY <3>1, <3>2
  <2> QED
    BY <2>1
<1>5. g = Loop(g)
  <2>1. \E q : q = Loop(q)
    BY <1>4
  <2> HIDE DEF Loop
  <2> QED
    BY <2>1, Zenon
<1>6. Taken(toks) = g[len]
  BY DEF Taken, len
<1> HIDE DEF g
<1>7. \A n \in 0 .. len : g[n] = IF n = 0 THEN NoPreferences ELSE TakeToken(g[n - 1], toks[n])
  <2> DEFINE E(n) == IF n = 0 THEN NoPreferences ELSE TakeToken(g[n - 1], toks[n])
  <2>1. g = [n \in 0 .. len |-> E(n)]
    BY <1>5
  <2> HIDE DEF E
  <2>2. \A n \in 0 .. len : g[n] = E(n)
    BY <2>1
  <2> QED
    BY <2>2 DEF E
<1>8. g[0] = NoPreferences
  BY <1>1, <1>7
<1>9. ASSUME NEW n \in 1 .. len PROVE g[n] = TakeToken(g[n - 1], toks[n])
  <2>1. n \in 0 .. len /\ n # 0
    BY <1>1
  <2> QED
    BY <1>7, <2>1
<1> QED
  BY <1>6, <1>8, <1>9 DEF len

\* What the loop ends with is what the whole header says.
LEMMA TakenAgrees ==
    ASSUME NEW toks \in Seq(Token)
    PROVE  Agrees(Taken(toks), toks, Len(toks))
<1>0. Len(toks) \in Nat
  BY LenProperties
<1>1. PICK p : /\ p[0] = NoPreferences
               /\ \A n \in 1 .. Len(toks) : p[n] = TakeToken(p[n - 1], toks[n])
               /\ Taken(toks) = p[Len(toks)]
  BY TakenUnfolds
<1> DEFINE Bad == {m \in Nat : m <= Len(toks) /\ ~Agrees(p[m], toks, m)}
<1>2. Bad = {}
  <2> SUFFICES ASSUME Bad # {} PROVE FALSE
    OBVIOUS
  <2>1. PICK m \in Bad : \A k \in Bad : m <= k
    <3> HIDE DEF Bad
    <3>1. Bad \in SUBSET Nat
      BY DEF Bad
    <3> QED
      BY <3>1, LeastNumber
  <2>2. CASE m = 0
    <3>1. Agrees(NoPreferences, toks, 0)
      BY NoPreferencesAgree
    <3> QED
      BY <1>1, <2>1, <2>2, <3>1
  <2>3. CASE m # 0
    <3>1. m - 1 \in Nat /\ m - 1 <= Len(toks) /\ m \in 1 .. Len(toks)
      BY <1>0, <2>1, <2>3
    <3>2. m - 1 \notin Bad
      BY <2>1, <3>1
    <3>3. Agrees(p[m - 1], toks, m - 1)
      BY <3>1, <3>2
    <3>4. Agrees(p[m], toks, m)
      BY <1>1, <3>1, <3>3, TakeTokenAgrees
    <3> QED
      BY <2>1, <3>4
  <2> QED
    BY <2>2, <2>3
<1> QED
  BY <1>0, <1>1, <1>2

\* The loop and the declarative reading agree: value, effect and offenders.
LEMMA TakenMeans ==
    ASSUME NEW toks \in Seq(Token)
    PROVE  LET p == Taken(toks)
           IN  /\ p \in PrefState /\ p.applied \subseteq p.seen
               /\ \A k \in PreferKeys : /\ p.val[k] = FirstValue(toks, k)
                                        /\ k \in p.applied <=> FirstValue(toks, k) # Absent
               /\ p.invalid # <<>> <=>
                    \/ \E i \in 1 .. Len(toks) : toks[i].k \notin PreferKeys
                    \/ \E k \in PreferKeys : Occurrences(toks, k) # {} /\ FirstValue(toks, k) = Absent
<1> DEFINE p == Taken(toks)
           len == Len(toks)
<1>1. Agrees(p, toks, len) /\ len \in Nat
  BY TakenAgrees, LenProperties
<1> HIDE DEF p
<1>2. p \in PrefState /\ p.applied \subseteq p.seen
  BY <1>1 DEF Agrees, PrefState
<1>3. ASSUME NEW k \in PreferKeys, NEW i \in 1 .. len, toks[i].k = k, IsFirst(toks, i)
      PROVE  /\ Occurrences(toks, k) # {}
             /\ FirstValue(toks, k) = IF toks[i].v \in ValidValues[k] THEN toks[i].v ELSE Absent
  <2>1. i \in Occurrences(toks, k)
    BY <1>3 DEF Occurrences
  <2>2. \A j \in Occurrences(toks, k) : i <= j
    BY <1>1, <1>3 DEF Occurrences, IsFirst
  <2>3. \A j \in Occurrences(toks, k) : j \in Nat
    BY <1>1 DEF Occurrences
  <2> DEFINE x == CHOOSE x \in Occurrences(toks, k) : \A j \in Occurrences(toks, k) : x <= j
  <2>4. x \in Occurrences(toks, k) /\ \A j \in Occurrences(toks, k) : x <= j
    BY <2>1, <2>2
  <2> HIDE DEF x
  <2>5. x = i
    BY <2>1, <2>2, <2>3, <2>4
  <2> QED
    <3>1. FirstValue(toks, k) = IF toks[x].v \in ValidValues[k] THEN toks[x].v ELSE Absent
      BY <2>1, Zenon DEF FirstValue, x
    <3> QED
      BY <2>1, <2>5, <3>1
<1>4. ASSUME NEW k \in PreferKeys \ p.seen
      PROVE  FirstValue(toks, k) = Absent /\ Occurrences(toks, k) = {}
  BY <1>1 DEF Agrees, Occurrences, FirstValue
<1>5. ASSUME NEW k \in PreferKeys
      PROVE  p.val[k] = FirstValue(toks, k) /\ (k \in p.applied <=> FirstValue(toks, k) # Absent)
  <2>1. CASE k \in p.seen
    <3>1. PICK i \in 1 .. len : /\ toks[i].k = k /\ IsFirst(toks, i)
                                /\ IF toks[i].v \in ValidValues[k]
                                   THEN k \in p.applied /\ p.val[k] = toks[i].v
                                   ELSE k \notin p.applied /\ p.val[k] = Absent
      BY <1>1, <2>1 DEF Agrees
    <3> QED
      BY <1>3, <3>1, ValuesPresent
  <2>2. CASE k \notin p.seen
    BY <1>1, <1>4, <2>2 DEF Agrees
  <2> QED
    BY <2>1, <2>2
<1>6. ASSUME NEW i \in 1 .. len, toks[i].k \in PreferKeys, IsFirst(toks, i),
             toks[i].v \notin ValidValues[toks[i].k]
      PROVE  \E k \in PreferKeys : Occurrences(toks, k) # {} /\ FirstValue(toks, k) = Absent
  BY <1>3, <1>6
<1>7. ASSUME NEW k \in PreferKeys, Occurrences(toks, k) # {}, FirstValue(toks, k) = Absent
      PROVE  \E i \in 1 .. len : IsFirst(toks, i) /\ toks[i].v \notin ValidValues[toks[i].k]
  <2>1. k \in p.seen
    BY <1>4, <1>7
  <2>2. PICK i \in 1 .. len : toks[i].k = k /\ IsFirst(toks, i)
    BY <1>1, <2>1 DEF Agrees
  <2>3. toks[i].v \notin ValidValues[k]
    BY <1>3, <1>7, <2>2, ValuesPresent
  <2> QED
    BY <2>2, <2>3
<1>8. p.invalid # <<>> <=>
        \/ \E i \in 1 .. len : toks[i].k \notin PreferKeys
        \/ \E k \in PreferKeys : Occurrences(toks, k) # {} /\ FirstValue(toks, k) = Absent
  <2>1. p.invalid # <<>> <=>
          \E i \in 1 .. len : \/ toks[i].k \notin PreferKeys
                              \/ IsFirst(toks, i) /\ toks[i].v \notin ValidValues[toks[i].k]
    BY <1>1 DEF Agrees
  <2> QED
    BY <1>6, <1>7, <2>1
<1> QED
  BY <1>2, <1>5, <1>8 DEF p

Override == {"commit-allow-override", "rollback-allow-override"}

\* What a request's preferences are once db-tx-end has had its say.
Resolved(toks, policy) == ResolveTx(ParsePrefer(toks), policy)

\* ParsePrefer and ResolveTx together: the offenders under strict handling are those
\* of the declarative reading, the transaction ends as the policy lets it, and the
\* preferences in effect are the first valid ones that policy and handling allow.
LEMMA ResolvedMeans ==
    ASSUME NEW toks \in Seq(Token), NEW policy \in TxEnds
    PROVE  LET p == Resolved(toks, policy)
           IN  /\ p \in PrefState /\ p.applied \subseteq p.seen
               /\ p.val["count"] = FirstValue(toks, "count")
               /\ StrictError(p) <=> /\ FirstValue(toks, "handling") = "strict"
                                     /\ Offends(toks, policy)
               /\ p.val["tx"] = "rollback" <=> RollsBack(toks, policy)
               /\ p.applied = {k \in PreferKeys :
                                 /\ FirstValue(toks, k) # Absent
                                 /\ k = "tx" => policy \in Override
                                 /\ k = "max-affected" => FirstValue(toks, "handling") = "strict"}
<1> DEFINE t == Taken(toks)
           s == ParsePrefer(toks)
           p == Resolved(toks, policy)
           strict == FirstValue(toks, "handling") = "strict"
           said == FirstValue(toks, "tx")
           wrong == \/ \E i \in 1 .. Len(toks) : toks[i].k \notin PreferKeys
                    \/ \E k \in PreferKeys : Occurrences(toks, k) # {} /\ FirstValue(toks, k) = Absent
           fallback == IF policy \in {"rollback", "rollback-allow-override"}
                       THEN "rollback" ELSE Absent
<1>1. /\ t \in PrefState /\ t.applied \subseteq t.seen
      /\ \A k \in PreferKeys : /\ t.val[k] = FirstValue(toks, k)
                               /\ k \in t.applied <=> FirstValue(toks, k) # Absent
      /\ t.invalid # <<>> <=> wrong
  BY TakenMeans
<1>2. "handling" \in PreferKeys /\ "tx" \in PreferKeys /\ "max-affected" \in PreferKeys
      /\ "count" \in PreferKeys
  BY DEF PreferKeys
<1>3. s = IF t.val["handling"] = "strict" THEN t
          ELSE [t EXCEPT !.applied = @ \ {"max-affected"}, !.val["max-affected"] = Absent]
  BY DEF ParsePrefer, StrictOnly
<1> HIDE DEF t, s, wrong
<1>4. /\ s \in PrefState /\ s.applied \subseteq s.seen
      /\ \A k \in PreferKeys \ {"max-affected"} : s.val[k] = FirstValue(toks, k)
      /\ s.applied = {k \in PreferKeys : /\ FirstValue(toks, k) # Absent
                                         /\ k = "max-affected" => strict}
      /\ s.invalid # <<>> <=> wrong
  <2>1. CASE t.val["handling"] = "strict"
    <3>1. s = t
      BY <1>3, <2>1
    <3> QED
      BY <1>1, <1>2, <2>1, <3>1 DEF PrefState
  <2>2. CASE t.val["handling"] # "strict"
    <3>0. Absent \in Values
      BY DEF Values
    <3>1. s = [t EXCEPT !.applied = t.applied \ {"max-affected"},
                        !.val = [t.val EXCEPT !["max-affected"] = Absent]]
      BY <1>1, <1>3, <2>2 DEF PrefState
    <3>2. /\ s \in PrefState /\ s.seen = t.seen /\ s.applied = t.applied \ {"max-affected"}
          /\ s.val = [t.val EXCEPT !["max-affected"] = Absent] /\ s.invalid = t.invalid
      BY <1>1, <3>0, <3>1 DEF PrefState
    <3>3. \A k \in PreferKeys \ {"max-affected"} : s.val[k] = t.val[k]
      BY <1>1, <3>2 DEF PrefState
    <3>4. t.applied = {k \in PreferKeys : FirstValue(toks, k) # Absent}
      BY <1>1 DEF PrefState
    <3> QED
      BY <1>1, <1>2, <2>2, <3>2, <3>3, <3>4
  <2> QED
    BY <2>1, <2>2
<1>5. /\ s.val["handling"] = FirstValue(toks, "handling") /\ s.val["tx"] = said
      /\ s.val["count"] = FirstValue(toks, "count")
      /\ "tx" \in s.applied <=> said # Absent
  BY <1>2, <1>4
<1>6. CASE policy \in Override /\ "tx" \in s.applied
  <2>1. p = s
    BY <1>6 DEF Resolved, ResolveTx, Override, s
  <2>2. p.applied = {k \in PreferKeys :
                       /\ FirstValue(toks, k) # Absent
                       /\ k = "tx" => policy \in Override
                       /\ k = "max-affected" => FirstValue(toks, "handling") = "strict"}
    BY <1>4, <1>6, <2>1
  <2>3. said \in {"commit", "rollback"}
    BY <1>5, <1>6 DEF FirstValue, ValidValues, PreferKeys
  <2>4. p.val["tx"] = "rollback" <=> RollsBack(toks, policy)
    BY <1>5, <1>6, <2>1, <2>3 DEF RollsBack, Override
  <2>5. StrictError(p) <=> strict /\ Offends(toks, policy)
    BY <1>4, <1>5, <1>6, <2>1 DEF StrictError, Offends, wrong, Override
  <2> HIDE DEF p
  <2> QED
    BY <1>4, <1>5, <2>1, <2>2, <2>4, <2>5 DEF p
<1>7. CASE policy \in Override /\ "tx" \notin s.applied
  <2>1. p = [s EXCEPT !.val["tx"] = fallback]
    BY <1>7 DEF Resolved, ResolveTx, Override, s
  <2> HIDE DEF p, fallback
  <2>2. p = [s EXCEPT !.val = [s.val EXCEPT !["tx"] = fallback]]
    BY <1>4, <2>1 DEF PrefState
  <2>3. fallback \in Values
    BY DEF fallback, Values
  <2>4. /\ p \in PrefState /\ p.seen = s.seen /\ p.applied = s.applied /\ p.invalid = s.invalid
        /\ p.val = [s.val EXCEPT !["tx"] = fallback]
    BY <1>4, <2>2, <2>3 DEF PrefState
  <2>5. /\ p.val["tx"] = fallback /\ p.val["handling"] = s.val["handling"]
        /\ p.val["count"] = s.val["count"]
    BY <1>2, <1>4, <2>4 DEF PrefState
  <2>6. p.val["tx"] = "rollback" <=> RollsBack(toks, policy)
    BY <1>5, <1>7, <2>5 DEF RollsBack, Override, fallback, Absent
  <2>7. StrictError(p) <=> strict /\ Offends(toks, policy)
    BY <1>4, <1>5, <1>7, <2>4, <2>5 DEF StrictError, Offends, wrong, Override
  <2>8. p.applied = {k \in PreferKeys :
                       /\ FirstValue(toks, k) # Absent
                       /\ k = "tx" => policy \in Override
                       /\ k = "max-affected" => FirstValue(toks, "handling") = "strict"}
    BY <1>4, <1>7, <2>4
  <2> QED
    BY <1>4, <1>5, <2>4, <2>5, <2>6, <2>7, <2>8 DEF p
<1>8. CASE policy \notin Override
  <2> DEFINE bad == IF "tx" \in s.applied /\ s.val["handling"] = "strict"
                    THEN Append(s.invalid, [k |-> "tx", v |-> s.val["tx"]]) ELSE s.invalid
  <2>1. p = [s EXCEPT !.applied = @ \ {"tx"}, !.val["tx"] = fallback,
                      !.invalid = IF "tx" \in s.applied /\ s.val["handling"] = "strict"
                                  THEN Append(@, [k |-> "tx", v |-> s.val["tx"]]) ELSE @]
    BY <1>8 DEF Resolved, ResolveTx, Override, s
  <2> HIDE DEF p, fallback
  <2>2. p = [s EXCEPT !.applied = s.applied \ {"tx"}, !.val = [s.val EXCEPT !["tx"] = fallback],
                      !.invalid = bad]
    BY <1>4, <2>1 DEF PrefState
  <2>3. fallback \in Values
    BY DEF fallback, Values
  <2>4. /\ bad \in Seq(Offender)
        /\ bad # <<>> <=> s.invalid # <<>> \/ ("tx" \in s.applied /\ s.val["handling"] = "strict")
    <3>1. s.invalid \in Seq(Offender) /\ s.val["tx"] \in Values
      BY <1>2, <1>4 DEF PrefState
    <3>2. [k |-> "tx", v |-> s.val["tx"]] \in Offender
      BY <3>1 DEF Offender
    <3> QED
      BY <3>1, <3>2, AppendProperties
  <2> HIDE DEF bad
  <2>5. /\ p \in PrefState /\ p.seen = s.seen /\ p.applied = s.applied \ {"tx"}
        /\ p.invalid = bad /\ p.val = [s.val EXCEPT !["tx"] = fallback]
    BY <1>4, <2>2, <2>3, <2>4 DEF PrefState
  <2>6. /\ p.val["tx"] = fallback /\ p.val["handling"] = s.val["handling"]
        /\ p.val["count"] = s.val["count"]
    BY <1>2, <1>4, <2>5 DEF PrefState
  <2>7. p.val["tx"] = "rollback" <=> RollsBack(toks, policy)
    BY <1>8, <2>6 DEF RollsBack, Override, TxEnds, fallback, Absent
  <2>8. StrictError(p) <=> strict /\ Offends(toks, policy)
    <3>1. policy \in {"commit", "rollback"}
      BY <1>8 DEF TxEnds, Override
    <3>2. Offends(toks, policy) <=> wrong \/ said # Absent
      BY <3>1 DEF Offends, wrong
    <3> QED
      BY <1>4, <1>5, <2>4, <2>5, <2>6, <3>2 DEF StrictError
  <2>9. p.applied = {k \in PreferKeys :
                       /\ FirstValue(toks, k) # Absent
                       /\ k = "tx" => policy \in Override
                       /\ k = "max-affected" => FirstValue(toks, "handling") = "strict"}
    BY <1>4, <1>8, <2>5
  <2> QED
    BY <1>4, <1>5, <2>5, <2>6, <2>7, <2>8, <2>9 DEF p
<1> QED
  BY <1>6, <1>7, <1>8

\* One more key in the header.
LEMMA RangeOfAppend ==
    ASSUME NEW s \in Seq(PreferKeys), NEW e \in PreferKeys, NEW w, w = Append(s, e)
    PROVE  w \in Seq(PreferKeys) /\ Range(w) = Range(s) \cup {e}
<1>1. /\ Len(s) \in Nat /\ DOMAIN s = 1 .. Len(s)
  BY LenProperties
<1>2. /\ w \in Seq(PreferKeys) /\ Len(w) = Len(s) + 1 /\ w[Len(s) + 1] = e
      /\ \A i \in 1 .. Len(s) : w[i] = s[i]
  BY AppendProperties
<1>3. DOMAIN w = 1 .. Len(s) + 1
  BY <1>2, LenProperties
<1>4. Range(w) \subseteq Range(s) \cup {e}
  <2> SUFFICES ASSUME NEW i \in 1 .. Len(s) + 1 PROVE w[i] \in Range(s) \cup {e}
    BY <1>3 DEF Range
  <2>1. CASE i = Len(s) + 1
    BY <1>2, <2>1
  <2>2. CASE i # Len(s) + 1
    <3>1. i \in 1 .. Len(s)
      BY <1>1, <2>2
    <3> QED
      BY <1>1, <1>2, <3>1 DEF Range
  <2> QED
    BY <2>1, <2>2
<1>5. Range(s) \cup {e} \subseteq Range(w)
  <2>1. Len(s) + 1 \in DOMAIN w /\ \A i \in 1 .. Len(s) : i \in DOMAIN w
    BY <1>1, <1>3
  <2>2. e \in Range(w)
    BY <1>2, <2>1 DEF Range
  <2>3. ASSUME NEW i \in 1 .. Len(s) PROVE s[i] \in Range(w)
    BY <1>2, <2>1 DEF Range
  <2> QED
    BY <1>1, <2>2, <2>3 DEF Range
<1> QED
  BY <1>2, <1>4, <1>5

\* Preference-Applied names exactly the preferences in effect: none is missing in the
\* canonical order.
LEMMA AppliedHeaderEchoes ==
    ASSUME NEW p, p.applied \in SUBSET PreferKeys
    PROVE  Range(AppliedHeader(p)) = p.applied
<1> DEFINE Loop(o) == [n \in 0 .. Len(ApplyOrder) |->
                         IF n = 0 THEN <<>>
                         ELSE IF ApplyOrder[n] \in p.applied THEN Append(o[n - 1], ApplyOrder[n])
                         ELSE o[n - 1]]
           Key(n) == ApplyOrder[n]
           F == [n \in 1 .. 8 |-> [x \in Seq(PreferKeys) |->
                   IF Key(n) \in p.applied THEN Append(x, Key(n)) ELSE x]]
           g == CHOOSE o : o = Loop(o)
<1>1. /\ Len(ApplyOrder) = 8
      /\ Key(1) = "resolution" /\ Key(2) = "missing" /\ Key(3) = "return" /\ Key(4) = "count"
      /\ Key(5) = "tx" /\ Key(6) = "handling" /\ Key(7) = "timezone" /\ Key(8) = "max-affected"
  BY DEF ApplyOrder
<1> HIDE DEF Key
<1>2. \A n \in 1 .. 8 : Key(n) \in PreferKeys
  BY <1>1 DEF PreferKeys
<1>3. F \in [1 .. 8 -> [Seq(PreferKeys) -> Seq(PreferKeys)]]
  <2>1. ASSUME NEW n \in 1 .. 8, NEW x \in Seq(PreferKeys)
        PROVE  (IF Key(n) \in p.applied THEN Append(x, Key(n)) ELSE x) \in Seq(PreferKeys)
    BY <1>2, AppendProperties
  <2> QED
    BY <2>1
<1>4. PICK f \in [0 .. 8 -> Seq(PreferKeys)] :
        f[0] = <<>> /\ \A n \in 1 .. 8 : f[n] = F[n][f[n - 1]]
  <2>1. PICK len : len = 8
    OBVIOUS
  <2>2. PICK S : S = Seq(PreferKeys)
    OBVIOUS
  <2>3. PICK base : base = <<>>
    OBVIOUS
  <2>4. len \in Nat /\ base \in S /\ F \in [1 .. len -> [S -> S]]
    BY <1>3, <2>1, <2>2, <2>3, EmptySeq
  <2> HIDE DEF F
  <2>5. \E f \in [0 .. len -> S] :
          f[0] = base /\ \A n \in 1 .. len : f[n] = F[n][f[n - 1]]
    BY <2>4, Iterates
  <2> QED
    BY <2>1, <2>2, <2>3, <2>5
<1>5. f = Loop(f)
  <2>1. ASSUME NEW n \in 0 .. 8
        PROVE  f[n] = IF n = 0 THEN <<>>
                      ELSE IF Key(n) \in p.applied THEN Append(f[n - 1], Key(n)) ELSE f[n - 1]
    <3>1. CASE n = 0
      BY <1>4, <3>1
    <3>2. CASE n # 0
      <4>1. n \in 1 .. 8 /\ n - 1 \in 0 .. 8
        BY <3>2
      <4> QED
        BY <1>4, <3>2, <4>1
    <3> QED
      BY <3>1, <3>2
  <2> DEFINE E(n) == IF n = 0 THEN <<>>
                     ELSE IF Key(n) \in p.applied THEN Append(f[n - 1], Key(n)) ELSE f[n - 1]
  <2>2. Loop(f) = [n \in 0 .. 8 |-> E(n)]
    BY <1>1 DEF Key
  <2>3. \A n \in 0 .. 8 : f[n] = E(n)
    BY <2>1
  <2> HIDE DEF E, Loop
  <2> QED
    BY <1>4, <2>2, <2>3
<1>6. g = Loop(g)
  <2>1. \E o : o = Loop(o)
    BY <1>5
  <2> HIDE DEF Loop
  <2> QED
    BY <2>1, Zenon
<1>7. AppliedHeader(p) = g[8]
  <2>1. AppliedHeader(p) = g[Len(ApplyOrder)]
    BY DEF AppliedHeader
  <2> QED
    BY <1>1, <2>1
<1> HIDE DEF g
<1>8. \A n \in 0 .. 8 : g[n] = IF n = 0 THEN <<>>
                               ELSE IF Key(n) \in p.applied THEN Append(g[n - 1], Key(n))
                               ELSE g[n - 1]
  <2> DEFINE E(n) == IF n = 0 THEN <<>>
                     ELSE IF Key(n) \in p.applied THEN Append(g[n - 1], Key(n)) ELSE g[n - 1]
  <2>1. g = [n \in 0 .. 8 |-> E(n)]
    BY <1>1, <1>6 DEF Key
  <2> HIDE DEF E
  <2>2. \A n \in 0 .. 8 : g[n] = E(n)
    BY <2>1
  <2> QED
    BY <2>2 DEF E
<1>9. ASSUME NEW n \in 1 .. 8, g[n - 1] \in Seq(PreferKeys)
      PROVE  g[n] \in Seq(PreferKeys) /\ Range(g[n]) = Range(g[n - 1]) \cup ({Key(n)} \cap p.applied)
  <2>1. n \in 0 .. 8 /\ n # 0 /\ Key(n) \in PreferKeys
    BY <1>2, SMTT(20)
  <2>2. CASE Key(n) \in p.applied
    <3>1. g[n] = Append(g[n - 1], Key(n))
      BY <1>8, <2>1, <2>2
    <3>2. g[n] \in Seq(PreferKeys) /\ Range(g[n]) = Range(g[n - 1]) \cup {Key(n)}
      <4> HIDE DEF g, Key
      <4> QED
        BY <1>9, <2>1, <3>1, RangeOfAppend
    <3> QED
      BY <2>2, <3>2
  <2>3. CASE Key(n) \notin p.applied
    <3>1. g[n] = g[n - 1]
      BY <1>8, <2>1, <2>3
    <3> QED
      BY <1>9, <2>3, <3>1
  <2> QED
    BY <2>2, <2>3
<1>10. g[0] \in Seq(PreferKeys) /\ Range(g[0]) = {}
  <2>1. g[0] = <<>>
    BY <1>8
  <2>2. <<>> \in Seq(PreferKeys) /\ DOMAIN <<>> = {}
    BY EmptySeq
  <2> QED
    BY <2>1, <2>2 DEF Range
<1>11. g[1] \in Seq(PreferKeys) /\ Range(g[1]) = {"resolution"} \cap p.applied
  <2>1. 1 \in 1 .. 8 /\ 1 - 1 = 0
    OBVIOUS
  <2> QED
    BY <1>1, <1>9, <1>10, <2>1
<1>12. g[2] \in Seq(PreferKeys) /\ Range(g[2]) = {"resolution", "missing"} \cap p.applied
  <2>1. 2 \in 1 .. 8 /\ 2 - 1 = 1
    OBVIOUS
  <2> QED
    BY <1>1, <1>9, <1>11, <2>1
<1>13. g[3] \in Seq(PreferKeys) /\ Range(g[3]) = {"resolution", "missing", "return"} \cap p.applied
  <2>1. 3 \in 1 .. 8 /\ 3 - 1 = 2
    OBVIOUS
  <2> QED
    BY <1>1, <1>9, <1>12, <2>1
<1>14. /\ g[4] \in Seq(PreferKeys)
       /\ Range(g[4]) = {"resolution", "missing", "return", "count"} \cap p.applied
  <2>1. 4 \in 1 .. 8 /\ 4 - 1 = 3
    OBVIOUS
  <2> QED
    BY <1>1, <1>9, <1>13, <2>1
<1>15. /\ g[5] \in Seq(PreferKeys)
       /\ Range(g[5]) = {"resolution", "missing", "return", "count", "tx"} \cap p.applied
  <2>1. 5 \in 1 .. 8 /\ 5 - 1 = 4
    OBVIOUS
  <2> QED
    BY <1>1, <1>9, <1>14, <2>1
<1>16. /\ g[6] \in Seq(PreferKeys)
       /\ Range(g[6]) = {"resolution", "missing", "return", "count", "tx", "handling"} \cap p.applied
  <2>1. 6 \in 1 .. 8 /\ 6 - 1 = 5
    OBVIOUS
  <2> QED
    BY <1>1, <1>9, <1>15, <2>1
<1>17. /\ g[7] \in Seq(PreferKeys)
       /\ Range(g[7]) = {"resolution", "missing", "return", "count", "tx", "handling", "timezone"}
                          \cap p.applied
  <2>1. 7 \in 1 .. 8 /\ 7 - 1 = 6
    OBVIOUS
  <2> QED
    BY <1>1, <1>9, <1>16, <2>1
<1>18. Range(g[8]) = Range(g[7]) \cup ({"max-affected"} \cap p.applied)
  <2>1. 8 \in 1 .. 8 /\ 8 - 1 = 7
    OBVIOUS
  <2> QED
    BY <1>1, <1>9, <1>17, <2>1
<1> QED
  BY <1>7, <1>17, <1>18 DEF PreferKeys

-----------------------------------------------------------------------------
(* Content negotiation.                                                    *)

\* How many entries the sort puts before the i-th.
Ahead(es, i) == {j \in DOMAIN es : Before(es, j, i)}
Rank(es, i) == Cardinality(Ahead(es, i))

\* The sort's order is strict and total: no two entries tie.
LEMMA BeforeOrders ==
    ASSUME NEW es \in Seq(Entry), NEW i \in DOMAIN es, NEW j \in DOMAIN es, NEW k \in DOMAIN es
    PROVE  /\ ~Before(es, i, i)
           /\ Before(es, i, j) /\ Before(es, j, k) => Before(es, i, k)
           /\ i # j => Before(es, i, j) \/ Before(es, j, i)
<1>1. DOMAIN es = 1 .. Len(es) /\ Len(es) \in Nat
  BY LenProperties
<1>2. es[i] \in Entry /\ es[j] \in Entry /\ es[k] \in Entry
  BY <1>1, ElementOfSeq
<1>3. es[i].q \in Nat /\ es[j].q \in Nat /\ es[k].q \in Nat /\ i \in Nat /\ j \in Nat /\ k \in Nat
  BY <1>1, <1>2 DEF Entry
<1> QED
  BY <1>3 DEF Before

\* A list has as many places as entries.
LEMMA PlacesFinite ==
    ASSUME NEW es \in Seq(Entry)
    PROVE  IsFiniteSet(DOMAIN es) /\ Cardinality(DOMAIN es) = Len(es)
<1>1. PICK b : b = Len(es)
  OBVIOUS
<1>2. DOMAIN es = 1 .. b /\ b \in Nat
  BY <1>1, LenProperties
<1>3. IsFiniteSet(1 .. b) /\ Cardinality(1 .. b) = IF 1 > b THEN 0 ELSE b - 1 + 1
  <2>1. 1 \in Int /\ b \in Int
    BY <1>2
  <2> QED
    BY <2>1, FS_Interval
<1>4. Cardinality(1 .. b) = b
  BY <1>2, <1>3
<1> QED
  BY <1>1, <1>2, <1>3, <1>4

\* Every entry has a place in the sorted list, and an entry sorted before another has
\* an earlier one.
LEMMA RankPlaces ==
    ASSUME NEW es \in Seq(Entry), NEW i \in DOMAIN es, NEW j \in DOMAIN es
    PROVE  /\ Rank(es, i) \in Nat /\ Rank(es, i) + 1 \in DOMAIN es
           /\ Before(es, i, j) => Rank(es, i) < Rank(es, j)
<1>1. DOMAIN es = 1 .. Len(es) /\ Len(es) \in Nat /\ i \in 1 .. Len(es)
  BY LenProperties
<1>2. IsFiniteSet(DOMAIN es) /\ Cardinality(DOMAIN es) = Len(es)
  BY PlacesFinite
<1>3. IsFiniteSet(DOMAIN es \ {i}) /\ Cardinality(DOMAIN es \ {i}) = Len(es) - 1
  BY <1>2, FS_RemoveElement
<1>4. Ahead(es, i) \in SUBSET (DOMAIN es \ {i}) /\ Ahead(es, j) \in SUBSET DOMAIN es
  <2>1. ~Before(es, i, i)
    BY BeforeOrders
  <2> QED
    BY <2>1 DEF Ahead
<1>5. IsFiniteSet(Ahead(es, i)) /\ Rank(es, i) <= Len(es) - 1
  BY <1>3, <1>4, FS_Subset DEF Rank
<1>6. IsFiniteSet(Ahead(es, j))
  BY <1>2, <1>4, FS_Subset
<1>7. Rank(es, i) \in Nat /\ Rank(es, j) \in Nat
  BY <1>5, <1>6, FS_CardinalityType DEF Rank
<1>8. ASSUME Before(es, i, j) PROVE Rank(es, i) < Rank(es, j)
  <2> DEFINE A == Ahead(es, i) \cup {i}
  <2>1. i \notin Ahead(es, i) /\ i \in Ahead(es, j)
    BY <1>4, <1>8 DEF Ahead
  <2>2. A \in SUBSET Ahead(es, j)
    BY <1>8, <2>1, BeforeOrders DEF Ahead
  <2>3. Cardinality(A) = Rank(es, i) + 1
    BY <1>5, <2>1, FS_AddElement DEF Rank
  <2> HIDE DEF A
  <2>4. Cardinality(A) <= Rank(es, j)
    BY <1>6, <2>2, FS_Subset DEF Rank
  <2> QED
    BY <1>7, <2>3, <2>4
<1> QED
  BY <1>1, <1>5, <1>7, <1>8

\* Every place in the sorted list is some entry's, and of one only.
LEMMA RankFills ==
    ASSUME NEW es \in Seq(Entry), NEW n \in DOMAIN es
    PROVE  \E i \in DOMAIN es : Rank(es, i) = n - 1
<1> DEFINE D == DOMAIN es
           f == [i \in D |-> Rank(es, i) + 1]
<1>1. D = 1 .. Len(es) /\ Len(es) \in Nat /\ n \in Nat
  BY LenProperties
<1>2. IsFiniteSet(D) /\ Cardinality(D) = Len(es)
  BY PlacesFinite
<1>3. IsFiniteSet(D \ {n}) /\ Cardinality(D \ {n}) = Len(es) - 1
  <2>1. n \in D
    OBVIOUS
  <2> HIDE DEF D
  <2> QED
    BY <1>2, <2>1, FS_RemoveElement
<1>4. ASSUME NEW i \in D, NEW j \in D, i # j PROVE Rank(es, i) # Rank(es, j)
  <2>1. CASE Before(es, i, j)
    BY <2>1, RankPlaces
  <2>2. CASE Before(es, j, i)
    BY <2>2, RankPlaces
  <2> QED
    BY <1>4, <2>1, <2>2, BeforeOrders
<1>5. SUFFICES ASSUME \A i \in D : Rank(es, i) # n - 1 PROVE FALSE
  OBVIOUS
<1>6. f \in [D -> D \ {n}]
  <2>1. ASSUME NEW i \in D PROVE Rank(es, i) + 1 \in D \ {n}
    BY <1>1, <1>5, RankPlaces
  <2> QED
    BY <2>1
<1>7. \A i \in D : f[i] = Rank(es, i) + 1 /\ Rank(es, i) \in Nat
  BY RankPlaces
<1>8. \E i, j \in D : i # j /\ f[i] = f[j]
  <2>1. Cardinality(D \ {n}) < Cardinality(D)
    BY <1>1, <1>2, <1>3
  <2> HIDE DEF f, D
  <2> QED
    BY <1>2, <1>3, <1>6, <2>1, FS_PigeonHole
<1> QED
  <2> HIDE DEF f
  <2> QED
    BY <1>4, <1>7, <1>8

\* sort.SliceStable: the list holds the entries, each at its place.
LEMMA ParseAcceptSorts ==
    ASSUME NEW es \in Seq(Entry)
    PROVE  /\ DOMAIN ParseAccept(es) = DOMAIN es
           /\ \A n \in DOMAIN es : \E i \in DOMAIN es :
                Rank(es, i) = n - 1 /\ ParseAccept(es)[n] = es[i]
           /\ \A i \in DOMAIN es : ParseAccept(es)[Rank(es, i) + 1] = es[i]
<1> DEFINE At(n) == CHOOSE i \in DOMAIN es : Rank(es, i) = n - 1
<1>1. ParseAccept(es) = [n \in DOMAIN es |-> es[At(n)]]
  BY DEF ParseAccept, Rank, Ahead
<1>2. ASSUME NEW n \in DOMAIN es PROVE At(n) \in DOMAIN es /\ Rank(es, At(n)) = n - 1
  BY RankFills
<1>3. ASSUME NEW i \in DOMAIN es, NEW j \in DOMAIN es, Rank(es, i) = Rank(es, j) PROVE i = j
  <2>1. SUFFICES ASSUME i # j PROVE FALSE
    OBVIOUS
  <2>2. CASE Before(es, i, j)
    BY <1>3, <2>2, RankPlaces
  <2>3. CASE Before(es, j, i)
    BY <1>3, <2>3, RankPlaces
  <2> QED
    BY <2>1, <2>2, <2>3, BeforeOrders
<1>4. ASSUME NEW i \in DOMAIN es PROVE ParseAccept(es)[Rank(es, i) + 1] = es[i]
  <2>1. Rank(es, i) \in Nat /\ Rank(es, i) + 1 \in DOMAIN es
    BY RankPlaces
  <2>2. At(Rank(es, i) + 1) \in DOMAIN es /\ Rank(es, At(Rank(es, i) + 1)) = (Rank(es, i) + 1) - 1
    BY <1>2, <2>1
  <2>3. At(Rank(es, i) + 1) = i
    <3> HIDE DEF At
    <3>1. Rank(es, At(Rank(es, i) + 1)) = Rank(es, i)
      BY <2>1, <2>2
    <3> QED
      BY <1>3, <2>2, <3>1
  <2> HIDE DEF At
  <2> QED
    BY <1>1, <2>1, <2>3
<1> HIDE DEF At
<1> QED
  BY <1>1, <1>2, <1>4

\* The supported types are seven pairs, none of them a wildcard.
LEMMA SupportedPairs ==
    /\ DOMAIN SupportedMedia = 1 .. 7
    /\ \A k \in 1 .. 7 :
         /\ SupportedMedia[k] = <<SupportedMedia[k][1], SupportedMedia[k][2]>>
         /\ Len(SupportedMedia[k]) = 2
         /\ SupportedMedia[k] # Unacceptable
         /\ SupportedMedia[k][1] # "*" /\ SupportedMedia[k][2] # "*"
    /\ SupportedMedia[1] = Json /\ SupportedMedia[2] = ArrayMedia
    /\ SupportedMedia[3] = ObjectMedia
<1>1. DOMAIN SupportedMedia = 1 .. 7
  BY DEF SupportedMedia
<1>2. /\ SupportedMedia[1] = <<"application", "json">>
      /\ SupportedMedia[2] = <<"application", "array">>
      /\ SupportedMedia[3] = <<"application", "object">>
      /\ SupportedMedia[4] = <<"application", "plan">>
      /\ SupportedMedia[5] = <<"text", "csv">>
      /\ SupportedMedia[6] = <<"application", "octet-stream">>
      /\ SupportedMedia[7] = <<"text", "plain">>
  BY DEF SupportedMedia, Json, ArrayMedia, ObjectMedia, PlanMedia
<1>3. ASSUME NEW k \in 1 .. 7
      PROVE  /\ SupportedMedia[k] = <<SupportedMedia[k][1], SupportedMedia[k][2]>>
             /\ Len(SupportedMedia[k]) = 2
             /\ SupportedMedia[k] # Unacceptable
             /\ SupportedMedia[k][1] # "*" /\ SupportedMedia[k][2] # "*"
  <2>1. k = 1 \/ k = 2 \/ k = 3 \/ k = 4 \/ k = 5 \/ k = 6 \/ k = 7
    OBVIOUS
  <2> QED
    BY <1>2, <2>1 DEF Unacceptable
<1> QED
  BY <1>1, <1>2, <1>3 DEF Json, ArrayMedia, ObjectMedia

\* The first type a set of places holds is one of its types.
LEMMA FirstOfPlaces ==
    ASSUME NEW ok \in SUBSET (1 .. 7), ok # {}
    PROVE  (CHOOSE i \in ok : \A j \in ok : i <= j) \in ok
<1>1. ok \in SUBSET Nat
  OBVIOUS
<1> QED
  BY <1>1, LeastNumber

\* A range that admits a supported type produces one, and what it produces it admits.
LEMMA ProducedAdmitted ==
    ASSUME NEW r \in Entry, r.q > 0
    PROVE  /\ Produced(r) # Unacceptable => Admits(r, Produced(r))
           /\ \A k \in 1 .. 7 : Admits(r, SupportedMedia[k]) => Produced(r) # Unacceptable
<1> DEFINE M(k) == SupportedMedia[k]
<1>1. \A k \in 1 .. 7 : /\ M(k) = <<M(k)[1], M(k)[2]>> /\ Len(M(k)) = 2 /\ M(k) # Unacceptable
                        /\ M(k)[1] # "*" /\ M(k)[2] # "*"
  BY SupportedPairs
<1>2. /\ Json = <<"application", "json">> /\ Json # Unacceptable /\ Len(Json) = 2
  BY DEF Json, Unacceptable
<1>3. CASE r.typ = "*" /\ r.sub = "*"
  <2>1. Produced(r) = Json
    BY <1>3 DEF Produced
  <2>2. Admits(r, Json)
    BY <1>2, <1>3 DEF Admits
  <2> QED
    BY <1>2, <2>1, <2>2
<1>4. CASE r.typ # "*" /\ r.sub = "*"
  <2> DEFINE ok == {i \in 1 .. 7 : M(i)[1] = r.typ}
             i == CHOOSE i \in ok : \A j \in ok : i <= j
  <2>1. Produced(r) = IF ok = {} THEN Unacceptable ELSE M(i)
    BY <1>4, SupportedPairs DEF Produced, FirstSupported
  <2>2. ok # {} => i \in ok
    <3>1. ok \in SUBSET (1 .. 7)
      OBVIOUS
    <3> HIDE DEF ok
    <3> QED
      BY <3>1, FirstOfPlaces
  <2> HIDE DEF i
  <2>3. ASSUME ok # {} PROVE Admits(r, M(i))
    <3>1. i \in 1 .. 7 /\ M(i)[1] = r.typ
      BY <2>2, <2>3
    <3> HIDE DEF M
    <3> QED
      BY <1>1, <1>4, <3>1 DEF Admits
  <2>4. ASSUME NEW k \in 1 .. 7, Admits(r, M(k)) PROVE k \in ok
    BY <1>1, <1>4, <2>4 DEF Admits
  <2> HIDE DEF M
  <2>5. ok # {} => M(i) # Unacceptable
    BY <1>1, <2>2
  <2> HIDE DEF ok
  <2>6. /\ Produced(r) # Unacceptable => Admits(r, Produced(r))
        /\ \A k \in 1 .. 7 : Admits(r, M(k)) => Produced(r) # Unacceptable
    BY <2>1, <2>3, <2>4, <2>5
  <2> QED
    BY <2>6 DEF M
<1>5. CASE r.sub # "*"
  <2> DEFINE ok == {i \in 1 .. 7 : M(i) = <<r.typ, r.sub>>}
             i == CHOOSE i \in ok : \A j \in ok : i <= j
             m == IF ok = {} THEN Unacceptable ELSE M(i)
  <2>1. Produced(r) = IF r.strip /\ m \in {ArrayMedia, ObjectMedia} THEN Stripped(m) ELSE m
    BY <1>5, SupportedPairs DEF Produced, FirstSupported
  <2>2. ok # {} => i \in ok
    <3>1. ok \in SUBSET (1 .. 7)
      OBVIOUS
    <3> HIDE DEF ok
    <3> QED
      BY <3>1, FirstOfPlaces
  <2> HIDE DEF i
  <2>3. ok # {} => M(i) = <<r.typ, r.sub>> /\ M(i) # Unacceptable /\ Len(M(i)) = 2
    <3>1. ok # {} => i \in 1 .. 7 /\ M(i) = <<r.typ, r.sub>>
      BY <2>2
    <3> HIDE DEF M, ok
    <3> QED
      BY <1>1, <3>1
  <2>4. ok = {} => m = Unacceptable /\ m \notin {ArrayMedia, ObjectMedia}
    BY DEF Unacceptable, ArrayMedia, ObjectMedia
  <2>5. ASSUME ok # {} PROVE Admits(r, M(i)) /\ (r.strip => Admits(r, Stripped(M(i))))
    <3>1. M(i) = <<r.typ, r.sub>>
      BY <2>3, <2>5
    <3>2. Stripped(M(i)) = <<r.typ, r.sub, "stripped">>
      BY <3>1 DEF Stripped
    <3> HIDE DEF M, ok
    <3> QED
      BY <3>1, <3>2 DEF Admits
  <2>6. ASSUME ok # {} PROVE Stripped(M(i)) # Unacceptable
    <3>1. Len(Stripped(M(i))) = 3 /\ Len(Unacceptable) = 2
      BY DEF Stripped, Unacceptable
    <3> QED
      BY <3>1
  <2>7. ASSUME NEW k \in 1 .. 7, Admits(r, M(k)) PROVE k \in ok
    <3>1. M(k) = <<M(k)[1], M(k)[2]>>
      BY <1>1
    <3>2. r.typ = M(k)[1] /\ r.sub = M(k)[2]
      <4> HIDE DEF M
      <4> QED
        BY <1>5, <2>7 DEF Admits
    <3> QED
      BY <3>1, <3>2
  <2> HIDE DEF M, ok
  <2>8. /\ Produced(r) # Unacceptable => Admits(r, Produced(r))
        /\ \A k \in 1 .. 7 : Admits(r, M(k)) => Produced(r) # Unacceptable
    <3>1. CASE ok = {}
      BY <2>1, <2>4, <2>7, <3>1
    <3>2. CASE ok # {}
      BY <2>1, <2>3, <2>5, <2>6, <3>2
    <3> QED
      BY <3>1, <3>2
  <2> QED
    BY <2>8 DEF M
<1> QED
  BY <1>3, <1>4, <1>5

\* The media type of an Accept header is the best it admits, and none only when it admits
\* none.
LEMMA NegotiateFinds ==
    ASSUME NEW es \in Seq(Entry)
    PROVE  /\ NegotiateMedia(es) # Unacceptable => BestFor(es, NegotiateMedia(es))
           /\ NegotiateMedia(es) = Unacceptable =>
                \A i \in DOMAIN es, k \in DOMAIN SupportedMedia : ~Admits(es[i], SupportedMedia[k])
<1> DEFINE rs == ParseAccept(es)
           Yields(r) == r.q > 0 /\ Produced(r) # Unacceptable
           ok == {i \in DOMAIN rs : Yields(rs[i])}
           m == CHOOSE i \in ok : \A j \in ok : i <= j
<1>1. DOMAIN rs = DOMAIN es /\ DOMAIN es = 1 .. Len(es) /\ Len(es) \in Nat
  BY ParseAcceptSorts, LenProperties
<1>2. \A i \in DOMAIN es : es[i] \in Entry
  BY <1>1, ElementOfSeq
<1>3. NegotiateMedia(es) = IF rs = <<>> THEN Json ELSE IF ok = {} THEN Unacceptable
                           ELSE Produced(rs[m])
  BY DEF NegotiateMedia, NegotiateIn
<1>4. \A i \in DOMAIN es : rs[Rank(es, i) + 1] = es[i] /\ Rank(es, i) + 1 \in DOMAIN es
  BY ParseAcceptSorts, RankPlaces
<1>5. \A n \in DOMAIN es : \E i \in DOMAIN es : Rank(es, i) = n - 1 /\ rs[n] = es[i]
  BY ParseAcceptSorts
<1>6. ASSUME NEW i \in DOMAIN es, Rank(es, i) + 1 \notin ok, NEW k \in 1 .. 7
      PROVE  ~Admits(es[i], SupportedMedia[k])
  <2>1. ~Yields(es[i])
    BY <1>1, <1>4, <1>6
  <2>2. CASE es[i].q > 0
    BY <1>2, <2>1, <2>2, ProducedAdmitted
  <2>3. CASE ~(es[i].q > 0)
    BY <2>3 DEF Admits
  <2> QED
    BY <2>2, <2>3
<1>7. CASE rs = <<>>
  <2>1. DOMAIN es = {}
    BY <1>1, <1>7
  <2>2. es = <<>>
    BY <1>1, <2>1, EmptySeq
  <2>3. NegotiateMedia(es) = Json /\ Json # Unacceptable
    BY <1>3, <1>7 DEF Json, Unacceptable
  <2> QED
    BY <2>2, <2>3 DEF BestFor
<1>8. CASE rs # <<>> /\ ok = {}
  <2>1. NegotiateMedia(es) = Unacceptable
    BY <1>3, <1>8
  <2>2. \A i \in DOMAIN es, k \in 1 .. 7 : ~Admits(es[i], SupportedMedia[k])
    <3> HIDE DEF ok
    <3> QED
      BY <1>6, <1>8
  <2> QED
    BY <2>1, <2>2, SupportedPairs
<1>9. CASE rs # <<>> /\ ok # {}
  <2>1. ok \in SUBSET Nat
    BY <1>1
  <2>2. m \in ok /\ \A j \in ok : m <= j
    <3> HIDE DEF ok
    <3> QED
      BY <1>9, <2>1, LeastNumber
  <2> HIDE DEF m
  <2>3. m \in DOMAIN es /\ Yields(rs[m])
    BY <1>1, <2>2
  <2>4. PICK i \in DOMAIN es : Rank(es, i) = m - 1 /\ rs[m] = es[i]
    BY <1>5, <2>3
  <2>5. NegotiateMedia(es) = Produced(es[i])
    BY <1>3, <1>9, <2>4
  <2>6. Admits(es[i], Produced(es[i])) /\ Produced(es[i]) # Unacceptable
    BY <1>2, <2>3, <2>4, ProducedAdmitted
  <2>7. ASSUME NEW j \in DOMAIN es, Before(es, j, i), NEW k \in DOMAIN SupportedMedia
        PROVE  ~Admits(es[j], SupportedMedia[k])
    <3>1. Rank(es, j) < Rank(es, i) /\ Rank(es, j) \in Nat
      BY <2>7, RankPlaces
    <3>2. m \in Nat
      BY <2>1, <2>2
    <3>3. Rank(es, j) + 1 < m
      BY <2>4, <3>1, <3>2
    <3> HIDE DEF ok
    <3>4. Rank(es, j) + 1 \notin ok
      BY <2>2, <3>1, <3>2, <3>3
    <3> QED
      BY <1>6, <3>4, SupportedPairs
  <2>8. BestFor(es, NegotiateMedia(es))
    BY <2>5, <2>6, <2>7 DEF BestFor
  <2> QED
    BY <2>5, <2>6, <2>8
<1> QED
  BY <1>7, <1>8, <1>9

-----------------------------------------------------------------------------
(* The inductive invariant: what is known of a request at each stage.      *)

\* Nothing has been written but headers, and no challenge among them.
Blank(hs) == [status |-> 0, code |-> "", headers |-> hs, applied |-> <<>>,
              range |-> <<>>, body |-> None]
Silent == resp = Blank(resp.headers) /\ "WWW-Authenticate" \notin resp.headers

\* The handlers' stages up to the backend, which a table or a function reaches.
Handling == {"negotiate", "body", "parse", "tx", "range", "cap", "plan", "authorize", "explain"}

\* Each stage has its gates behind it, and belongs to a path that has it.
Placed ==
    /\ pc \notin {"cors", "options", "auth"} => id # "none" /\ "auth" \in gates
    /\ pc \notin {"cors", "options", "auth", "schema"} => "schema" \in gates
    /\ pc \in {"authorize", "explain", "execute", "render"} => "plan" \in gates
    /\ pc \in {"explain", "execute", "render"} /\ req.path = "/table" => "authorize" \in gates
    /\ pc = "root" => req.path = "/"
    /\ pc \in Handling => req.path \in {"/table", "/rpc/fn"}
    /\ pc \in {"execute", "render"} => req.path \in {"/", "/table", "/rpc/fn"}
    /\ pc \in {"execute", "render"} /\ req.path = "/" => IsGet
    /\ pc = "authorize" => req.path = "/table"
    /\ pc = "body" => IsRpc \/ ~IsGet
    /\ pc \in {"range", "cap"} => IsRpc \/ IsGet

\* The media type: none before it is negotiated, the negotiated one after.
MediaChosen ==
    IF pc \in {"cors", "options", "auth", "schema", "route", "root", "negotiate"}
    THEN media = Unacceptable
    ELSE /\ media = IF req.path = "/" THEN Json ELSE NegotiateMedia(req.accept)
         /\ media # Unacceptable
         /\ pc \in {"execute", "render"} => media # PlanMedia

\* The preferences: none before the parse, the header's until the policy is applied,
\* then what the policy makes of them, which strict handling lets pass.
Unparsed == {"cors", "options", "auth", "schema", "route", "root", "negotiate", "body", "parse"}
Settled == {"range", "cap", "plan", "authorize", "explain", "execute", "render"}
PrefsSettled ==
    /\ pc \in Unparsed \/ req.path = "/" => prefs = NoPreferences
    /\ pc = "tx" => prefs = ParsePrefer(req.prefer)
    /\ pc \in Settled /\ req.path # "/" =>
         prefs = Resolved(req.prefer, conf.txEnd) /\ ~StrictError(prefs)

\* The window: a closed Range is kept or shortened to db-max-rows, never moved.
WindowOK == window \in [offset : Nat, limit : Nat \cup {None}]
AsksClosed == IsGet /\ req.range.form = "closed"
WindowKept ==
    /\ pc = "cap" /\ AsksClosed =>
         /\ req.range.lo <= req.range.hi /\ window.offset = req.range.lo
         /\ window.limit = req.range.hi - req.range.lo + 1
    /\ /\ pc \in {"plan", "authorize", "explain", "execute", "render"}
       /\ IsGet \/ IsRpc
       /\ req.path # "/"
       =>
         /\ AsksClosed =>
              /\ req.range.lo <= req.range.hi /\ window.offset = req.range.lo
              /\ window.limit \in Nat
              /\ \/ window.limit = req.range.hi - req.range.lo + 1
                 \/ /\ window.limit = conf.maxRows
                    /\ window.limit <= req.range.hi - req.range.lo + 1
         /\ conf.maxRows # 0 => window.limit \in Nat /\ window.limit <= conf.maxRows

\* The backend's answer: a window of n rows, counted when the client asked for it; a
\* status only where the backend may set one.
Answered ==
    /\ result.total \in Nat \cup {None}
    /\ result.status \in IF conf.native THEN {0, 202, 1000} ELSE {0, 202}
    /\ ~IsRpc => result.shape \in {"table", "scalar"}
    /\ (IsGet \/ IsRpc) /\ result.shape \in {"table", "setof"} =>
         \E n \in 0 .. MaxTotal :
            result.rows = Shown(n) /\ (prefs.val["count"] = "exact" => result.total = n)

\* A request on its way.
Underway ==
    /\ Silent /\ Placed /\ MediaChosen /\ PrefsSettled /\ WindowOK /\ WindowKept
    /\ pc # "render" => ran = [what |-> "no", rollback |-> FALSE]
    /\ pc = "render" => /\ Answered
                        /\ ran = [what |-> "run",
                                  rollback |-> ~IsGet /\ prefs.val["tx"] = "rollback"]

Safe == GatesKept /\ AnswerDescribesResult /\ FailuresReported /\ NegotiatedBest
IInv == Safe /\ (pc # "done" => Underway)

\* Preferences are of their kind as soon as they are parsed.
LEMMA ParsedTypes ==
    ASSUME NEW toks \in Seq(Token)
    PROVE  ParsePrefer(toks) \in PrefState /\ ParsePrefer(toks).applied \subseteq ParsePrefer(toks).seen
<1> DEFINE t == Taken(toks)
<1>1. t \in PrefState /\ t.applied \subseteq t.seen
  BY TakenMeans
<1>2. Absent \in Values /\ "max-affected" \in PreferKeys
  BY DEF Values, PreferKeys
<1> DEFINE s == ParsePrefer(toks)
<1>3. s = IF t.val["handling"] = "strict" THEN t
          ELSE [t EXCEPT !.applied = @ \ {"max-affected"}, !.val["max-affected"] = Absent]
  BY DEF ParsePrefer, StrictOnly
<1> HIDE DEF t, s
<1>4. CASE t.val["handling"] # "strict"
  <2>1. s = [t EXCEPT !.applied = t.applied \ {"max-affected"},
                      !.val = [t.val EXCEPT !["max-affected"] = Absent]]
    BY <1>1, <1>3, <1>4 DEF PrefState
  <2>2. s \in PrefState /\ s.seen = t.seen /\ s.applied = t.applied \ {"max-affected"}
    BY <1>1, <1>2, <2>1 DEF PrefState
  <2> QED
    BY <1>1, <2>2 DEF s
<1> QED
  BY <1>1, <1>3, <1>4 DEF s

-----------------------------------------------------------------------------
(* The order of the stages.                                                *)

\* A stage that occurs once is followed by the next one.
LEMMA NextStage ==
    ASSUME NEW s, NEW i \in DOMAIN s, NEW x, s[i] = x, \A j \in DOMAIN s : s[j] = x => j = i
    PROVE  s[1 + CHOOSE j \in DOMAIN s : s[j] = x] = s[1 + i]
<1>1. (CHOOSE j \in DOMAIN s : s[j] = x) = i
  OBVIOUS
<1> QED
  BY <1>1

\* Reads.
LEMMA ReadAfter ==
    ASSUME Stages = ReadStages
    PROVE  /\ After("negotiate") = "parse" /\ After("parse") = "tx" /\ After("tx") = "range"
           /\ After("range") = "cap" /\ After("cap") = "plan" /\ After("plan") = "authorize"
           /\ After("authorize") = "explain" /\ After("explain") = "execute"
           /\ After("execute") = "render"
<1> DEFINE s == Stages
<1>1. /\ DOMAIN s = 1 .. 10
      /\ s[1] = "negotiate" /\ s[2] = "parse" /\ s[3] = "tx" /\ s[4] = "range" /\ s[5] = "cap"
      /\ s[6] = "plan" /\ s[7] = "authorize" /\ s[8] = "explain" /\ s[9] = "execute"
      /\ s[10] = "render"
  BY DEF ReadStages
<1>2. \A x : After(x) = s[1 + CHOOSE j \in DOMAIN s : s[j] = x]
  BY DEF After
<1> HIDE DEF s
<1>3. ASSUME NEW i \in 1 .. 10, NEW j \in 1 .. 10, s[i] = s[j] PROVE j = i
  <2>1. /\ i \in {1, 2, 3, 4, 5, 6, 7, 8, 9, 10} /\ j \in {1, 2, 3, 4, 5, 6, 7, 8, 9, 10}
    OBVIOUS
  <2> QED
    BY <1>1, <1>3, <2>1
<1>4. ASSUME NEW i \in 1 .. 10 PROVE After(s[i]) = s[1 + i]
  <2>1. i \in DOMAIN s /\ \A j \in DOMAIN s : s[j] = s[i] => j = i
    BY <1>1, <1>3
  <2> QED
    BY <1>2, <2>1, NextStage
<1>5. /\ After(s[1]) = s[2] /\ After(s[2]) = s[3] /\ After(s[3]) = s[4] /\ After(s[4]) = s[5]
      /\ After(s[5]) = s[6] /\ After(s[6]) = s[7] /\ After(s[7]) = s[8] /\ After(s[8]) = s[9]
      /\ After(s[9]) = s[10]
  BY <1>4
<1> QED
  BY <1>1, <1>5

\* Writes.
LEMMA WriteAfter ==
    ASSUME Stages = WriteStages
    PROVE  /\ After("negotiate") = "body" /\ After("body") = "parse"
           /\ After("parse") = "tx" /\ After("tx") = "plan"
           /\ After("plan") = "authorize" /\ After("authorize") = "explain"
           /\ After("explain") = "execute" /\ After("execute") = "render"
<1> DEFINE s == Stages
<1>1. /\ DOMAIN s = 1 .. 9
      /\ s[1] = "negotiate" /\ s[2] = "body" /\ s[3] = "parse" /\ s[4] = "tx"
      /\ s[5] = "plan" /\ s[6] = "authorize" /\ s[7] = "explain" /\ s[8] = "execute"
      /\ s[9] = "render"
  BY DEF WriteStages
<1>2. \A x : After(x) = s[1 + CHOOSE j \in DOMAIN s : s[j] = x]
  BY DEF After
<1> HIDE DEF s
<1>3. ASSUME NEW i \in 1 .. 9, NEW j \in 1 .. 9, s[i] = s[j] PROVE j = i
  <2>1. i \in {1, 2, 3, 4, 5, 6, 7, 8, 9} /\ j \in {1, 2, 3, 4, 5, 6, 7, 8, 9}
    OBVIOUS
  <2> QED
    BY <1>1, <1>3, <2>1
<1>4. ASSUME NEW i \in 1 .. 9 PROVE After(s[i]) = s[1 + i]
  <2>1. i \in DOMAIN s /\ \A j \in DOMAIN s : s[j] = s[i] => j = i
    BY <1>1, <1>3
  <2> QED
    BY <1>2, <2>1, NextStage
<1>5. /\ After(s[1]) = s[2] /\ After(s[2]) = s[3] /\ After(s[3]) = s[4] /\ After(s[4]) = s[5]
      /\ After(s[5]) = s[6] /\ After(s[6]) = s[7] /\ After(s[7]) = s[8] /\ After(s[8]) = s[9]
  BY <1>4
<1> QED
  BY <1>1, <1>5

\* Calls.
LEMMA CallAfter ==
    ASSUME Stages = CallStages
    PROVE  /\ After("negotiate") = "body" /\ After("body") = "parse"
           /\ After("parse") = "tx" /\ After("tx") = "range"
           /\ After("range") = "cap" /\ After("cap") = "plan"
           /\ After("plan") = "explain" /\ After("explain") = "execute"
           /\ After("execute") = "render"
<1> DEFINE s == Stages
<1>1. /\ DOMAIN s = 1 .. 10
      /\ s[1] = "negotiate" /\ s[2] = "body" /\ s[3] = "parse" /\ s[4] = "tx"
      /\ s[5] = "range" /\ s[6] = "cap" /\ s[7] = "plan" /\ s[8] = "explain"
      /\ s[9] = "execute" /\ s[10] = "render"
  BY DEF CallStages
<1>2. \A x : After(x) = s[1 + CHOOSE j \in DOMAIN s : s[j] = x]
  BY DEF After
<1> HIDE DEF s
<1>3. ASSUME NEW i \in 1 .. 10, NEW j \in 1 .. 10, s[i] = s[j] PROVE j = i
  <2>1. i \in {1, 2, 3, 4, 5, 6, 7, 8, 9, 10} /\ j \in {1, 2, 3, 4, 5, 6, 7, 8, 9, 10}
    OBVIOUS
  <2> QED
    BY <1>1, <1>3, <2>1
<1>4. ASSUME NEW i \in 1 .. 10 PROVE After(s[i]) = s[1 + i]
  <2>1. i \in DOMAIN s /\ \A j \in DOMAIN s : s[j] = s[i] => j = i
    BY <1>1, <1>3
  <2> QED
    BY <1>2, <2>1, NextStage
<1>5. /\ After(s[1]) = s[2] /\ After(s[2]) = s[3] /\ After(s[3]) = s[4] /\ After(s[4]) = s[5]
      /\ After(s[5]) = s[6] /\ After(s[6]) = s[7] /\ After(s[7]) = s[8] /\ After(s[8]) = s[9]
      /\ After(s[9]) = s[10]
  BY <1>4
<1> QED
  BY <1>1, <1>5

\* The root document.
LEMMA RootAfter ==
    ASSUME Stages = RootStages
    PROVE  /\ After("root") = "execute" /\ After("execute") = "render"
<1> DEFINE s == Stages
<1>1. /\ DOMAIN s = 1 .. 3
      /\ s[1] = "root" /\ s[2] = "execute" /\ s[3] = "render"
  BY DEF RootStages
<1>2. \A x : After(x) = s[1 + CHOOSE j \in DOMAIN s : s[j] = x]
  BY DEF After
<1> HIDE DEF s
<1>3. ASSUME NEW i \in 1 .. 3, NEW j \in 1 .. 3, s[i] = s[j] PROVE j = i
  <2>1. i \in {1, 2, 3} /\ j \in {1, 2, 3}
    OBVIOUS
  <2> QED
    BY <1>1, <1>3, <2>1
<1>4. ASSUME NEW i \in 1 .. 3 PROVE After(s[i]) = s[1 + i]
  <2>1. i \in DOMAIN s /\ \A j \in DOMAIN s : s[j] = s[i] => j = i
    BY <1>1, <1>3
  <2> QED
    BY <1>2, <2>1, NextStage
<1>5. /\ After(s[1]) = s[2] /\ After(s[2]) = s[3]
  BY <1>4
<1> QED
  BY <1>1, <1>5

\* What follows a stage, by the request's path and method.
LEMMA AfterStage ==
    ASSUME TypeOK, Placed
    PROVE  /\ pc = "root" => After(pc) = "execute"
           /\ pc = "negotiate" => After(pc) = IF IsRpc \/ ~IsGet THEN "body" ELSE "parse"
           /\ pc = "body" => After(pc) = "parse"
           /\ pc = "parse" => After(pc) = "tx"
           /\ pc = "tx" => After(pc) = IF IsRpc \/ IsGet THEN "range" ELSE "plan"
           /\ pc = "range" => After(pc) = "cap"
           /\ pc = "cap" => After(pc) = "plan"
           /\ pc = "plan" => After(pc) = IF IsRpc THEN "explain" ELSE "authorize"
           /\ pc = "authorize" => After(pc) = "explain"
           /\ pc = "explain" => After(pc) = "execute"
           /\ pc = "execute" => After(pc) = "render"
<1>1. CASE req.path = "/"
  <2>1. Stages = RootStages
    BY <1>1 DEF Stages
  <2> QED
    BY <1>1, <2>1, RootAfter DEF Placed, Handling
<1>2. CASE IsRpc
  <2>1. Stages = CallStages /\ req.path = "/rpc/fn"
    BY <1>2 DEF Stages, IsRpc
  <2> QED
    BY <1>2, <2>1, CallAfter DEF Placed
<1>3. CASE req.path # "/" /\ ~IsRpc /\ IsGet
  <2>1. Stages = ReadStages
    BY <1>3 DEF Stages
  <2> QED
    BY <1>3, <2>1, ReadAfter DEF Placed
<1>4. CASE req.path # "/" /\ ~IsRpc /\ ~IsGet
  <2>1. Stages = WriteStages
    BY <1>4 DEF Stages
  <2> QED
    BY <1>4, <2>1, WriteAfter DEF Placed
<1> QED
  BY <1>1, <1>2, <1>3, <1>4

-----------------------------------------------------------------------------
(* What the invariant says of a request on its way, and of one that was    *)
(* answered early.                                                         *)

\* What has been written so far, field by field.
LEMMA SilentFields ==
    ASSUME Silent
    PROVE  /\ resp.status = 0 /\ resp.code = "" /\ resp.applied = <<>> /\ resp.range = <<>>
           /\ resp.body = None /\ "WWW-Authenticate" \notin resp.headers
           /\ DOMAIN resp = {"status", "code", "headers", "applied", "range", "body"}
<1>1. PICK hs : hs = resp.headers
  OBVIOUS
<1>2. resp = Blank(hs)
  BY <1>1 DEF Silent
<1>3. "WWW-Authenticate" \notin resp.headers
  BY DEF Silent
<1> QED
  BY <1>2, <1>3 DEF Blank

\* The requirements on a request that the backend may see.
Earned ==
    /\ id # "none" /\ {"auth", "schema", "plan"} \subseteq gates
    /\ req.path = "/table" => "authorize" \in gates
    /\ req.path # "/" => ~(FirstValue(req.prefer, "handling") = "strict"
                          /\ Offends(req.prefer, conf.txEnd))

\* A request at the backend's door has earned it.
LEMMA DoorEarned ==
    ASSUME TypeOK, Underway, pc \in {"explain", "execute", "render"}
    PROVE  Earned
<1>1. req.prefer \in Seq(Token) /\ conf.txEnd \in TxEnds
  BY DEF TypeOK, RequestOK, Conf
<1>2. pc \in Settled /\ PrefsSettled /\ Placed
  BY DEF Settled, Underway
<1>3. ASSUME req.path # "/"
      PROVE  ~(FirstValue(req.prefer, "handling") = "strict" /\ Offends(req.prefer, conf.txEnd))
  <2>1. prefs = Resolved(req.prefer, conf.txEnd) /\ ~StrictError(prefs)
    BY <1>2, <1>3 DEF PrefsSettled
  <2> QED
    BY <1>1, <2>1, ResolvedMeans
<1>4. id # "none" /\ {"auth", "schema", "plan"} \subseteq gates
      /\ (req.path = "/table" => "authorize" \in gates)
  BY <1>2 DEF Placed
<1> QED
  BY <1>3, <1>4 DEF Earned

\* A window never shows more rows than its limit or than there are.
LEMMA ShownBounds ==
    ASSUME NEW n \in Nat, WindowOK, None \notin Nat
    PROVE  /\ Shown(n) \in Nat /\ Shown(n) <= n
           /\ window.limit \in Nat => Shown(n) <= window.limit
           /\ Shown(n) > 0 => window.offset + Shown(n) <= n
           /\ \/ window.limit \in Nat /\ Shown(n) = window.limit
              \/ window.offset <= n /\ Shown(n) = n - window.offset
              \/ Shown(n) = 0
<1>1. window.offset \in Nat /\ window.limit \in Nat \cup {None}
  BY DEF WindowOK
<1> QED
  BY <1>1 DEF Shown

\* Every property holds of a request on its way.
LEMMA UnderwaySafe == TypeOK /\ pc # "done" /\ Underway => IInv
<1> SUFFICES ASSUME TypeOK, pc # "done", Underway PROVE Safe
  BY DEF IInv
<1>1. resp.code = "" /\ ~Paged
  BY SilentFields DEF Underway, Paged
<1>2. ExecutionEarned
  <2>1. CASE pc = "render"
    BY <2>1, DoorEarned DEF Earned, ExecutionEarned, Underway, MediaChosen
  <2>2. CASE pc # "render"
    BY <2>2 DEF ExecutionEarned, Underway
  <2> QED
    BY <2>1, <2>2
<1>3. TxPolicyKept
  <2>1. CASE pc = "render"
    <3> SUFFICES ASSUME ~IsGet PROVE ran.rollback = RollsBack(req.prefer, conf.txEnd)
      BY DEF TxPolicyKept
    <3>1. ran.rollback = (~IsGet /\ prefs.val["tx"] = "rollback")
      BY <2>1 DEF Underway
    <3>2. req.path # "/" /\ pc \in Settled
      BY <2>1 DEF Underway, Placed, Settled
    <3>3. prefs = Resolved(req.prefer, conf.txEnd)
      BY <3>2 DEF Underway, PrefsSettled
    <3>4. req.prefer \in Seq(Token) /\ conf.txEnd \in TxEnds
      BY DEF TypeOK, RequestOK, Conf
    <3>5. prefs.val["tx"] = "rollback" <=> RollsBack(req.prefer, conf.txEnd)
      BY <3>3, <3>4, ResolvedMeans
    <3>6. RollsBack(req.prefer, conf.txEnd) \in BOOLEAN
      BY <3>4 DEF RollsBack, TxEnds
    <3> QED
      BY <3>1, <3>5, <3>6
  <2>2. CASE pc # "render"
    BY <2>2 DEF TxPolicyKept, Underway
  <2> QED
    BY <2>1, <2>2
<1>4. RowCap
  <2> SUFFICES ASSUME pc = "render", IsGet \/ IsRpc, req.path # "/",
                      result.shape \in {"table", "setof"}, conf.maxRows # 0
               PROVE  result.rows <= conf.maxRows
    BY <1>1 DEF RowCap
  <2>1. PICK n \in 0 .. MaxTotal : result.rows = Shown(n)
    BY DEF Underway, Answered
  <2>2. window.limit \in Nat /\ window.limit <= conf.maxRows /\ conf.maxRows \in Nat /\ WindowOK
    BY DEF Underway, WindowKept, TypeOK, Conf
  <2>3. n \in Nat /\ None \notin Nat
    BY FrontAssumption
  <2>4. Shown(n) \in Nat /\ Shown(n) <= window.limit
    BY <2>2, <2>3, ShownBounds
  <2> QED
    BY <2>1, <2>2, <2>4
<1>5. EchoHonest /\ PagedHonestly
  BY <1>1 DEF EchoHonest, PagedHonestly
<1>6. FailuresReported
  BY <1>1 DEF FailuresReported, NoSchemaOnError, PrivilegeGraded, CompleteBody, StatusSendable
<1>7. NegotiatedBest
  <2> SUFFICES ASSUME media # Unacceptable, req.path # "/" PROVE BestFor(req.accept, media)
    BY DEF NegotiatedBest
  <2>1. media = NegotiateMedia(req.accept)
    BY DEF Underway, MediaChosen
  <2>2. req.accept \in Seq(Entry)
    BY DEF TypeOK, RequestOK
  <2> QED
    BY <2>1, <2>2, NegotiateFinds
<1> QED
  BY <1>2, <1>3, <1>4, <1>5, <1>6, <1>7 DEF Safe, GatesKept, AnswerDescribesResult

\* The same of the state after a step.
LEMMA UnderwayKept == TypeOK' /\ pc' # "done" /\ Underway' => IInv'
<1>1. (TypeOK /\ pc # "done" /\ Underway => IInv)'
  BY UnderwaySafe, PTL
<1> QED
  BY <1>1

\* The codes of the errors that are neither a privilege error nor a panic.
Refusals == {"PGRST301", "PGRST302", "PGRST106", "PGRST125", "PGRST202", "PGRST101", "PGRST117",
             "PGRST126", "PGRST107", "body", "PGRST102", "PGRST122", "PGRST100", "PGRST103",
             "PGRST205", "PGRST108", "42501 RLS", "23505", "PGRST116", "PGRST112", "XX000"}

\* Headers can be staged.
LEMMA HeadersStaged ==
    ASSUME Silent, NEW hs, "WWW-Authenticate" \notin hs, Headers(hs)
    PROVE  Silent'
<1>1. PICK old : old = resp.headers
  OBVIOUS
<1>2. resp = Blank(old) /\ "WWW-Authenticate" \notin old
  BY <1>1 DEF Silent
<1>3. resp' = Blank(old \cup hs)
  BY <1>2 DEF Headers, Blank
<1>4. resp'.headers = old \cup hs
  BY <1>3 DEF Blank
<1> QED
  BY <1>2, <1>3, <1>4 DEF Silent, Blank

\* No Content-Range is written when the list of its parts is empty.
LEMMA EmptyShort ==
    ASSUME NEW r, r = <<>>
    PROVE  ~(Len(r) > 0)
OBVIOUS

\* An answer that ends a request before it has run, or because it failed, and that is
\* neither a privilege error nor a panic, keeps every property.
LEMMA StoppedSafe ==
    ASSUME TypeOK, pc # "done", Silent, pc' = "done", gates' = gates,
           UNCHANGED <<conf, req, id, result, window>>,
           DOMAIN prefs'.val = PreferKeys, prefs'.applied \subseteq prefs'.seen,
           resp'.status \in 100 .. 599, resp'.range = <<>>,
           \/ resp'.code \in Refusals /\ "Content-Profile" \notin resp'.headers
           \/ resp'.code = "" /\ ran'.what # "run",
           ExecutionEarned', TxPolicyKept', NegotiatedBest'
    PROVE  IInv'
<1>1. resp'.code \notin {"42501", "panic"} /\ Len(resp'.range) = 0
  BY DEF Refusals
<1>2. TypeOK'
  BY DEF TypeOK, RequestOK
<1>3. ~Paged'
  <2>1. PICK r : r = resp'.range
    OBVIOUS
  <2>2. ~(Len(r) > 0)
    BY <2>1, EmptyShort
  <2> QED
    BY <2>1, <2>2, Zenon DEF Paged
<1>4. EchoHonest'
  BY DEF EchoHonest, Refusals
<1>5. PagedHonestly'
  BY <1>3 DEF PagedHonestly
<1>6. RowCap'
  BY <1>3 DEF RowCap
<1>7. NoSchemaOnError'
  BY DEF NoSchemaOnError
<1>8. PrivilegeGraded' /\ StatusSendable'
  BY <1>1 DEF PrivilegeGraded, StatusSendable
<1>9. CompleteBody'
  BY DEF CompleteBody, Refusals
<1> QED
  BY <1>2, <1>4, <1>5, <1>6, <1>7, <1>8, <1>9
     DEF IInv, Safe, GatesKept, AnswerDescribesResult, FailuresReported

\* A step that leaves the request, its identity, its gates and the backend alone leaves
\* what it earned alone.
LEMMA EarnedKept ==
    ASSUME ExecutionEarned, TxPolicyKept, gates \subseteq gates',
           UNCHANGED <<conf, media, req, id, ran>>
    PROVE  ExecutionEarned' /\ TxPolicyKept'
<1>1. ExecutionEarned'
  BY DEF ExecutionEarned
<1>2. TxPolicyKept'
  BY DEF TxPolicyKept, IsGet
<1> QED
  BY <1>1, <1>2

\* So does one before the backend is reached.
LEMMA UnrunEarned ==
    ASSUME ran'.what = "no"
    PROVE  ExecutionEarned' /\ TxPolicyKept'
BY DEF ExecutionEarned, TxPolicyKept

\* writeError keeps every property.
LEMMA RefusalSafe ==
    ASSUME TypeOK, pc # "done", Underway, NEW s \in 100 .. 599, NEW c \in Refusals,
           WriteError(s, c), UNCHANGED <<conf, req, id, ran, result, window>>,
           DOMAIN prefs'.val = PreferKeys, prefs'.applied \subseteq prefs'.seen,
           \/ UNCHANGED media /\ (c # "PGRST107" \/ media # Unacceptable)
           \/ pc # "render" /\ NegotiatedBest'
    PROVE  IInv'
<1>1. Silent /\ Safe
  BY UnderwaySafe DEF Underway, IInv
<1>2. /\ pc' = "done" /\ gates' = gates /\ resp'.status = s /\ resp'.code = c /\ resp'.range = <<>>
      /\ "Content-Profile" \notin resp'.headers
  BY <1>1, SilentFields DEF WriteError
<1>3. ExecutionEarned' /\ TxPolicyKept'
  <2>1. CASE pc = "render"
    BY <1>1, <1>2, <2>1, EarnedKept DEF Safe, GatesKept
  <2>2. CASE pc # "render"
    BY <2>2, UnrunEarned DEF Underway
  <2> QED
    BY <2>1, <2>2
<1>4. NegotiatedBest'
  BY <1>1, <1>2 DEF Safe, NegotiatedBest
<1> QED
  BY <1>1, <1>2, <1>3, <1>4, StoppedSafe

\* A privilege error keeps every property: an anonymous client is challenged, an
\* authenticated one is not.
LEMMA PrivilegeSafe ==
    ASSUME TypeOK, pc # "done", Underway, MapExecError("42501"),
           UNCHANGED <<conf, media, req, id, prefs, result, window>>,
           ExecutionEarned', TxPolicyKept'
    PROVE  IInv'
<1>1. Silent /\ Safe
  BY UnderwaySafe DEF Underway, IInv
<1>2. /\ pc' = "done" /\ gates' = gates /\ resp'.code = "42501" /\ resp'.range = <<>>
      /\ "Content-Profile" \notin resp'.headers
      /\ IF id = "anon" THEN resp'.status = 401 /\ "WWW-Authenticate" \in resp'.headers
         ELSE resp'.status = 403 /\ "WWW-Authenticate" \notin resp'.headers
  <2>1. CASE id = "anon"
    <3>1. /\ pc' = "done" /\ gates' = gates
          /\ resp' = [resp EXCEPT !.status = 401, !.code = "42501",
                        !.headers = (@ \ {"Content-Profile"}) \cup {"WWW-Authenticate"}]
      BY <2>1 DEF MapExecError
    <3> QED
      BY <1>1, <2>1, <3>1, SilentFields
  <2>2. CASE id # "anon"
    <3>1. WriteError(403, "42501")
      BY <2>2 DEF MapExecError
    <3> QED
      BY <1>1, <2>2, <3>1, SilentFields DEF WriteError
  <2> QED
    BY <2>1, <2>2
<1>3. TypeOK'
  <2>1. resp'.status \in 100 .. 599
    BY <1>2
  <2> QED
    BY <1>2, <2>1 DEF TypeOK, RequestOK
<1>4. ~Paged'
  <2>1. PICK r : r = resp'.range
    OBVIOUS
  <2>2. ~(Len(r) > 0)
    BY <1>2, <2>1, EmptyShort
  <2> QED
    BY <2>1, <2>2, Zenon DEF Paged
<1>5. EchoHonest'
  BY <1>2 DEF EchoHonest
<1>6. PagedHonestly'
  BY <1>4 DEF PagedHonestly
<1>7. RowCap'
  BY <1>2, <1>4 DEF RowCap
<1>8. NoSchemaOnError' /\ StatusSendable' /\ CompleteBody'
  BY <1>2 DEF NoSchemaOnError, StatusSendable, CompleteBody
<1>9. PrivilegeGraded'
  BY <1>2 DEF PrivilegeGraded
<1>10. NegotiatedBest'
  BY <1>1, <1>2 DEF Safe, NegotiatedBest
<1> QED
  BY <1>2, <1>3, <1>5, <1>6, <1>7, <1>8, <1>9, <1>10
     DEF IInv, Safe, GatesKept, AnswerDescribesResult, FailuresReported

-----------------------------------------------------------------------------
(* The actions, one lemma each.                                            *)

\* serveCORS.
LEMMA ServeCorsKeeps ==
    ASSUME TypeOK, pc # "done", Underway, ServeCors
    PROVE  IInv'
<1>1. pc = "cors" /\ Silent /\ Safe /\ ran = [what |-> "no", rollback |-> FALSE]
      /\ UNCHANGED <<conf, media, req, id, prefs, window, gates, ran, result>>
  BY UnderwaySafe DEF Underway, IInv, ServeCors
<1>2. ASSUME pc' = "options", Silent' PROVE IInv'
  <2>1. TypeOK'
    BY <1>1, <1>2 DEF TypeOK, RequestOK
  <2>2. Placed'
    BY <1>1, <1>2 DEF Placed, Handling
  <2>3. MediaChosen'
    BY <1>1, <1>2 DEF Underway, MediaChosen
  <2>4. PrefsSettled'
    BY <1>1, <1>2 DEF Underway, PrefsSettled, Unparsed, Settled
  <2>5. WindowOK' /\ WindowKept'
    BY <1>1, <1>2 DEF Underway, WindowOK, WindowKept
  <2>6. Underway'
    BY <1>1, <1>2, <2>2, <2>3, <2>4, <2>5 DEF Underway
  <2> QED
    BY <1>2, <2>1, <2>6, UnderwayKept
<1> DEFINE hs == {"Access-Control-Allow-Origin"}
                   \cup (IF conf.origins # {} THEN {"Access-Control-Allow-Credentials"} ELSE {})
<1>3. "WWW-Authenticate" \notin hs
  OBVIOUS
<1>4. \/ pc' = "options" /\ UNCHANGED resp
      \/ pc' = "options" /\ Headers(hs)
      \/ pc' = "done" /\ resp' = [resp EXCEPT !.status = 200,
                                   !.headers = hs \cup {"Access-Control-Allow-Methods"}]
  BY DEF ServeCors
<1> HIDE DEF hs
<1>5. CASE pc' = "options" /\ UNCHANGED resp
  BY <1>1, <1>2, <1>5 DEF Silent, Blank
<1>6. CASE pc' = "options" /\ Headers(hs)
  BY <1>1, <1>2, <1>3, <1>6, HeadersStaged
<1>7. CASE pc' = "done" /\ resp' = [resp EXCEPT !.status = 200,
                                      !.headers = hs \cup {"Access-Control-Allow-Methods"}]
  <2>0. resp'.status = 200
    BY <1>1, <1>7, SilentFields
  <2>1. resp'.code = "" /\ resp'.range = <<>>
    BY <1>1, <1>7, SilentFields
  <2>2. ExecutionEarned' /\ TxPolicyKept'
    BY <1>1, UnrunEarned
  <2>3. NegotiatedBest'
    BY <1>1, <2>1 DEF Safe, NegotiatedBest
  <2>4. DOMAIN prefs'.val = PreferKeys /\ prefs'.applied \subseteq prefs'.seen
    BY <1>1 DEF TypeOK
  <2>6. resp'.status \in 100 .. 599
    BY <2>0
  <2>7. ran'.what # "run"
    BY <1>1
  <2>5. pc' = "done" /\ gates' = gates /\ UNCHANGED <<conf, req, id, result, window>>
    BY <1>1, <1>7
  <2> QED
    BY <1>1, <2>1, <2>2, <2>3, <2>4, <2>5, <2>6, <2>7, StoppedSafe
<1> QED
  BY <1>4, <1>5, <1>6, <1>7

\* The stages before the handlers choose anything.
Early == {"cors", "options", "auth", "schema", "route", "root", "negotiate"}

\* A step between two of them keeps every property if it keeps the order of the gates.
LEMMA EarlyStep ==
    ASSUME TypeOK, Underway, pc \in Early, pc' \in Early, Silent', Placed',
           UNCHANGED <<conf, media, req, prefs, window, ran, result>>,
           id' \in {"none", "anon", "user"},
           gates' \subseteq {"auth", "schema", "plan", "authorize"}
    PROVE  IInv'
<1>1. TypeOK' /\ pc' # "done" /\ pc' # "render" /\ pc # "render"
  BY ZenonT(90) DEF TypeOK, RequestOK, Early
<1>2. MediaChosen'
  BY DEF Underway, MediaChosen, Early
<1>3. PrefsSettled'
  BY DEF Underway, PrefsSettled, Unparsed, Settled, Early
<1>4. WindowOK' /\ WindowKept'
  BY DEF Underway, WindowOK, WindowKept, Early
<1>5. Underway'
  BY <1>1, <1>2, <1>3, <1>4 DEF Underway
<1> QED
  BY <1>1, <1>5, UnderwayKept

\* Staging nothing leaves the response blank.
LEMMA SilentKept ==
    ASSUME Silent, UNCHANGED resp
    PROVE  Silent'
BY DEF Silent, Blank

\* OPTIONS.
LEMMA HandleOptionsKeeps ==
    ASSUME TypeOK, pc # "done", Underway, HandleOptions
    PROVE  IInv'
<1>1. pc = "options" /\ Silent /\ Safe /\ ran = [what |-> "no", rollback |-> FALSE]
      /\ UNCHANGED <<conf, media, req, id, prefs, window, gates, ran, result>>
  BY UnderwaySafe DEF Underway, IInv, HandleOptions
<1>2. CASE pc' = "auth" /\ UNCHANGED resp
  <2>1. Silent'
    BY <1>1, <1>2, SilentKept
  <2>2. Placed'
    BY <1>2 DEF Placed, Handling
  <2> QED
    BY <1>1, <1>2, <2>1, <2>2, EarlyStep DEF Early, TypeOK
<1>3. CASE pc' = "done" /\ resp' = [resp EXCEPT !.status = 200, !.headers = @ \cup {"Allow"}]
  <2>1. resp'.status = 200
    BY <1>1, <1>3, SilentFields
  <2>2. resp'.code = "" /\ resp'.range = <<>>
    BY <1>1, <1>3, SilentFields
  <2>3. ExecutionEarned' /\ TxPolicyKept'
    BY <1>1, UnrunEarned
  <2>4. NegotiatedBest'
    BY <1>1, <2>2 DEF Safe, NegotiatedBest
  <2>5. DOMAIN prefs'.val = PreferKeys /\ prefs'.applied \subseteq prefs'.seen
    BY <1>1 DEF TypeOK
  <2>6. resp'.status \in 100 .. 599
    BY <2>1
  <2>7. ran'.what # "run"
    BY <1>1
  <2>8. pc' = "done" /\ gates' = gates /\ UNCHANGED <<conf, req, id, result, window>>
    BY <1>1, <1>3
  <2> QED
    BY <1>1, <2>2, <2>3, <2>4, <2>5, <2>6, <2>7, <2>8, StoppedSafe
<1> QED
  BY <1>2, <1>3 DEF HandleOptions

\* authenticate.
LEMMA AuthenticateKeeps ==
    ASSUME TypeOK, pc # "done", Underway, Authenticate
    PROVE  IInv'
<1>1. pc = "auth" /\ Silent /\ UNCHANGED <<conf, media, req, prefs, window, ran, result>>
  BY DEF Underway, Authenticate
<1>2. DOMAIN prefs'.val = PreferKeys /\ prefs'.applied \subseteq prefs'.seen
  BY <1>1 DEF TypeOK
<1>3. ASSUME NEW c \in {"PGRST301", "PGRST302"}, WriteError(401, c), UNCHANGED id PROVE IInv'
  <2>1. c \in Refusals /\ c # "PGRST107"
    BY DEF Refusals
  <2>2. 401 \in 100 .. 599
    OBVIOUS
  <2> QED
    BY <1>1, <1>2, <1>3, <2>1, <2>2, RefusalSafe
<1>4. CASE /\ Pass("auth", "schema") /\ UNCHANGED resp
           /\ id' \in IF conf.verifier THEN {"anon", "user"} ELSE {"anon"}
  <2>1. Silent'
    BY <1>1, <1>4, SilentKept
  <2>2. pc' = "schema" /\ gates' = gates \cup {"auth"} /\ id' \in {"anon", "user"}
    BY <1>4 DEF Pass
  <2>3. Placed'
    BY <2>2 DEF Placed, Handling
  <2> QED
    BY <1>1, <2>1, <2>2, <2>3, EarlyStep DEF Early, TypeOK
<1> QED
  BY <1>3, <1>4 DEF Authenticate

\* resolveSchema.
LEMMA ResolveSchemaKeeps ==
    ASSUME TypeOK, pc # "done", Underway, ResolveSchema
    PROVE  IInv'
<1>1. pc = "schema" /\ Silent /\ Placed
      /\ UNCHANGED <<conf, media, req, id, prefs, window, ran, result>>
  BY DEF Underway, ResolveSchema
<1>2. DOMAIN prefs'.val = PreferKeys /\ prefs'.applied \subseteq prefs'.seen
  BY <1>1 DEF TypeOK
<1>3. CASE WriteError(406, "PGRST106")
  <2>1. 406 \in 100 .. 599 /\ "PGRST106" \in Refusals
    BY DEF Refusals
  <2> QED
    BY <1>1, <1>2, <1>3, <2>1, RefusalSafe
<1>4. ASSUME NEW hs \in {{}, {"Content-Profile"}}, Pass("schema", "route"), Headers(hs)
      PROVE  IInv'
  <2>1. Silent'
    BY <1>1, <1>4, HeadersStaged
  <2>2. pc' = "route" /\ gates' = gates \cup {"schema"}
    BY <1>4 DEF Pass
  <2>3. Placed'
    BY <1>1, <2>2 DEF Placed, Handling
  <2> QED
    BY <1>1, <2>1, <2>2, <2>3, EarlyStep DEF Early, TypeOK
<1> QED
  BY <1>3, <1>4 DEF ResolveSchema

\* The switch on path and method.
LEMMA RouteKeeps ==
    ASSUME TypeOK, pc # "done", Underway, Route
    PROVE  IInv'
<1>1. pc = "route" /\ Silent /\ Placed
      /\ UNCHANGED <<conf, media, req, id, prefs, window, ran, result>>
  BY DEF Underway, Route
<1>2. DOMAIN prefs'.val = PreferKeys /\ prefs'.applied \subseteq prefs'.seen
  BY <1>1 DEF TypeOK
<1>3. ASSUME NEW s \in {404, 405}, NEW c \in {"PGRST125", "PGRST202", "PGRST101", "PGRST117"},
             WriteError(s, c)
      PROVE  IInv'
  <2>1. c \in Refusals /\ c # "PGRST107"
    BY DEF Refusals
  <2>2. s \in 100 .. 599
    OBVIOUS
  <2> QED
    BY <1>1, <1>2, <1>3, <2>1, <2>2, RefusalSafe, ZenonT(20)
<1>4. CASE /\ UNCHANGED <<resp, gates>>
           /\ \/ pc' = "root" /\ req.path = "/"
              \/ pc' = "negotiate" /\ req.path \in {"/table", "/rpc/fn"}
  <2>1. Silent'
    BY <1>1, <1>4, SilentKept
  <2>2. Placed'
    BY <1>1, <1>4 DEF Placed, Handling
  <2> QED
    BY <1>1, <1>4, <2>1, <2>2, EarlyStep DEF Early, TypeOK
<1>5. \/ WriteError(404, "PGRST125") \/ WriteError(404, "PGRST202")
      \/ WriteError(405, "PGRST101") \/ WriteError(405, "PGRST117")
      \/ /\ UNCHANGED <<resp, gates>>
         /\ \/ pc' = "root" /\ req.path = "/"
            \/ pc' = "negotiate" /\ req.path \in {"/table", "/rpc/fn"}
  BY DEF Route, TypeOK, RequestOK, Paths
<1> QED
  BY <1>3, <1>4, <1>5

\* The media types differ.
LEMMA MediaDiffer ==
    Json # Unacceptable /\ Json # PlanMedia /\ PlanMedia # Unacceptable
BY DEF Json, Unacceptable, PlanMedia

\* handleRoot.
LEMMA RootKeeps ==
    ASSUME TypeOK, pc # "done", Underway, Root
    PROVE  IInv'
<1>1. /\ pc = "root" /\ Silent /\ Placed /\ req.path = "/" /\ media' = Json
      /\ ran = [what |-> "no", rollback |-> FALSE]
      /\ UNCHANGED <<conf, req, id, prefs, window, ran, result>>
  BY DEF Underway, Root, Placed
<1>2. DOMAIN prefs'.val = PreferKeys /\ prefs'.applied \subseteq prefs'.seen
  BY <1>1 DEF TypeOK
<1>3. NegotiatedBest'
  BY <1>1, MediaDiffer DEF NegotiatedBest
<1>4. ExecutionEarned' /\ TxPolicyKept'
  BY <1>1, UnrunEarned
<1>5. ASSUME NEW s \in {404, 406}, NEW c \in {"PGRST126", "PGRST107", "PGRST202"}, WriteError(s, c)
      PROVE  IInv'
  <2>1. c \in Refusals
    BY DEF Refusals
  <2>2. s \in 100 .. 599
    OBVIOUS
  <2> QED
    BY <1>1, <1>2, <1>3, <1>5, <2>1, <2>2, RefusalSafe, ZenonT(20)
<1>6. CASE /\ pc' = "done" /\ UNCHANGED gates
           /\ resp' = [resp EXCEPT !.status = 405, !.code = "PGRST117",
                         !.headers = (@ \ {"Content-Profile"}) \cup {"Allow"}]
  <2>1. resp'.status = 405
    BY <1>1, <1>6, SilentFields
  <2>2. resp'.code = "PGRST117" /\ resp'.range = <<>> /\ "Content-Profile" \notin resp'.headers
    BY <1>1, <1>6, SilentFields
  <2>3. resp'.code \in Refusals
    BY <2>2 DEF Refusals
  <2>4. resp'.status \in 100 .. 599
    BY <2>1
  <2>5. pc' = "done" /\ gates' = gates
    BY <1>6
  <2> QED
    BY <1>1, <1>2, <1>3, <1>4, <2>2, <2>3, <2>4, <2>5, StoppedSafe
<1>7. CASE /\ pc' = "done" /\ UNCHANGED gates
           /\ resp' = [resp EXCEPT !.status = 200,
                         !.body = IF req.method = "HEAD" THEN None ELSE 1]
  <2>1. resp'.status = 200
    BY <1>1, <1>7, SilentFields
  <2>2. resp'.code = "" /\ resp'.range = <<>>
    BY <1>1, <1>7, SilentFields
  <2>3. ran'.what # "run"
    BY <1>1
  <2>4. resp'.status \in 100 .. 599
    BY <2>1
  <2>5. pc' = "done" /\ gates' = gates
    BY <1>7
  <2> QED
    BY <1>1, <1>2, <1>3, <1>4, <2>2, <2>3, <2>4, <2>5, StoppedSafe
<1>8. CASE IsGet /\ Pass("plan", After(pc)) /\ UNCHANGED resp
  <2>1. pc' = "execute" /\ gates' = gates \cup {"plan"}
    BY <1>1, <1>8, AfterStage DEF Pass
  <2>2. TypeOK'
    BY <1>1, <2>1 DEF TypeOK, RequestOK
  <2>3. Silent'
    BY <1>1, <1>8, SilentKept
  <2>4. Placed'
    BY <1>1, <1>8, <2>1 DEF Placed, Handling, IsGet
  <2>5. MediaChosen'
    BY <1>1, <2>1, MediaDiffer DEF MediaChosen
  <2>6. PrefsSettled'
    BY <1>1, <2>1 DEF Underway, PrefsSettled, Unparsed, Settled
  <2>7. WindowOK' /\ WindowKept'
    BY <1>1, <2>1 DEF Underway, WindowOK, WindowKept
  <2>8. Underway'
    BY <1>1, <2>1, <2>3, <2>4, <2>5, <2>6, <2>7 DEF Underway
  <2> QED
    BY <2>1, <2>2, <2>8, UnderwayKept
<1>9. \/ /\ pc' = "done" /\ UNCHANGED gates
         /\ resp' = [resp EXCEPT !.status = 405, !.code = "PGRST117",
                       !.headers = (@ \ {"Content-Profile"}) \cup {"Allow"}]
      \/ WriteError(404, "PGRST126") \/ WriteError(406, "PGRST107") \/ WriteError(404, "PGRST202")
      \/ IsGet /\ Pass("plan", After(pc)) /\ UNCHANGED resp
      \/ /\ pc' = "done" /\ UNCHANGED gates
         /\ resp' = [resp EXCEPT !.status = 200,
                       !.body = IF req.method = "HEAD" THEN None ELSE 1]
  <2>1. IsGet \in BOOLEAN
    BY DEF IsGet
  <2> QED
    BY <2>1, Zenon DEF Root
<1> QED
  <2>1. 404 \in {404, 406} /\ 406 \in {404, 406}
    OBVIOUS
  <2>2. /\ "PGRST126" \in {"PGRST126", "PGRST107", "PGRST202"}
        /\ "PGRST107" \in {"PGRST126", "PGRST107", "PGRST202"}
        /\ "PGRST202" \in {"PGRST126", "PGRST107", "PGRST202"}
    OBVIOUS
  <2> QED
    BY <1>5, <1>6, <1>7, <1>8, <1>9, <2>1, <2>2

\* A step between two stages of a handler keeps every property, given what it settles.
LEMMA HandlerStep ==
    ASSUME TypeOK, pc \in Handling, Underway, pc' \in Handling \cup {"execute"}, Placed',
           MediaChosen', PrefsSettled', WindowOK', WindowKept',
           UNCHANGED <<conf, req, id, ran, result, resp>>,
           gates' \subseteq {"auth", "schema", "plan", "authorize"},
           DOMAIN prefs'.val = PreferKeys, prefs'.applied \subseteq prefs'.seen
    PROVE  IInv'
<1>1. pc' # "done" /\ pc' # "render" /\ pc # "render"
  BY DEF Handling
<1>2. window'.offset \in Nat /\ window'.limit \in Nat \cup {None}
  BY DEF WindowOK
<1>3. TypeOK'
  BY <1>1, <1>2, ZenonT(40) DEF TypeOK, RequestOK, Handling
<1>4. Silent'
  BY SilentKept DEF Underway
<1>5. Underway'
  BY <1>1, <1>4 DEF Underway
<1> QED
  BY <1>1, <1>3, <1>5, UnderwayKept

\* negotiate.
LEMMA NegotiateAcceptKeeps ==
    ASSUME TypeOK, pc # "done", Underway, NegotiateAccept
    PROVE  IInv'
<1>1. /\ pc = "negotiate" /\ Silent /\ Placed /\ media' = NegotiateMedia(req.accept)
      /\ req.path \in {"/table", "/rpc/fn"}
      /\ UNCHANGED <<conf, req, id, prefs, window, ran, result>>
  BY DEF Underway, NegotiateAccept, Placed, Handling
<1>2. DOMAIN prefs'.val = PreferKeys /\ prefs'.applied \subseteq prefs'.seen
  BY <1>1 DEF TypeOK
<1>3. NegotiatedBest'
  <2>1. req.accept \in Seq(Entry)
    BY DEF TypeOK, RequestOK
  <2> QED
    BY <1>1, <2>1, NegotiateFinds DEF NegotiatedBest
<1>4. CASE media' = Unacceptable /\ WriteError(406, "PGRST107")
  <2>1. "PGRST107" \in Refusals
    BY DEF Refusals
  <2>2. 406 \in 100 .. 599
    OBVIOUS
  <2> QED
    BY <1>1, <1>2, <1>3, <1>4, <2>1, <2>2, RefusalSafe
<1>5. CASE media' # Unacceptable /\ Onward
  <2>1. /\ pc' = IF IsRpc \/ ~IsGet THEN "body" ELSE "parse"
        /\ UNCHANGED <<gates, resp>>
    BY <1>1, <1>5, AfterStage DEF Onward
  <2>2. Placed'
    BY <1>1, <2>1 DEF Placed, Handling, IsRpc, IsGet
  <2>3. MediaChosen'
    BY <1>1, <1>5, <2>1 DEF MediaChosen
  <2>4. PrefsSettled'
    BY <1>1, <2>1 DEF Underway, PrefsSettled, Unparsed, Settled
  <2>5. WindowOK' /\ WindowKept'
    BY <1>1, <2>1 DEF Underway, WindowOK, WindowKept
  <2>6. pc \in Handling /\ pc' \in Handling
    BY <1>1, <2>1 DEF Handling
  <2>7. gates' \subseteq {"auth", "schema", "plan", "authorize"}
    BY <2>1 DEF TypeOK
  <2> QED
    BY <1>1, <1>2, <2>1, <2>2, <2>3, <2>4, <2>5, <2>6, <2>7, HandlerStep
<1> QED
  BY <1>4, <1>5 DEF NegotiateAccept

\* readBody.
LEMMA ReadBodyKeeps ==
    ASSUME TypeOK, pc # "done", Underway, ReadBody
    PROVE  IInv'
<1>1. /\ pc = "body" /\ Placed
      /\ UNCHANGED <<conf, media, req, id, prefs, window, ran, result>>
  BY DEF Underway, ReadBody
<1>2. DOMAIN prefs'.val = PreferKeys /\ prefs'.applied \subseteq prefs'.seen
  BY <1>1 DEF TypeOK
<1>3. ASSUME NEW s \in {400, 413}, NEW c \in {"body", "PGRST102"}, WriteError(s, c) PROVE IInv'
  <2>1. c \in Refusals /\ c # "PGRST107"
    BY DEF Refusals
  <2>2. s \in 100 .. 599
    OBVIOUS
  <2> QED
    BY <1>1, <1>2, <1>3, <2>1, <2>2, RefusalSafe
<1>4. CASE Onward
  <2>1. pc' = "parse" /\ UNCHANGED <<gates, resp>>
    BY <1>1, <1>4, AfterStage DEF Onward
  <2>2. Placed'
    BY <1>1, <2>1 DEF Placed, Handling
  <2>3. MediaChosen'
    BY <1>1, <2>1 DEF Underway, MediaChosen
  <2>4. PrefsSettled'
    BY <1>1, <2>1 DEF Underway, PrefsSettled, Unparsed, Settled
  <2>5. WindowOK' /\ WindowKept'
    BY <1>1, <2>1 DEF Underway, WindowOK, WindowKept
  <2>6. pc \in Handling /\ pc' \in Handling
    BY <1>1, <2>1 DEF Handling
  <2>7. gates' \subseteq {"auth", "schema", "plan", "authorize"}
    BY <2>1 DEF TypeOK
  <2> QED
    BY <1>1, <1>2, <2>1, <2>2, <2>3, <2>4, <2>5, <2>6, <2>7, HandlerStep
<1> QED
  BY <1>3, <1>4 DEF ReadBody

\* ParseRead, ParseWrite and ParseCall.
LEMMA ParseKeeps ==
    ASSUME TypeOK, pc # "done", Underway, Parse
    PROVE  IInv'
<1>1. pc = "parse" /\ Placed /\ UNCHANGED <<conf, media, req, id, ran, result>>
  BY DEF Underway, Parse
<1>2. ASSUME NEW s \in {400, 416}, NEW c \in {"PGRST122", "PGRST100", "PGRST103"},
             WriteError(s, c), UNCHANGED <<prefs, window>>
      PROVE  IInv'
  <2>1. c \in Refusals /\ c # "PGRST107"
    BY DEF Refusals
  <2>2. s \in 100 .. 599
    OBVIOUS
  <2>3. DOMAIN prefs'.val = PreferKeys /\ prefs'.applied \subseteq prefs'.seen
    BY <1>2 DEF TypeOK
  <2> QED
    BY <1>1, <1>2, <2>1, <2>2, <2>3, RefusalSafe, ZenonT(20)
<1>3. CASE /\ prefs' = ParsePrefer(req.prefer)
           /\ window' = [offset |-> req.offset, limit |-> req.limit]
           /\ Onward
  <2>1. pc' = "tx" /\ UNCHANGED <<gates, resp>>
    BY <1>1, <1>3, AfterStage DEF Onward
  <2>2. Placed' /\ req.path # "/"
    BY <1>1, <2>1 DEF Placed, Handling
  <2>3. MediaChosen'
    BY <1>1, <2>1 DEF Underway, MediaChosen
  <2>4. PrefsSettled'
    BY <1>1, <1>3, <2>1, <2>2 DEF PrefsSettled, Unparsed, Settled
  <2>5. WindowOK' /\ WindowKept'
    <3>1. req.offset \in Nat /\ req.limit \in Nat \cup {None}
      BY DEF TypeOK, RequestOK
    <3>2. WindowOK'
      BY <1>3, <3>1 DEF WindowOK
    <3>3. WindowKept'
      BY <2>1 DEF WindowKept
    <3> QED
      BY <3>2, <3>3
  <2>6. pc \in Handling /\ pc' \in Handling
    BY <1>1, <2>1 DEF Handling
  <2>7. gates' \subseteq {"auth", "schema", "plan", "authorize"}
    BY <2>1 DEF TypeOK
  <2>8. DOMAIN prefs'.val = PreferKeys /\ prefs'.applied \subseteq prefs'.seen
    <3>1. req.prefer \in Seq(Token)
      BY DEF TypeOK, RequestOK
    <3>2. prefs' \in PrefState /\ prefs'.applied \subseteq prefs'.seen
      BY <1>3, <3>1, ParsedTypes
    <3> QED
      BY <3>2 DEF PrefState
  <2> QED
    BY <1>1, <2>1, <2>2, <2>3, <2>4, <2>5, <2>6, <2>7, <2>8, HandlerStep
<1>4. \/ WriteError(400, "PGRST122") /\ UNCHANGED <<prefs, window>>
      \/ WriteError(400, "PGRST100") /\ UNCHANGED <<prefs, window>>
      \/ WriteError(416, "PGRST103") /\ UNCHANGED <<prefs, window>>
      \/ /\ prefs' = ParsePrefer(req.prefer)
         /\ window' = [offset |-> req.offset, limit |-> req.limit]
         /\ Onward
  BY DEF Parse
<1> QED
  BY <1>2, <1>3, <1>4

\* applyTxPolicy.
LEMMA ApplyTxPolicyKeeps ==
    ASSUME TypeOK, pc # "done", Underway, ApplyTxPolicy
    PROVE  IInv'
<1>1. /\ pc = "tx" /\ Placed /\ prefs' = ResolveTx(prefs, conf.txEnd)
      /\ UNCHANGED <<conf, media, req, id, window, ran, result>>
  BY DEF Underway, ApplyTxPolicy
<1>2. prefs' = Resolved(req.prefer, conf.txEnd)
  BY <1>1 DEF Underway, PrefsSettled, Resolved
<1>3. DOMAIN prefs'.val = PreferKeys /\ prefs'.applied \subseteq prefs'.seen
  <2>1. req.prefer \in Seq(Token) /\ conf.txEnd \in TxEnds
    BY DEF TypeOK, RequestOK, Conf
  <2>2. prefs' \in PrefState /\ prefs'.applied \subseteq prefs'.seen
    BY <1>2, <2>1, ResolvedMeans
  <2> QED
    BY <2>2 DEF PrefState
<1>4. CASE WriteError(400, "PGRST122")
  <2>1. "PGRST122" \in Refusals
    BY DEF Refusals
  <2>2. 400 \in 100 .. 599
    OBVIOUS
  <2> QED
    BY <1>1, <1>3, <1>4, <2>1, <2>2, RefusalSafe, ZenonT(20)
<1>5. CASE ~StrictError(prefs') /\ Onward
  <2>1. pc' = (IF IsRpc \/ IsGet THEN "range" ELSE "plan") /\ UNCHANGED <<gates, resp>>
    BY <1>1, <1>5, AfterStage DEF Onward
  <2>2. Placed' /\ req.path # "/"
    BY <1>1, <2>1 DEF Placed, Handling, IsRpc, IsGet
  <2>3. MediaChosen'
    BY <1>1, <2>1 DEF Underway, MediaChosen
  <2>4. PrefsSettled'
    <3>1. ~StrictError(prefs)'
      BY <1>5 DEF StrictError
    <3> QED
      BY <1>1, <1>2, <2>1, <2>2, <3>1 DEF PrefsSettled, Unparsed, Settled
  <2>5. WindowOK' /\ WindowKept'
    BY <1>1, <2>1 DEF Underway, WindowOK, WindowKept, IsGet, IsRpc
  <2>6. pc \in Handling /\ pc' \in Handling
    BY <1>1, <2>1 DEF Handling
  <2>7. gates' \subseteq {"auth", "schema", "plan", "authorize"}
    BY <2>1 DEF TypeOK
  <2> QED
    BY <1>1, <1>3, <2>1, <2>2, <2>3, <2>4, <2>5, <2>6, <2>7, HandlerStep
<1> QED
  BY <1>4, <1>5 DEF ApplyTxPolicy

\* parseRangeHeader.
LEMMA RangeRequestKeeps ==
    ASSUME TypeOK, pc # "done", Underway, RangeRequest
    PROVE  IInv'
<1>1. /\ pc = "range" /\ Placed /\ WindowOK
      /\ UNCHANGED <<conf, media, req, id, prefs, ran, result>>
  BY DEF Underway, RangeRequest
<1>2. DOMAIN prefs'.val = PreferKeys /\ prefs'.applied \subseteq prefs'.seen
  BY <1>1 DEF TypeOK
<1>3. CASE WriteError(416, "PGRST103") /\ UNCHANGED window
  <2>1. "PGRST103" \in Refusals
    BY DEF Refusals
  <2>2. 416 \in 100 .. 599
    OBVIOUS
  <2> QED
    BY <1>1, <1>2, <1>3, <2>1, <2>2, RefusalSafe
<1>4. CASE /\ ~(IsGet /\ req.range.form = "closed" /\ req.range.hi < req.range.lo)
           /\ window' = IF IsGet THEN RangeWindow(req.range, window) ELSE window
           /\ Onward
  <2>1. pc' = "cap" /\ UNCHANGED <<gates, resp>>
    BY <1>1, <1>4, AfterStage DEF Onward
  <2>2. Placed' /\ req.path # "/"
    BY <1>1, <2>1 DEF Placed, Handling, IsRpc, IsGet
  <2>3. MediaChosen'
    BY <1>1, <2>1 DEF Underway, MediaChosen
  <2>4. PrefsSettled'
    BY <1>1, <2>1, <2>2 DEF Underway, PrefsSettled, Unparsed, Settled, StrictError
  <2>5. req.range.lo \in Nat /\ req.range.hi \in Nat /\ req.range \in RangeHeader
    BY DEF TypeOK, RequestOK, RangeHeader
  <2>6. WindowOK'
    <3>1. CASE IsGet /\ req.range.form = "open"
      <4>1. window' = [window EXCEPT !.offset = req.range.lo]
        BY <1>4, <3>1 DEF RangeWindow
      <4> QED
        BY <1>1, <2>5, <4>1 DEF WindowOK
    <3>2. CASE IsGet /\ req.range.form = "closed"
      <4>1. window' = [offset |-> req.range.lo, limit |-> req.range.hi - req.range.lo + 1]
        BY <1>4, <3>2 DEF RangeWindow
      <4>2. req.range.hi - req.range.lo + 1 \in Nat
        BY <1>4, <2>5, <3>2
      <4> QED
        BY <2>5, <4>1, <4>2 DEF WindowOK
    <3>3. CASE ~IsGet \/ req.range.form \notin {"open", "closed"}
      <4>1. window' = window
        BY <1>4, <3>3 DEF RangeWindow
      <4> QED
        BY <1>1, <4>1 DEF WindowOK
    <3> QED
      BY <3>1, <3>2, <3>3
  <2>7. WindowKept'
    <3>1. ASSUME AsksClosed'
          PROVE  /\ req.range.lo <= req.range.hi /\ window'.offset = req.range.lo
                 /\ window'.limit = req.range.hi - req.range.lo + 1
      <4>1. IsGet /\ req.range.form = "closed"
        BY <1>1, <3>1 DEF AsksClosed, IsGet
      <4>2. window' = [offset |-> req.range.lo, limit |-> req.range.hi - req.range.lo + 1]
        BY <1>4, <4>1 DEF RangeWindow
      <4>3. req.range.lo <= req.range.hi
        BY <1>4, <2>5, <4>1
      <4> QED
        BY <4>2, <4>3
    <3> QED
      BY <1>1, <2>1, <3>1 DEF WindowKept
  <2>8. pc \in Handling /\ pc' \in Handling
    BY <1>1, <2>1 DEF Handling
  <2>9. gates' \subseteq {"auth", "schema", "plan", "authorize"}
    BY <2>1 DEF TypeOK
  <2> QED
    BY <1>1, <1>2, <2>1, <2>2, <2>3, <2>4, <2>6, <2>7, <2>8, <2>9, HandlerStep
<1> QED
  BY <1>3, <1>4 DEF RangeRequest

\* capLimit.
LEMMA CapWindowKeeps ==
    ASSUME TypeOK, pc # "done", Underway, CapWindow
    PROVE  IInv'
<1>1. /\ pc = "cap" /\ Placed /\ WindowOK /\ WindowKept /\ Onward
      /\ window' = [window EXCEPT !.limit = CapLimit(window.limit)]
      /\ UNCHANGED <<conf, media, req, id, prefs, ran, result>>
  BY DEF Underway, CapWindow, WindowOK
<1>2. DOMAIN prefs'.val = PreferKeys /\ prefs'.applied \subseteq prefs'.seen
  BY <1>1 DEF TypeOK
<1>3. pc' = "plan" /\ UNCHANGED <<gates, resp>>
  BY <1>1, AfterStage DEF Onward
<1>4. Placed' /\ req.path # "/"
  BY <1>1, <1>3 DEF Placed, Handling
<1>5. MediaChosen'
  BY <1>1, <1>3 DEF Underway, MediaChosen
<1>6. PrefsSettled'
  BY <1>1, <1>3, <1>4 DEF Underway, PrefsSettled, Unparsed, Settled, StrictError
<1>7. /\ conf.maxRows \in Nat /\ window.limit \in Nat \cup {None} /\ window.offset \in Nat
      /\ None \notin Nat
  BY <1>1, FrontAssumption DEF TypeOK, Conf, WindowOK
<1>8. /\ CapLimit(window.limit) \in Nat \cup {None}
      /\ conf.maxRows # 0 =>
           CapLimit(window.limit) \in Nat /\ CapLimit(window.limit) <= conf.maxRows
      /\ window.limit \in Nat =>
           /\ CapLimit(window.limit) \in Nat /\ CapLimit(window.limit) <= window.limit
           /\ CapLimit(window.limit) \in {window.limit, conf.maxRows}
  BY <1>7 DEF CapLimit
<1>9. window'.offset = window.offset /\ window'.limit = CapLimit(window.limit)
  BY <1>1 DEF WindowOK
<1>10. WindowOK'
  BY <1>1, <1>8 DEF WindowOK
<1>11. WindowKept'
  <2>1. ASSUME AsksClosed'
        PROVE  /\ req.range.lo <= req.range.hi /\ window'.offset = req.range.lo
               /\ window'.limit \in Nat
               /\ \/ window'.limit = req.range.hi - req.range.lo + 1
                  \/ /\ window'.limit = conf.maxRows
                     /\ window'.limit <= req.range.hi - req.range.lo + 1
    <3>1. AsksClosed
      BY <1>1, <2>1 DEF AsksClosed, IsGet
    <3>2. /\ req.range.lo <= req.range.hi /\ window.offset = req.range.lo
          /\ window.limit = req.range.hi - req.range.lo + 1
      BY <1>1, <3>1 DEF WindowKept
    <3>3. req.range.lo \in Nat /\ req.range.hi \in Nat
      BY DEF TypeOK, RequestOK, RangeHeader
    <3>4. window.limit \in Nat
      BY <3>2, <3>3
    <3> QED
      BY <1>8, <1>9, <3>2, <3>4
  <2>2. conf.maxRows # 0 => window'.limit \in Nat /\ window'.limit <= conf.maxRows
    BY <1>8, <1>9
  <2> QED
    BY <1>1, <1>3, <2>1, <2>2 DEF WindowKept
<1>12. pc \in Handling /\ pc' \in Handling
  BY <1>1, <1>3 DEF Handling
<1>13. gates' \subseteq {"auth", "schema", "plan", "authorize"}
  BY <1>3 DEF TypeOK
<1> QED
  BY <1>1, <1>2, <1>3, <1>4, <1>5, <1>6, <1>10, <1>11, <1>12, <1>13, HandlerStep

\* plan.Read, plan.Write and plan.Call.
LEMMA PlanningKeeps ==
    ASSUME TypeOK, pc # "done", Underway, Planning
    PROVE  IInv'
<1>1. /\ pc = "plan" /\ Placed
      /\ UNCHANGED <<conf, media, req, id, prefs, window, ran, result>>
  BY DEF Underway, Planning
<1>2. DOMAIN prefs'.val = PreferKeys /\ prefs'.applied \subseteq prefs'.seen
  BY <1>1 DEF TypeOK
<1>3. ASSUME NEW s \in {400, 404, 405},
             NEW c \in {"PGRST202", "PGRST205", "PGRST108", "PGRST101"}, WriteError(s, c)
      PROVE  IInv'
  <2>1. c \in Refusals /\ c # "PGRST107"
    BY DEF Refusals
  <2>2. s \in 100 .. 599
    OBVIOUS
  <2> QED
    BY <1>1, <1>2, <1>3, <2>1, <2>2, RefusalSafe, ZenonT(20)
<1>4. CASE Pass("plan", After(pc)) /\ UNCHANGED resp
  <2>1. pc' = (IF IsRpc THEN "explain" ELSE "authorize") /\ gates' = gates \cup {"plan"}
    BY <1>1, <1>4, AfterStage DEF Pass
  <2>2. Placed' /\ req.path # "/"
    BY <1>1, <2>1 DEF Placed, Handling, IsRpc, IsGet
  <2>3. MediaChosen'
    BY <1>1, <2>1 DEF Underway, MediaChosen
  <2>4. PrefsSettled'
    BY <1>1, <2>1, <2>2 DEF Underway, PrefsSettled, Unparsed, Settled, StrictError
  <2>5. WindowOK' /\ WindowKept'
    BY <1>1, <2>1 DEF Underway, WindowOK, WindowKept, IsGet, IsRpc, AsksClosed
  <2>6. pc \in Handling /\ pc' \in Handling
    BY <1>1, <2>1 DEF Handling
  <2>7. gates' \subseteq {"auth", "schema", "plan", "authorize"}
    BY <2>1 DEF TypeOK
  <2> QED
    BY <1>1, <1>2, <1>4, <2>2, <2>3, <2>4, <2>5, <2>6, <2>7, HandlerStep
<1>5. \/ WriteError(404, "PGRST202") \/ WriteError(404, "PGRST205")
      \/ WriteError(400, "PGRST108") \/ WriteError(405, "PGRST101")
      \/ Pass("plan", After(pc)) /\ UNCHANGED resp
  <2>1. CASE IsRpc
    BY <2>1 DEF Planning
  <2>2. CASE ~IsRpc
    BY <2>2 DEF Planning
  <2> QED
    BY <2>1, <2>2
<1> QED
  BY <1>3, <1>4, <1>5

\* authorize.
LEMMA AuthorizeKeeps ==
    ASSUME TypeOK, pc # "done", Underway, Authorize
    PROVE  IInv'
<1>1. /\ pc = "authorize" /\ Placed
      /\ UNCHANGED <<conf, media, req, id, prefs, window, ran, result>>
      /\ ran = [what |-> "no", rollback |-> FALSE]
  BY DEF Underway, Authorize
<1>2. DOMAIN prefs'.val = PreferKeys /\ prefs'.applied \subseteq prefs'.seen
  BY <1>1 DEF TypeOK
<1>3. CASE WriteError(403, "42501 RLS")
  <2>1. "42501 RLS" \in Refusals
    BY DEF Refusals
  <2>2. 403 \in 100 .. 599
    OBVIOUS
  <2> QED
    BY <1>1, <1>2, <1>3, <2>1, <2>2, RefusalSafe, ZenonT(40)
<1>4. CASE MapExecError("42501")
  <2>1. ExecutionEarned' /\ TxPolicyKept'
    BY <1>1, UnrunEarned
  <2> QED
    BY <1>1, <1>4, <2>1, PrivilegeSafe
<1>5. CASE Pass("authorize", After(pc)) /\ UNCHANGED resp
  <2>1. pc' = "explain" /\ gates' = gates \cup {"authorize"}
    BY <1>1, <1>5, AfterStage DEF Pass
  <2>2. Placed' /\ req.path # "/"
    BY <1>1, <2>1 DEF Placed, Handling
  <2>3. MediaChosen'
    BY <1>1, <2>1 DEF Underway, MediaChosen
  <2>4. PrefsSettled'
    BY <1>1, <2>1, <2>2 DEF Underway, PrefsSettled, Unparsed, Settled, StrictError
  <2>5. WindowOK' /\ WindowKept'
    BY <1>1, <2>1 DEF Underway, WindowOK, WindowKept, IsGet, IsRpc, AsksClosed
  <2>6. pc \in Handling /\ pc' \in Handling
    BY <1>1, <2>1 DEF Handling
  <2>7. gates' \subseteq {"auth", "schema", "plan", "authorize"}
    BY <2>1 DEF TypeOK
  <2> QED
    BY <1>1, <1>2, <1>5, <2>2, <2>3, <2>4, <2>5, <2>6, <2>7, HandlerStep
<1> QED
  BY <1>3, <1>4, <1>5 DEF Authorize

\* servePlan.
LEMMA ServePlanKeeps ==
    ASSUME TypeOK, pc # "done", Underway, ServePlan
    PROVE  IInv'
<1>1. /\ pc = "explain" /\ Placed /\ Silent /\ Safe
      /\ UNCHANGED <<conf, media, req, id, prefs, window, result>>
      /\ ran = [what |-> "no", rollback |-> FALSE]
  BY UnderwaySafe DEF Underway, ServePlan, IInv
<1>2. DOMAIN prefs'.val = PreferKeys /\ prefs'.applied \subseteq prefs'.seen
  BY <1>1 DEF TypeOK
<1>3. CASE media = PlanMedia /\ WriteError(406, "PGRST107") /\ UNCHANGED ran
  <2>1. "PGRST107" \in Refusals /\ media # Unacceptable
    BY <1>3, MediaDiffer DEF Refusals
  <2>2. 406 \in 100 .. 599
    OBVIOUS
  <2> QED
    BY <1>1, <1>2, <1>3, <2>1, <2>2, RefusalSafe
<1>4. CASE media # PlanMedia /\ Onward /\ UNCHANGED ran
  <2>1. pc' = "execute" /\ UNCHANGED <<gates, resp>>
    BY <1>1, <1>4, AfterStage DEF Onward
  <2>2. Placed' /\ req.path # "/"
    BY <1>1, <2>1 DEF Placed, Handling
  <2>3. MediaChosen'
    BY <1>1, <1>4, <2>1 DEF Underway, MediaChosen
  <2>4. PrefsSettled'
    BY <1>1, <2>1, <2>2 DEF Underway, PrefsSettled, Unparsed, Settled, StrictError
  <2>5. WindowOK' /\ WindowKept'
    BY <1>1, <2>1 DEF Underway, WindowOK, WindowKept, IsGet, IsRpc, AsksClosed
  <2>6. pc \in Handling /\ pc' \in Handling \cup {"execute"}
    BY <1>1, <2>1 DEF Handling
  <2>7. gates' \subseteq {"auth", "schema", "plan", "authorize"}
    BY <2>1 DEF TypeOK
  <2> QED
    BY <1>1, <1>2, <1>4, <2>1, <2>2, <2>3, <2>4, <2>5, <2>6, <2>7, HandlerStep
<1>5. ASSUME ran' = [ran EXCEPT !.what = "explain"], gates' = gates
      PROVE  ExecutionEarned' /\ TxPolicyKept' /\ ran'.what # "run"
  <2>1. ran'.what = "explain"
    BY <1>1, <1>5
  <2>2. Earned
    BY <1>1, DoorEarned
  <2>3. ExecutionEarned'
    BY <1>1, <1>5, <2>1, <2>2 DEF Earned, ExecutionEarned
  <2>4. TxPolicyKept'
    BY <2>1 DEF TxPolicyKept
  <2> QED
    BY <2>1, <2>3, <2>4
<1>6. CASE ran' = [ran EXCEPT !.what = "explain"] /\ MapExecError("42501")
  <2>1. gates' = gates
    BY <1>6 DEF MapExecError, WriteError
  <2> QED
    BY <1>1, <1>5, <1>6, <2>1, PrivilegeSafe
<1>7. CASE /\ ran' = [ran EXCEPT !.what = "explain"] /\ pc' = "done" /\ UNCHANGED gates
           /\ resp' = [resp EXCEPT !.status = 200, !.body = 1]
  <2>1. resp'.status = 200
    BY <1>1, <1>7, SilentFields
  <2>2. resp'.code = "" /\ resp'.range = <<>>
    BY <1>1, <1>7, SilentFields
  <2>3. resp'.status \in 100 .. 599
    BY <2>1
  <2>4. NegotiatedBest'
    BY <1>1, <2>2 DEF Safe, NegotiatedBest
  <2>5. ExecutionEarned' /\ TxPolicyKept' /\ ran'.what # "run"
    BY <1>5, <1>7
  <2>6. pc' = "done" /\ gates' = gates
    BY <1>7
  <2> QED
    BY <1>1, <1>2, <2>2, <2>3, <2>4, <2>5, <2>6, StoppedSafe
<1> QED
  BY <1>3, <1>4, <1>6, <1>7 DEF ServePlan

\* What a backend answers with.
LEMMA AnswersMean ==
    ASSUME WindowOK, NEW shape, NEW n \in 0 .. MaxTotal, NEW r \in Answers(shape, n)
    PROVE  /\ r.rows \in 0 .. MaxTotal /\ r.total \in Nat \cup {None}
           /\ r.status \in {0, 202, 1000} /\ r.shape = shape
           /\ (IsGet \/ IsRpc) /\ shape \in {"table", "setof"} =>
                r.rows = Shown(n) /\ (prefs.val["count"] = "exact" => r.total = n)
<1> DEFINE paged == IsGet \/ IsRpc
           counted == prefs.val["count"]
           totals == CASE counted = Absent -> {None}
                       [] counted = "exact" -> {n}
                       [] OTHER -> 0..MaxTotal
           T == IF paged /\ shape # "void" THEN totals ELSE {None}
           rows == IF shape \in {"table", "setof"} /\ paged THEN Shown(n) ELSE n
           B == IF paged \/ Return = "representation" THEN BOOLEAN ELSE {FALSE}
<1>1. PICK t \in T, s \in {0, 202, 1000},
           i \in (IF ~IsRpc /\ IsUpsert THEN {None} \cup 0..n ELSE {None}), c \in 1..2, f \in B :
        r = [rows |-> rows, total |-> t, status |-> s, inserted |-> i, shape |-> shape, cols |-> c,
             fails |-> f]
  <2> DEFINE I == IF ~IsRpc /\ IsUpsert THEN {None} \cup 0..n ELSE {None}
  <2>1. Answers(shape, n) =
          {[rows |-> rows, total |-> t, status |-> s, inserted |-> i, shape |-> shape, cols |-> c,
            fails |-> f]
             : t \in T, s \in {0, 202, 1000}, i \in I, c \in 1..2, f \in B}
    BY DEF Answers
  <2> HIDE DEF rows, T, I, B
  <2>2. \E t \in T, s \in {0, 202, 1000}, i \in I, c \in 1..2, f \in B :
          r = [rows |-> rows, total |-> t, status |-> s, inserted |-> i, shape |-> shape, cols |-> c,
               fails |-> f]
    BY <2>1
  <2> QED
    BY <2>2 DEF I
<1>2. MaxTotal \in Nat /\ None \notin Nat /\ n \in Nat /\ n <= MaxTotal
  BY FrontAssumption
<1>3. t \in Nat \cup {None}
  <2>1. CASE counted = Absent
    BY <1>1, <2>1 DEF Absent
  <2>2. CASE counted # Absent /\ counted = "exact"
    BY <1>1, <1>2, <2>2
  <2>3. CASE counted # Absent /\ counted # "exact"
    BY <1>1, <1>2, <2>3
  <2> QED
    BY <2>1, <2>2, <2>3
<1>4. paged /\ shape # "void" /\ counted = "exact" => t = n
  BY <1>1 DEF Absent
<1>5. rows \in 0 .. MaxTotal
  <2>1. Shown(n) \in Nat /\ Shown(n) <= n
    BY <1>2, ShownBounds
  <2> QED
    BY <1>2, <2>1
<1> HIDE DEF rows
<1>6. /\ r.rows = rows /\ r.total = t /\ r.status = s /\ r.shape = shape
  BY <1>1
<1>7. paged /\ shape \in {"table", "setof"} => rows = Shown(n) /\ shape # "void"
  BY DEF rows
<1> QED
  BY <1>1, <1>3, <1>4, <1>5, <1>6, <1>7

\* The run of a request that reached the backend is earned, and ends as the policy says.
LEMMA RunEarned ==
    ASSUME TypeOK, Underway, pc = "execute", gates' = gates,
           UNCHANGED <<conf, media, req, id, prefs>>,
           ran' = [what |-> "run", rollback |-> ~IsGet /\ prefs.val["tx"] = "rollback"]
    PROVE  ExecutionEarned' /\ TxPolicyKept'
<1>1. Earned /\ media # PlanMedia /\ Placed
  BY DoorEarned DEF Underway, MediaChosen
<1>2. ran'.what = "run" /\ ran'.rollback = (~IsGet /\ prefs.val["tx"] = "rollback")
  OBVIOUS
<1>3. ExecutionEarned'
  BY <1>1 DEF Earned, ExecutionEarned
<1>4. ASSUME ~IsGet PROVE ran'.rollback = RollsBack(req.prefer, conf.txEnd)
  <2>1. req.path # "/" /\ pc \in Settled
    BY <1>1, <1>4 DEF Placed, Settled
  <2>2. prefs = Resolved(req.prefer, conf.txEnd)
    BY <2>1 DEF Underway, PrefsSettled
  <2>3. req.prefer \in Seq(Token) /\ conf.txEnd \in TxEnds
    BY DEF TypeOK, RequestOK, Conf
  <2>4. prefs.val["tx"] = "rollback" <=> RollsBack(req.prefer, conf.txEnd)
    BY <2>2, <2>3, ResolvedMeans
  <2>5. RollsBack(req.prefer, conf.txEnd) \in BOOLEAN
    BY <2>3 DEF RollsBack, TxEnds
  <2> QED
    BY <1>2, <1>4, <2>4, <2>5
<1>5. TxPolicyKept'
  BY <1>4 DEF TxPolicyKept, IsGet
<1> QED
  BY <1>3, <1>5

\* A backend's error keeps every property.
LEMMA FailureSafe ==
    ASSUME TypeOK, pc # "done", Underway, NEW s \in 100 .. 599, NEW c \in Refusals,
           c # "PGRST107", WriteError(s, c),
           UNCHANGED <<conf, media, req, id, prefs, result, window>>,
           ExecutionEarned', TxPolicyKept'
    PROVE  IInv'
<1>1. Silent /\ Safe
  BY UnderwaySafe DEF Underway, IInv
<1>2. /\ pc' = "done" /\ gates' = gates /\ resp'.status = s /\ resp'.code = c /\ resp'.range = <<>>
      /\ "Content-Profile" \notin resp'.headers
  BY <1>1, SilentFields DEF WriteError
<1>3. NegotiatedBest'
  BY <1>1, <1>2 DEF Safe, NegotiatedBest
<1>4. DOMAIN prefs'.val = PreferKeys /\ prefs'.applied \subseteq prefs'.seen
  BY DEF TypeOK
<1> QED
  BY <1>1, <1>2, <1>3, <1>4, StoppedSafe

\* The backend runs the request.
LEMMA ExecuteKeeps ==
    ASSUME TypeOK, pc # "done", Underway, Execute
    PROVE  IInv'
<1>1. /\ pc = "execute" /\ Placed /\ Silent /\ WindowOK
      /\ UNCHANGED <<conf, media, req, id, prefs, window>>
      /\ ran' = [what |-> "run", rollback |-> ~IsGet /\ prefs.val["tx"] = "rollback"]
  BY DEF Underway, Execute
<1>2. ASSUME gates' = gates PROVE ExecutionEarned' /\ TxPolicyKept'
  BY <1>1, <1>2, RunEarned
<1>3. ASSUME NEW s \in {406, 409, 500}, NEW c \in {"23505", "PGRST116", "PGRST112"},
             WriteError(s, c), UNCHANGED result
      PROVE  IInv'
  <2>1. c \in Refusals /\ c # "PGRST107"
    BY DEF Refusals
  <2>2. s \in 100 .. 599
    OBVIOUS
  <2>3. gates' = gates
    BY <1>3 DEF WriteError
  <2> QED
    BY <1>1, <1>2, <1>3, <2>1, <2>2, <2>3, FailureSafe
<1>4. CASE \E code \in {"42501", "23505", "PGRST116"} : MapExecError(code) /\ UNCHANGED result
  <2>1. CASE MapExecError("42501") /\ UNCHANGED result
    <3>1. gates' = gates
      BY <2>1 DEF MapExecError, WriteError
    <3> QED
      BY <1>1, <1>2, <2>1, <3>1, PrivilegeSafe
  <2>2. CASE MapExecError("23505") /\ UNCHANGED result
    <3>1. WriteError(409, "23505")
      BY <2>2 DEF MapExecError
    <3> QED
      BY <1>3, <2>2, <3>1
  <2>3. CASE MapExecError("PGRST116") /\ UNCHANGED result
    <3>1. WriteError(406, "PGRST116")
      BY <2>3 DEF MapExecError
    <3> QED
      BY <1>3, <2>3, <3>1
  <2> QED
    BY <1>4, <2>1, <2>2, <2>3
<1>5. ASSUME NEW shape \in (IF IsRpc THEN {"table", "setof", "scalar", "object", "void"}
                            ELSE IF req.path = "/" THEN {"scalar"} ELSE {"table"}),
             NEW n \in 0..MaxTotal,
             NEW r \in Answers(shape, n),
             r.status # 0 => req.path # "/" /\ (conf.native \/ (IsRpc /\ n > 0)),
             IF LiftResponseControls(r.status).ok THEN result' = r /\ Onward
             ELSE WriteError(500, "PGRST112") /\ UNCHANGED result
      PROVE  IInv'
  <2>1. n \in 0 .. MaxTotal
    OBVIOUS
  <2>2. /\ r.rows \in 0 .. MaxTotal /\ r.total \in Nat \cup {None}
        /\ r.status \in {0, 202, 1000} /\ r.shape = shape
        /\ (IsGet \/ IsRpc) /\ shape \in {"table", "setof"} =>
             r.rows = Shown(n) /\ (prefs.val["count"] = "exact" => r.total = n)
    BY <1>1, <2>1, AnswersMean
  <2>3. CASE WriteError(500, "PGRST112") /\ UNCHANGED result
    BY <1>3, <2>3
  <2>4. CASE LiftResponseControls(r.status).ok /\ result' = r /\ Onward
    <3>1. pc' = "render" /\ UNCHANGED <<gates, resp>>
      BY <1>1, <2>4, AfterStage DEF Onward
    <3>2. TypeOK'
      BY <1>1, <2>2, <2>4, <3>1, ZenonT(40) DEF TypeOK, RequestOK
    <3>3. Silent'
      BY <1>1, <3>1, SilentKept
    <3>4. Placed'
      BY <1>1, <3>1 DEF Placed, Handling, IsGet, IsRpc
    <3>5. MediaChosen'
      BY <1>1, <3>1 DEF Underway, MediaChosen
    <3>6. PrefsSettled'
      BY <1>1, <3>1 DEF Underway, PrefsSettled, Unparsed, Settled, StrictError
    <3>7. WindowOK' /\ WindowKept'
      BY <1>1, <3>1 DEF Underway, WindowOK, WindowKept, IsGet, IsRpc, AsksClosed
    <3>8. Answered'
      <4>1. r.status \in IF conf.native THEN {0, 202, 1000} ELSE {0, 202}
        <5>1. CASE r.status = 1000 /\ ~conf.native
          BY <2>4, <5>1 DEF LiftResponseControls, Sendable
        <5> QED
          BY <2>2, <5>1
      <4>2. ~IsRpc => shape \in {"table", "scalar"}
        OBVIOUS
      <4>3. Shown(n)' = Shown(n)
        BY <1>1 DEF Shown
      <4>4. IsGet' = IsGet /\ IsRpc' = IsRpc
        BY <1>1 DEF IsGet, IsRpc
      <4>5. (IsGet \/ IsRpc) /\ shape \in {"table", "setof"} =>
               \E m \in 0 .. MaxTotal :
                  r.rows = Shown(m)' /\ (prefs.val["count"] = "exact" => r.total = m)
        BY <2>1, <2>2, <4>3
      <4>6. /\ result'.rows = r.rows /\ result'.total = r.total /\ result'.status = r.status
            /\ result'.shape = shape
        BY <2>2, <2>4
      <4> QED
        BY <1>1, <2>2, <4>1, <4>2, <4>4, <4>5, <4>6 DEF Answered
    <3>9. Underway'
      BY <1>1, <3>1, <3>3, <3>4, <3>5, <3>6, <3>7, <3>8 DEF Underway, IsGet
    <3> QED
      BY <3>1, <3>2, <3>9, UnderwayKept
  <2> QED
    BY <1>5, <2>3, <2>4
<1>6. \/ \E code \in {"42501", "23505", "PGRST116"} : MapExecError(code) /\ UNCHANGED result
      \/ \E shape \in IF IsRpc THEN {"table", "setof", "scalar", "object", "void"}
                      ELSE IF req.path = "/" THEN {"scalar"} ELSE {"table"} :
         \E n \in 0..MaxTotal : \E r \in Answers(shape, n) :
            /\ r.status # 0 => req.path # "/" /\ (conf.native \/ (IsRpc /\ n > 0))
            /\ IF LiftResponseControls(r.status).ok THEN result' = r /\ Onward
               ELSE WriteError(500, "PGRST112") /\ UNCHANGED result
  BY DEF Execute
<1> QED
  BY <1>4, <1>5, <1>6

-----------------------------------------------------------------------------
(* The response.                                                           *)

\* A response with its status line, and one that WriteHeader panicked on.
Sent(r, s) == [r EXCEPT !.status = s]
Panicked(r) == [r EXCEPT !.status = 0, !.code = "panic"]
SentStatuses == {200, 201, 202, 204, 206}

\* The status line: what the backend set, or the default; a status that cannot be sent
\* comes from a native function only.
LEMMA StatusSent ==
    ASSUME Answered, NEW d \in SentStatuses, NEW r
    PROVE  \/ result.status = 0 /\ SendStatus(ApplyControls(d), r) = Sent(r, d)
           \/ result.status # 0 /\ SendStatus(ApplyControls(d), r) = Sent(r, 202)
           \/ conf.native /\ result.status # 0 /\ SendStatus(ApplyControls(d), r) = Panicked(r)
<1>1. result.status \in {0, 202, 1000} /\ (result.status = 1000 => conf.native)
  BY DEF Answered
<1>2. CASE result.status = 0
  <2>1. ApplyControls(d) = d
    BY <1>2 DEF ApplyControls
  <2>2. SendStatus(d, r) = Sent(r, d)
    BY DEF SendStatus, Sent, SentStatuses
  <2> QED
    BY <1>2, <2>1, <2>2
<1>3. CASE result.status = 202
  <2>1. ApplyControls(d) = 202
    BY <1>3 DEF ApplyControls
  <2>2. SendStatus(202, r) = Sent(r, 202)
    BY DEF SendStatus, Sent
  <2> QED
    BY <1>3, <2>1, <2>2
<1>4. CASE result.status = 1000
  <2>1. ApplyControls(d) = 1000
    BY <1>4 DEF ApplyControls
  <2>2. SendStatus(1000, r) = Panicked(r)
    BY DEF SendStatus, Panicked
  <2> QED
    BY <1>1, <1>4, <2>1, <2>2
<1> QED
  BY <1>1, <1>2, <1>3, <1>4

\* Preference-Applied is what EchoHonest says, once the preferences are settled.
LEMMA EchoExact ==
    ASSUME TypeOK, Underway, pc = "render", req.path # "/"
    PROVE  Range(AppliedHeader(prefs)) =
             {k \in PreferKeys :
                /\ FirstValue(req.prefer, k) # Absent
                /\ k = "tx" => conf.txEnd \in {"commit-allow-override", "rollback-allow-override"}
                /\ k = "max-affected" => FirstValue(req.prefer, "handling") = "strict"}
<1>1. req.prefer \in Seq(Token) /\ conf.txEnd \in TxEnds
  BY DEF TypeOK, RequestOK, Conf
<1>2. prefs = Resolved(req.prefer, conf.txEnd)
  BY DEF Underway, PrefsSettled, Settled
<1>3. /\ prefs \in PrefState
      /\ prefs.applied = {k \in PreferKeys :
                            /\ FirstValue(req.prefer, k) # Absent
                            /\ k = "tx" => conf.txEnd \in Override
                            /\ k = "max-affected" => FirstValue(req.prefer, "handling") = "strict"}
  BY <1>1, <1>2, ResolvedMeans
<1>4. prefs.applied \in SUBSET PreferKeys
  BY <1>3 DEF PrefState
<1>5. Range(AppliedHeader(prefs)) = prefs.applied
  BY <1>4, AppliedHeaderEchoes
<1> QED
  BY <1>3, <1>5 DEF Override

\* An answer that renders a result keeps every property if its header, body and range
\* describe that result.
LEMMA RenderedSafe ==
    ASSUME TypeOK, Underway, pc = "render", pc' = "done",
           UNCHANGED <<conf, media, req, id, prefs, window, gates, ran, result>>,
           resp'.status \in 100 .. 599 \/ resp'.code = "panic",
           resp'.code \in {"", "panic", "PGRST100", "PGRST116", "XX000", "PGRST103"},
           resp'.code = "panic" => conf.native,
           resp'.code = "" /\ req.path # "/" => resp'.applied = AppliedHeader(prefs),
           resp'.code = "" => (Rendered => ~result.fails)
                              /\ resp'.body \in {None, BodyRows(RenderRows(result))},
           NoSchemaOnError', PagedHonestly'
    PROVE  IInv'
<1>1. Safe
  BY UnderwaySafe DEF IInv
<1>2. ExecutionEarned' /\ TxPolicyKept'
  BY <1>1, EarnedKept DEF Safe, GatesKept
<1>3. TypeOK'
  <2>1. (pc = "done" => resp.status \in 100..599 \/ resp.code = "panic")'
    OBVIOUS
  <2>2. /\ (conf \in Conf)' /\ RequestOK(req)'
        /\ (id \in {"none", "anon", "user"})'
        /\ (gates \subseteq {"auth", "schema", "plan", "authorize"})'
        /\ (DOMAIN prefs.val = PreferKeys)' /\ (prefs.applied \subseteq prefs.seen)'
        /\ (window.offset \in Nat)' /\ (window.limit \in Nat \cup {None})'
        /\ (result.rows \in 0..MaxTotal)'
    BY DEF TypeOK, RequestOK
  <2>3. (pc \in {"cors", "options", "auth", "schema", "route", "root", "negotiate", "body",
               "parse", "tx", "range", "cap", "plan", "authorize", "explain",
               "execute", "render", "done"})'
    OBVIOUS
  <2> QED
    BY <2>1, <2>2, <2>3, Zenon DEF TypeOK
<1>4. EchoHonest'
  <2> SUFFICES ASSUME resp'.code = "", req.path # "/"
               PROVE  Range(resp'.applied) =
                        {k \in PreferKeys :
                           /\ FirstValue(req.prefer, k) # Absent
                           /\ k = "tx" => conf.txEnd \in {"commit-allow-override", "rollback-allow-override"}
                           /\ k = "max-affected" => FirstValue(req.prefer, "handling") = "strict"}
    BY DEF EchoHonest
  <2> QED
    BY EchoExact
<1>5. RowCap'
  <2>1. RowCap
    BY <1>1 DEF Safe, AnswerDescribesResult
  <2> QED
    BY <2>1 DEF RowCap, IsGet, IsRpc
<1>6. PrivilegeGraded' /\ StatusSendable'
  BY DEF PrivilegeGraded, StatusSendable
<1>7. CompleteBody'
  <2>1. /\ Rendered' = Rendered /\ OneValue' = OneValue /\ result' = result
        /\ RenderRows(result)' = RenderRows(result)
    BY DEF Rendered, OneValue, ScalarMedia, IsGet, IsRpc, Return, RenderRows
  <2>2. BodyRows(RenderRows(result)) = RenderRows(result)
        \/ (OneValue /\ RenderRows(result) > 1 /\ BodyRows(RenderRows(result)) = 1)
    BY DEF BodyRows
  <2> DEFINE n == RenderRows(result)
  <2>3. ASSUME resp'.code = ""
        PROVE  /\ Rendered => ~result.fails
               /\ resp'.body \in {None, n} \/ (OneValue /\ n > 1 /\ resp'.body = 1)
    BY <2>2, <2>3
  <2> HIDE DEF n
  <2>4. CompleteBody' <=> (pc' = "done" /\ ran'.what = "run" /\ resp'.code = "" =>
                             /\ Rendered => ~result.fails
                             /\ resp'.body \in {None, n} \/ (OneValue /\ n > 1 /\ resp'.body = 1))
    BY <2>1, Zenon DEF CompleteBody, n
  <2> QED
    BY <2>3, <2>4
<1>8. NegotiatedBest'
  BY <1>1 DEF Safe, NegotiatedBest
<1> QED
  BY <1>2, <1>3, <1>4, <1>5, <1>6, <1>7, <1>8
     DEF IInv, Safe, GatesKept, AnswerDescribesResult, FailuresReported

\* What the renderer makes of a result: an error, unless every row of it arrived.
LEMMA RenderMeans ==
    ASSUME NEW read, NEW failed
    PROVE  /\ RenderStatus(result, Drain(read, failed)) \in {200, 400, 406, 500}
           /\ RenderStatus(result, Drain(read, failed)) = 200 => ~failed
           /\ Drain(read, failed).rows = read
           /\ \A s \in {400, 406, 500} : RenderCode(s) \in {"PGRST100", "PGRST116", "XX000"}
<1> DEFINE d == Drain(read, failed)
<1>1. d.ok = ~failed /\ d.rows = read
  BY DEF Drain
<1> HIDE DEF d
<1>2. RenderStatus(result, d) \in {200, 400, 406, 500}
  BY DEF RenderStatus
<1>3. ASSUME failed PROVE RenderStatus(result, d) # 200
  <2>1. ~d.ok
    BY <1>1, <1>3
  <2>2. RenderStatus(result, d) \in {400, 500}
    BY <2>1 DEF RenderStatus
  <2> QED
    BY <2>2
<1>4. ASSUME NEW s \in {400, 406, 500}
      PROVE  RenderCode(s) \in {"PGRST100", "PGRST116", "XX000"}
  <2>1. /\ RenderCode(400) = "PGRST100" /\ RenderCode(406) = "PGRST116"
        /\ RenderCode(500) = "XX000"
    BY DEF RenderCode
  <2> QED
    BY <2>1
<1> QED
  BY <1>1, <1>2, <1>3, <1>4 DEF d

\* The default status of a write is one that can be sent.
LEMMA WriteStatusSendable == WriteStatus \in {200, 201, 204}
<1>1. CASE req.method = "POST"
  BY <1>1 DEF WriteStatus
<1>2. CASE req.method = "PUT"
  BY <1>2 DEF WriteStatus
<1>3. CASE req.method \notin {"POST", "PUT"}
  BY <1>3 DEF WriteStatus
<1> QED
  BY <1>1, <1>2, <1>3

\* writeStatus and the representation of a mutation.
LEMMA WriteWriteKeeps ==
    ASSUME TypeOK, pc # "done", Underway, WriteWrite
    PROVE  IInv'
<1>1. /\ pc = "render" /\ ~IsGet /\ ~IsRpc /\ pc' = "done" /\ Silent /\ Placed /\ Answered
      /\ UNCHANGED <<conf, media, req, id, prefs, window, gates, ran, result>>
  BY DEF Underway, WriteWrite
<1>2. PagedHonestly'
  <2>1. ~Paged'
    BY <1>1 DEF Paged, IsGet, IsRpc
  <2> QED
    BY <2>1 DEF PagedHonestly
<1>3. PICK pk \in BOOLEAN, read \in 0..result.rows :
         LET staged == [resp EXCEPT !.applied = AppliedHeader(prefs),
                          !.range = WriteContentRange,
                          !.headers = IF Located(pk) THEN @ \cup {"Location"} ELSE @]
             d == Drain(read, result.fails)
             status == RenderStatus(result, d)
         IN  /\ ~result.fails => read = result.rows
             /\ CASE Return # "representation" ->
                       resp' = SendStatus(ApplyControls(WriteStatus), staged)
                  [] Return = "representation" /\ status # 200 ->
                       resp' = [staged EXCEPT !.status = status, !.code = RenderCode(status),
                                              !.headers = @ \ {"Content-Profile"}]
                  [] OTHER -> resp' = SendStatus(ApplyControls(WriteStatus),
                                                 [staged EXCEPT !.body = BodyRows(d.rows)])
  BY DEF WriteWrite
<1> DEFINE staged == [resp EXCEPT !.applied = AppliedHeader(prefs),
                        !.range = WriteContentRange,
                        !.headers = IF Located(pk) THEN @ \cup {"Location"} ELSE @]
           d == Drain(read, result.fails)
           status == RenderStatus(result, d)
<1>4. /\ staged.applied = AppliedHeader(prefs) /\ staged.code = "" /\ staged.body = None
      /\ DOMAIN staged = {"status", "code", "headers", "applied", "range", "body"}
  BY <1>1, SilentFields
<1>5. /\ status \in {200, 400, 406, 500} /\ (status = 200 => ~result.fails) /\ d.rows = read
      /\ \A s \in {400, 406, 500} : RenderCode(s) \in {"PGRST100", "PGRST116", "XX000"}
  BY RenderMeans
<1>6. /\ ~result.fails => read = result.rows
      /\ \/ /\ Return # "representation"
            /\ resp' = SendStatus(ApplyControls(WriteStatus), staged)
         \/ /\ status # 200
            /\ resp' = [staged EXCEPT !.status = status, !.code = RenderCode(status),
                                      !.headers = @ \ {"Content-Profile"}]
         \/ /\ status = 200
            /\ resp' = SendStatus(ApplyControls(WriteStatus), [staged EXCEPT !.body = BodyRows(d.rows)])
  BY <1>3
<1> HIDE DEF staged, d, status
<1>7. RenderRows(result) = result.rows
  BY <1>1 DEF Answered, RenderRows
<1>8. ASSUME NEW r, r.applied = AppliedHeader(prefs), r.code = "",
             r.body \in {None, BodyRows(result.rows)}, Rendered => ~result.fails,
             DOMAIN r = {"status", "code", "headers", "applied", "range", "body"},
             resp' = SendStatus(ApplyControls(WriteStatus), r)
      PROVE  IInv'
  <2>1. PICK t \in SentStatuses : t = WriteStatus
    BY WriteStatusSendable DEF SentStatuses
  <2>2. DOMAIN r = {"status", "code", "headers", "applied", "range", "body"}
    BY <1>8
  <2>3. r.code = "" /\ r.applied = AppliedHeader(prefs) /\ r.body \in {None, BodyRows(result.rows)}
    BY <1>8
  <2>4. resp' = SendStatus(ApplyControls(t), r)
    BY <1>8, <2>1
  <2>5. ASSUME NEW s \in SentStatuses, resp' = Sent(r, s) PROVE IInv'
    <3>1. s \in 100 .. 599
      BY DEF SentStatuses
    <3>2. resp'.status = s
      BY <2>2, <2>5 DEF Sent
    <3>3. resp'.code = "" /\ resp'.applied = AppliedHeader(prefs) /\ resp'.body \in {None, BodyRows(result.rows)}
      BY <2>2, <2>3, <2>5 DEF Sent
    <3>4. NoSchemaOnError'
      BY <3>3 DEF NoSchemaOnError
    <3> QED
      BY <1>1, <1>2, <1>7, <1>8, <3>1, <3>2, <3>3, <3>4, RenderedSafe
  <2>6. CASE conf.native /\ resp' = Panicked(r)
    <3>1. resp'.code = "panic"
      BY <2>2, <2>6 DEF Panicked
    <3>2. NoSchemaOnError'
      BY <3>1 DEF NoSchemaOnError
    <3> QED
      BY <1>1, <1>2, <2>6, <3>1, <3>2, RenderedSafe
  <2>7. 202 \in SentStatuses
    BY DEF SentStatuses
  <2>8. resp' = Sent(r, t) \/ resp' = Sent(r, 202) \/ (conf.native /\ resp' = Panicked(r))
    BY <1>1, <2>4, StatusSent
  <2> QED
    BY <2>5, <2>6, <2>7, <2>8
<1>9. CASE /\ Return # "representation"
           /\ resp' = SendStatus(ApplyControls(WriteStatus), staged)
  <2>1. ~Rendered
    BY <1>1, <1>9 DEF Rendered
  <2> QED
    BY <1>4, <1>8, <1>9, <2>1
<1>10. CASE /\ status = 200
            /\ resp' = SendStatus(ApplyControls(WriteStatus), [staged EXCEPT !.body = BodyRows(d.rows)])
  <2> DEFINE r == [staged EXCEPT !.body = BodyRows(d.rows)]
  <2>1. d.rows = result.rows /\ ~result.fails
    BY <1>5, <1>6, <1>10
  <2>2. /\ r.applied = AppliedHeader(prefs) /\ r.code = "" /\ r.body \in {None, BodyRows(result.rows)}
        /\ DOMAIN r = {"status", "code", "headers", "applied", "range", "body"}
    BY <1>4, <2>1
  <2>3. resp' = SendStatus(ApplyControls(WriteStatus), r)
    BY <1>10
  <2> HIDE DEF r
  <2> QED
    BY <1>8, <2>1, <2>2, <2>3
<1>11. CASE /\ status # 200
            /\ resp' = [staged EXCEPT !.status = status, !.code = RenderCode(status),
                                      !.headers = @ \ {"Content-Profile"}]
  <2>1. status \in {400, 406, 500}
    BY <1>5, <1>11
  <2>2. resp'.status = status
    BY <1>4, <1>11
  <2>3. resp'.code = RenderCode(status) /\ "Content-Profile" \notin resp'.headers
    BY <1>4, <1>11
  <2>4. resp'.code \in {"PGRST100", "PGRST116", "XX000"}
    BY <1>5, <2>1, <2>3
  <2>5. NoSchemaOnError'
    BY <2>3 DEF NoSchemaOnError
  <2>6. status \in 100 .. 599
    BY <2>1
  <2>7. resp'.status \in 100 .. 599
    BY <2>2, <2>6
  <2> QED
    BY <1>1, <1>2, <2>4, <2>5, <2>7, RenderedSafe
<1> QED
  BY <1>6, <1>9, <1>10, <1>11

\* A window of a counted result: Content-Range lies inside the total and the Range asked
\* for, and stops short only of the last row, of the end of the Range or at db-max-rows.
LEMMA RangeTruthful ==
    ASSUME TypeOK, Underway, pc = "render", IsGet \/ IsRpc, req.path # "/",
           prefs.val["count"] = "exact", result.shape \in {"table", "setof"}
    PROVE  /\ result.total \in Nat /\ result.rows \in Nat /\ window.offset \in Nat
           /\ result.rows > 0 =>
                LET last == window.offset + result.rows - 1
                IN  /\ last < result.total /\ last - window.offset + 1 = result.rows
                    /\ IsGet /\ req.range.form = "closed" =>
                         /\ window.offset = req.range.lo /\ last <= req.range.hi
                         /\ \/ last = req.range.hi \/ last = result.total - 1
                            \/ result.rows = conf.maxRows
<1>1. PICK n \in 0 .. MaxTotal : result.rows = Shown(n) /\ result.total = n
  BY DEF Underway, Answered
<1>2. n \in Nat /\ None \notin Nat /\ WindowOK /\ window.offset \in Nat
  BY FrontAssumption DEF Underway, WindowOK
<1>3. /\ Shown(n) \in Nat /\ Shown(n) <= n
      /\ window.limit \in Nat => Shown(n) <= window.limit
      /\ Shown(n) > 0 => window.offset + Shown(n) <= n
      /\ \/ window.limit \in Nat /\ Shown(n) = window.limit
         \/ window.offset <= n /\ Shown(n) = n - window.offset
         \/ Shown(n) = 0
  BY <1>2, ShownBounds
<1> DEFINE last == window.offset + result.rows - 1
<1>4. ASSUME result.rows > 0
      PROVE  last < result.total /\ last - window.offset + 1 = result.rows
  BY <1>1, <1>2, <1>3, <1>4
<1>5. ASSUME result.rows > 0, IsGet, req.range.form = "closed"
      PROVE  /\ window.offset = req.range.lo /\ last <= req.range.hi
             /\ \/ last = req.range.hi \/ last = result.total - 1
                \/ result.rows = conf.maxRows
  <2>1. AsksClosed
    BY <1>5 DEF AsksClosed
  <2>2. /\ req.range.lo <= req.range.hi /\ window.offset = req.range.lo
        /\ window.limit \in Nat
        /\ \/ window.limit = req.range.hi - req.range.lo + 1
           \/ /\ window.limit = conf.maxRows
              /\ window.limit <= req.range.hi - req.range.lo + 1
    BY <2>1 DEF Underway, WindowKept
  <2>3. req.range.lo \in Nat /\ req.range.hi \in Nat
    BY DEF TypeOK, RequestOK, RangeHeader
  <2> QED
    BY <1>1, <1>2, <1>3, <1>5, <2>2, <2>3
<1> QED
  BY <1>1, <1>2, <1>3, <1>4, <1>5

\* writePaged: the range, the total and the status describe the window.
LEMMA PagedTruthful ==
    ASSUME TypeOK, Underway, pc = "render", IsGet \/ IsRpc, req.path # "/",
           UNCHANGED <<conf, media, req, id, prefs, window, gates, ran, result>>,
           resp'.range = ContentRange(window.offset, RenderRows(result), result.total),
           \/ /\ resp'.status = 416 /\ result.total # None /\ window.offset > result.total
           \/ /\ resp'.status # 416
              /\ ~(window.offset > 0 /\ result.total # None /\ window.offset > result.total)
              /\ result.status = 0 =>
                   (resp'.status = 206 <=> result.total # None /\ RenderRows(result) < result.total)
    PROVE  PagedHonestly'
<1>1. IsGet' = IsGet /\ IsRpc' = IsRpc
  BY DEF IsGet, IsRpc
<1> SUFFICES ASSUME prefs.val["count"] = "exact", result.shape \in {"table", "setof"}
             PROVE  LET n == result.total  w == resp'.range  asked == req.range
                    IN  /\ Len(w) = 3 =>
                             /\ w[2] < n /\ w[2] - w[1] + 1 = result.rows
                             /\ IsGet /\ asked.form = "closed" =>
                                  /\ w[1] = asked.lo /\ w[2] <= asked.hi
                                  /\ \/ w[2] \in {asked.hi, n - 1}
                                     \/ result.rows = conf.maxRows
                        /\ resp'.status = 416 <=> window.offset > n
                        /\ result.status = 0 /\ resp'.status # 416 =>
                             (resp'.status = 206 <=> result.rows < n)
  BY <1>1 DEF PagedHonestly
<1> DEFINE last == window.offset + result.rows - 1
<1>2. RenderRows(result) = result.rows
  BY DEF RenderRows
<1>3. /\ result.total \in Nat /\ result.rows \in Nat /\ window.offset \in Nat
      /\ result.rows > 0 =>
           /\ last < result.total /\ last - window.offset + 1 = result.rows
           /\ IsGet /\ req.range.form = "closed" =>
                /\ window.offset = req.range.lo /\ last <= req.range.hi
                /\ \/ last = req.range.hi \/ last = result.total - 1
                   \/ result.rows = conf.maxRows
  BY RangeTruthful
<1>4. result.total # None
  BY <1>3, FrontAssumption
<1>5. PICK w : w = resp'.range
  OBVIOUS
<1>6. w = IF result.rows = 0 THEN <<result.total>>
          ELSE <<window.offset, last, result.total>>
  BY <1>2, <1>5 DEF ContentRange
<1>7. ASSUME Len(w) = 3
      PROVE  result.rows > 0 /\ w[1] = window.offset /\ w[2] = last
  <2>1. result.rows # 0
    BY <1>6, <1>7
  <2>2. w = <<window.offset, last, result.total>>
    BY <1>6, <2>1
  <2> QED
    BY <1>3, <2>1, <2>2
<1>8. resp'.status = 416 <=> window.offset > result.total
  BY <1>3, <1>4
<1>9. result.status = 0 /\ resp'.status # 416 => (resp'.status = 206 <=> result.rows < result.total)
  BY <1>2, <1>4
<1> HIDE DEF last
<1> QED
  BY <1>3, <1>5, <1>7, <1>8, <1>9

\* writePaged keeps every property.
LEMMA WritePagedKeeps ==
    ASSUME TypeOK, Underway, pc = "render", pc' = "done", IsGet \/ IsRpc, req.path # "/",
           UNCHANGED <<conf, media, req, id, prefs, window, gates, ran, result>>,
           ~result.fails, WritePaged(RenderRows(result))
    PROVE  IInv'
<1> DEFINE n == RenderRows(result)
           body == IF req.method = "HEAD" THEN None ELSE BodyRows(n)
           range == ContentRange(window.offset, n, result.total)
           r == [resp EXCEPT !.applied = AppliedHeader(prefs), !.range = range, !.body = body]
           status == IF result.total # None /\ n < result.total THEN 206 ELSE 200
           past == window.offset > 0 /\ result.total # None /\ window.offset > result.total
<1>1. Silent /\ Answered /\ Placed
  BY DEF Underway
<1>2. IF past THEN resp' = [r EXCEPT !.status = 416, !.code = "PGRST103", !.body = None]
      ELSE resp' = SendStatus(ApplyControls(status), r)
  BY DEF WritePaged
<1>3. DOMAIN r = {"status", "code", "headers", "applied", "range", "body"}
  BY <1>1, SilentFields
<1>4. r.code = "" /\ r.applied = AppliedHeader(prefs) /\ r.range = range /\ r.body = body
  BY <1>1, SilentFields
<1>5. body \in {None, BodyRows(RenderRows(result))}
  OBVIOUS
<1> HIDE DEF r, body
<1>6. CASE past
  <2>1. resp' = [r EXCEPT !.status = 416, !.code = "PGRST103", !.body = None]
    BY <1>2, <1>6
  <2>2. resp'.status = 416
    BY <1>3, <2>1
  <2>3. resp'.code = "PGRST103" /\ resp'.range = range
    BY <1>3, <1>4, <2>1
  <2>4. PagedHonestly'
    BY <1>6, <2>2, <2>3, PagedTruthful
  <2>5. resp'.status \in 100 .. 599
    BY <2>2
  <2>6. Len(range) > 0
    BY DEF ContentRange
  <2>7. Paged'
    <3> HIDE DEF range
    <3>1. PICK w : w = resp'.range
      OBVIOUS
    <3>2. Len(w) > 0
      BY <2>3, <2>6, <3>1
    <3>3. ran'.what = "run"
      BY DEF Underway
    <3>4. (IsGet \/ IsRpc)' /\ req'.path # "/"
      BY DEF IsGet, IsRpc
    <3> QED
      BY <3>1, <3>2, <3>3, <3>4, Zenon DEF Paged
  <2>8. NoSchemaOnError'
    BY <2>2, <2>7 DEF NoSchemaOnError
  <2> QED
    BY <2>3, <2>4, <2>5, <2>8, RenderedSafe
<1>7. CASE ~past
  <2>1. status \in SentStatuses /\ 202 \in SentStatuses
    BY DEF SentStatuses
  <2>2. resp' = SendStatus(ApplyControls(status), r)
    BY <1>2, <1>7
  <2>3. \/ result.status = 0 /\ resp' = Sent(r, status)
        \/ result.status # 0 /\ resp' = Sent(r, 202)
        \/ conf.native /\ result.status # 0 /\ resp' = Panicked(r)
    <3>1. PICK d \in SentStatuses : d = status
      BY <2>1
    <3>2. resp' = SendStatus(ApplyControls(d), r)
      BY <2>2, <3>1
    <3> HIDE DEF status
    <3> QED
      BY <1>1, <3>1, <3>2, StatusSent
  <2>4. ASSUME NEW s \in SentStatuses, resp' = Sent(r, s),
               result.status = 0 => (s = 206 <=> result.total # None /\ n < result.total)
        PROVE  IInv'
    <3>1. s \in 100 .. 599 /\ s # 416
      BY DEF SentStatuses
    <3>2. resp'.status = s
      BY <1>3, <2>4 DEF Sent
    <3>3. /\ resp'.code = "" /\ resp'.applied = AppliedHeader(prefs) /\ resp'.range = range
          /\ resp'.body = body
      BY <1>3, <1>4, <2>4 DEF Sent
    <3>4. PagedHonestly'
      <4>1. resp'.range = range
        BY <3>3
      <4>2. resp'.status # 416
        BY <3>1, <3>2
      <4>3. result.status = 0 => (resp'.status = 206 <=> result.total # None /\ n < result.total)
        BY <2>4, <3>2
      <4> QED
        BY <1>7, <4>1, <4>2, <4>3, PagedTruthful
    <3>5. NoSchemaOnError'
      BY <3>3 DEF NoSchemaOnError
    <3> QED
      BY <1>5, <3>1, <3>2, <3>3, <3>4, <3>5, RenderedSafe
  <2>5. CASE conf.native /\ result.status # 0 /\ resp' = Panicked(r)
    <3>1. resp'.status = 0
      BY <1>3, <2>5 DEF Panicked
    <3>2. resp'.code = "panic" /\ resp'.range = range
      BY <1>3, <1>4, <2>5 DEF Panicked
    <3>3. PagedHonestly'
      BY <1>7, <2>5, <3>1, <3>2, PagedTruthful
    <3>4. NoSchemaOnError'
      BY <3>2 DEF NoSchemaOnError
    <3> QED
      BY <2>5, <3>2, <3>3, <3>4, RenderedSafe
  <2>6. status = 206 <=> result.total # None /\ n < result.total
    OBVIOUS
  <2> QED
    BY <2>1, <2>3, <2>4, <2>5, <2>6
<1> QED
  BY <1>6, <1>7

\* The answer to a read or a call.
LEMMA WriteReadKeeps ==
    ASSUME TypeOK, pc # "done", Underway, WriteRead
    PROVE  IInv'
<1>1. /\ pc = "render" /\ (IsGet \/ IsRpc) /\ Silent
      /\ UNCHANGED <<conf, media, req, id, prefs, window, ran, result>>
  BY DEF Underway, WriteRead
<1>2. PICK read \in 0..RenderRows(result) :
         LET d == Drain(read, result.fails)
             status == RenderStatus(result, d)
         IN  /\ ~result.fails => read = RenderRows(result)
             /\ \/ status # 200 /\ WriteError(status, RenderCode(status))
                \/ /\ status = 200 /\ pc' = "done" /\ UNCHANGED gates
                   /\ IF req.path # "/" THEN WritePaged(d.rows)
                      ELSE resp' = [resp EXCEPT !.status = 200,
                                      !.body = IF req.method = "HEAD" THEN None ELSE BodyRows(d.rows)]
  BY DEF WriteRead
<1> DEFINE d == Drain(read, result.fails)
           status == RenderStatus(result, d)
<1>3. /\ status \in {200, 400, 406, 500} /\ (status = 200 => ~result.fails) /\ d.rows = read
      /\ \A s \in {400, 406, 500} : RenderCode(s) \in {"PGRST100", "PGRST116", "XX000"}
  BY RenderMeans
<1>4. /\ ~result.fails => read = RenderRows(result)
      /\ \/ status # 200 /\ WriteError(status, RenderCode(status))
         \/ /\ status = 200 /\ pc' = "done" /\ UNCHANGED gates
            /\ IF req.path # "/" THEN WritePaged(d.rows)
               ELSE resp' = [resp EXCEPT !.status = 200,
                               !.body = IF req.method = "HEAD" THEN None ELSE BodyRows(d.rows)]
  BY <1>2
<1> HIDE DEF d, status
<1>5. CASE status # 200 /\ WriteError(status, RenderCode(status))
  <2>1. status \in {400, 406, 500}
    BY <1>3, <1>5
  <2>2. RenderCode(status) \in {"PGRST100", "PGRST116", "XX000"}
    BY <1>3, <2>1
  <2>3. PICK s, c : s = status /\ c = RenderCode(status)
    OBVIOUS
  <2>4. s \in 100 .. 599
    BY <2>1, <2>3
  <2>5. c \in Refusals /\ c # "PGRST107"
    BY <2>2, <2>3 DEF Refusals
  <2>6. WriteError(s, c)
    BY <1>5, <2>3
  <2>7. DOMAIN prefs'.val = PreferKeys /\ prefs'.applied \subseteq prefs'.seen
    BY <1>1 DEF TypeOK
  <2> QED
    BY <1>1, <2>4, <2>5, <2>6, <2>7, RefusalSafe
<1>6. CASE /\ status = 200 /\ pc' = "done" /\ UNCHANGED gates
           /\ req.path # "/" /\ WritePaged(d.rows)
  <2>1. d.rows = RenderRows(result) /\ ~result.fails
    BY <1>3, <1>4, <1>6
  <2> QED
    BY <1>1, <1>6, <2>1, WritePagedKeeps
<1>7. CASE /\ status = 200 /\ pc' = "done" /\ UNCHANGED gates /\ req.path = "/"
           /\ resp' = [resp EXCEPT !.status = 200,
                         !.body = IF req.method = "HEAD" THEN None ELSE BodyRows(d.rows)]
  <2>1. d.rows = RenderRows(result) /\ ~result.fails
    BY <1>3, <1>4, <1>7
  <2>2. resp'.status = 200
    BY <1>1, <1>7, SilentFields
  <2>3. resp'.code = "" /\ resp'.body \in {None, BodyRows(RenderRows(result))}
    BY <1>1, <1>7, <2>1, SilentFields
  <2>4. resp'.status \in 100 .. 599
    BY <2>2
  <2>5. NoSchemaOnError'
    BY <2>3 DEF NoSchemaOnError
  <2>6. ~Paged'
    BY <1>1, <1>7 DEF Paged
  <2>7. PagedHonestly'
    BY <2>6 DEF PagedHonestly
  <2> QED
    BY <1>1, <1>7, <2>1, <2>3, <2>4, <2>5, <2>7, RenderedSafe
<1> QED
  BY <1>4, <1>5, <1>6, <1>7

-----------------------------------------------------------------------------
(* The theorems.                                                           *)

\* A request starts with nothing known and nothing written.
LEMMA InitSafe == Init => IInv
<1> SUFFICES ASSUME Init PROVE IInv
  OBVIOUS
<1>1. conf \in Conf /\ RequestOK(req) /\ MaxTotal \in Nat \ {0}
  BY FrontAssumption DEF Init
<1>2. pc = "cors" /\ NoPreferences \in PrefState
  BY NoPreferencesAgree DEF Init, Agrees
<1>3. TypeOK
  <2>1. DOMAIN prefs.val = PreferKeys /\ prefs.applied \subseteq prefs.seen
    BY DEF Init, NoPreferences
  <2>2. result.rows \in 0 .. MaxTotal
    BY <1>1 DEF Init, NoResult
  <2>3. window.offset \in Nat /\ window.limit \in Nat \cup {None}
    BY DEF Init
  <2> QED
    BY <1>1, <1>2, <2>1, <2>2, <2>3 DEF Init, TypeOK
<1>4. Silent
  BY DEF Init, Silent, Blank, NoResponse
<1>5. Placed
  BY <1>2 DEF Placed, Handling
<1>6. MediaChosen
  BY <1>2 DEF Init, MediaChosen
<1>7. PrefsSettled
  BY <1>2 DEF Init, PrefsSettled, Settled
<1>8. WindowOK /\ WindowKept
  BY <1>2 DEF Init, WindowOK, WindowKept
<1>9. Underway
  BY <1>2, <1>4, <1>5, <1>6, <1>7, <1>8 DEF Init, Underway
<1> QED
  BY <1>2, <1>3, <1>9, UnderwaySafe

\* A step that changes nothing keeps the types. (Between two stages of a request.)
LEMMA TypesKept ==
    ASSUME TypeOK, UNCHANGED <<conf, req, pc, id, gates, prefs, window, result, resp>>
    PROVE  TypeOK'
<1>1. conf' \in Conf /\ pc' = pc /\ id' \in {"none", "anon", "user"}
      /\ gates' \subseteq {"auth", "schema", "plan", "authorize"}
  BY DEF TypeOK
<1>2. RequestOK(req)'
  BY DEF TypeOK, RequestOK
<1>3. DOMAIN prefs'.val = PreferKeys /\ prefs'.applied \subseteq prefs'.seen
  BY DEF TypeOK
<1>4. window'.offset \in Nat /\ window'.limit \in Nat \cup {None}
  BY DEF TypeOK
<1>5. result'.rows \in 0 .. MaxTotal
  BY DEF TypeOK
<1>6. pc' = "done" => resp'.status \in 100 .. 599 \/ resp'.code = "panic"
  BY DEF TypeOK
<1>7. pc' \in {"cors", "options", "auth", "schema", "route", "root", "negotiate", "body",
               "parse", "tx", "range", "cap", "plan", "authorize", "explain",
               "execute", "render", "done"}
  BY DEF TypeOK
<1> QED
  BY <1>1, <1>2, <1>3, <1>4, <1>5, <1>6, <1>7 DEF TypeOK

\* Every stage of the front end keeps the invariant.
LEMMA NextSafe == IInv /\ [Next]_vars => IInv'
<1> SUFFICES ASSUME IInv, [Next]_vars PROVE IInv'
  OBVIOUS
<1>1. TypeOK
  BY DEF IInv, Safe, GatesKept
<1>2. CASE UNCHANGED vars
  <2>1. /\ conf' = conf /\ req' = req /\ media' = media /\ pc' = pc /\ id' = id /\ prefs' = prefs
        /\ window' = window /\ gates' = gates /\ ran' = ran /\ result' = result /\ resp' = resp
    BY <1>2 DEF vars
  <2>2. CASE pc # "done"
    <3>1. Underway /\ pc' # "done"
      BY <2>1, <2>2 DEF IInv
    <3>2. TypeOK'
      BY <1>1, <2>1, TypesKept
    <3>3. Silent' /\ Placed' /\ MediaChosen'
      BY <2>1, <3>1, SilentKept DEF Underway, Placed, MediaChosen, IsGet, IsRpc
    <3>4. PrefsSettled'
      BY <2>1, <3>1 DEF Underway, PrefsSettled, StrictError
    <3>5. WindowOK' /\ WindowKept'
      BY <2>1, <3>1 DEF Underway, WindowOK, WindowKept, IsGet, IsRpc, AsksClosed
    <3>6. Answered => Answered'
      BY <2>1 DEF Answered, IsGet, IsRpc, Shown
    <3>7. Underway'
      BY <2>1, <3>1, <3>3, <3>4, <3>5, <3>6 DEF Underway, IsGet
    <3> QED
      BY <3>1, <3>2, <3>7, UnderwayKept
  <2>3. CASE pc = "done"
    <3>1. TypeOK' /\ ExecutionEarned' /\ TxPolicyKept'
      BY <1>1, <2>1, TypesKept, EarnedKept DEF IInv, Safe, GatesKept
    <3>2. Paged' = Paged
      BY <2>1 DEF Paged, IsGet, IsRpc
    <3>3. EchoHonest' /\ NoSchemaOnError' /\ PrivilegeGraded' /\ StatusSendable'
      BY <2>1, <3>2, ZenonT(40) DEF IInv, Safe, AnswerDescribesResult, FailuresReported, EchoHonest,
         NoSchemaOnError, PrivilegeGraded, StatusSendable
    <3>4. PagedHonestly'
      BY <2>1, <3>2 DEF IInv, Safe, AnswerDescribesResult, PagedHonestly, IsGet
    <3>5. RowCap'
      BY <2>1, <3>2 DEF IInv, Safe, AnswerDescribesResult, RowCap, IsGet, IsRpc
    <3>6. NegotiatedBest'
      BY <2>1 DEF IInv, Safe, NegotiatedBest
    <3>7. CompleteBody'
      BY <2>1 DEF IInv, Safe, FailuresReported, CompleteBody, Rendered, OneValue, ScalarMedia,
         IsGet, IsRpc, Return, RenderRows
    <3> QED
      BY <2>1, <2>3, <3>1, <3>3, <3>4, <3>5, <3>6, <3>7
         DEF IInv, Safe, GatesKept, AnswerDescribesResult, FailuresReported
  <2> QED
    BY <2>2, <2>3
<1>3. ASSUME Next, pc # "done" PROVE IInv'
  <2>1. Underway
    BY <1>3 DEF IInv
  <2>2. CASE ServeCors
    BY <1>1, <1>3, <2>1, <2>2, ServeCorsKeeps
  <2>3. CASE HandleOptions
    BY <1>1, <1>3, <2>1, <2>3, HandleOptionsKeeps
  <2>4. CASE Authenticate
    BY <1>1, <1>3, <2>1, <2>4, AuthenticateKeeps
  <2>5. CASE ResolveSchema
    BY <1>1, <1>3, <2>1, <2>5, ResolveSchemaKeeps
  <2>6. CASE Route
    BY <1>1, <1>3, <2>1, <2>6, RouteKeeps
  <2>7. CASE Root
    BY <1>1, <1>3, <2>1, <2>7, RootKeeps
  <2>8. CASE NegotiateAccept
    BY <1>1, <1>3, <2>1, <2>8, NegotiateAcceptKeeps
  <2>9. CASE ReadBody
    BY <1>1, <1>3, <2>1, <2>9, ReadBodyKeeps
  <2>10. CASE Parse
    BY <1>1, <1>3, <2>1, <2>10, ParseKeeps
  <2>11. CASE ApplyTxPolicy
    BY <1>1, <1>3, <2>1, <2>11, ApplyTxPolicyKeeps
  <2>12. CASE RangeRequest
    BY <1>1, <1>3, <2>1, <2>12, RangeRequestKeeps
  <2>13. CASE CapWindow
    BY <1>1, <1>3, <2>1, <2>13, CapWindowKeeps
  <2>14. CASE Planning
    BY <1>1, <1>3, <2>1, <2>14, PlanningKeeps
  <2>15. CASE Authorize
    BY <1>1, <1>3, <2>1, <2>15, AuthorizeKeeps
  <2>16. CASE ServePlan
    BY <1>1, <1>3, <2>1, <2>16, ServePlanKeeps
  <2>17. CASE Execute
    BY <1>1, <1>3, <2>1, <2>17, ExecuteKeeps
  <2>18. CASE WriteWrite
    BY <1>1, <1>3, <2>1, <2>18, WriteWriteKeeps
  <2>19. CASE WriteRead
    BY <1>1, <1>3, <2>1, <2>19, WriteReadKeeps
  <2>20. CASE Finished
    BY <1>3, <2>20 DEF Finished
  <2> QED
    BY <1>3, <2>2, <2>3, <2>4, <2>5, <2>6, <2>7, <2>8, <2>9, <2>10, <2>11, <2>12, <2>13,
       <2>14, <2>15, <2>16, <2>17, <2>18, <2>19, <2>20 DEF Next
<1>4. ASSUME Next, pc = "done" PROVE UNCHANGED vars
  BY <1>4 DEF Next, Finished, ServeCors, HandleOptions, Authenticate, ResolveSchema, Route, Root,
     NegotiateAccept, ReadBody, Parse, ApplyTxPolicy, RangeRequest, CapWindow, Planning,
     Authorize, ServePlan, Execute, WriteWrite, WriteRead
<1> QED
  BY <1>2, <1>3, <1>4

\* The invariant holds of every request at every stage.
THEOREM FrontInductive == Spec => []IInv
BY InitSafe, NextSafe, PTL DEF Spec

\* Only a request that earned it reaches the backend, and its transaction ends as the
\* server's policy lets it, for every configuration, method, path and Prefer header.
THEOREM FrontGates == Spec => []GatesKept
<1>1. IInv => GatesKept
  BY DEF IInv, Safe
<1> QED
  BY <1>1, FrontInductive, PTL

\* Preference-Applied, Content-Range, the status and the row cap describe what was done,
\* for every Prefer and Range header, every db-max-rows and every size of a result.
THEOREM FrontDescribes == Spec => []AnswerDescribesResult
<1>1. IInv => AnswerDescribesResult
  BY DEF IInv, Safe
<1> QED
  BY <1>1, FrontInductive, PTL

\* Whatever fails is reported as itself: no success over rows that failed to arrive, no
\* leftover header, no wrong grade and no panic that a portable function could cause.
THEOREM FrontFailures == Spec => []FailuresReported
<1>1. IInv => FailuresReported
  BY DEF IInv, Safe
<1> QED
  BY <1>1, FrontInductive, PTL

\* The media type is the best that the Accept header admits, and 406 means that it admits
\* none, for every Accept header.
THEOREM FrontNegotiates == Spec => []NegotiatedBest
<1>1. IInv => NegotiatedBest
  BY DEF IInv, Safe
<1> QED
  BY <1>1, FrontInductive, PTL

=============================================================================
