-------------------------------- MODULE Scan --------------------------------
(***************************************************************************)
(* The scanners of the query-string parser. A text is a sequence of        *)
(* symbols: the punctuation the scanners look at and whole words. All of   *)
(* them share one loop: inside double quotes nothing is punctuation, and a *)
(* backslash hides the next symbol.                                        *)
(***************************************************************************)
EXTENDS Integers, Sequences, FiniteSets, SequencesExt, FiniteSetsExt

Quote == "\""
Escape == "\\"

Fail == [ok |-> FALSE]
Ok(v) == [ok |-> TRUE, v |-> v]

\* Faulty variant: a backslash hides nothing.
StepNoEscape(prev, c, final) ==
    IF c = Quote THEN (IF prev = "in" THEN "out" ELSE "in") ELSE prev

\* Where the loop is after a symbol: outside quotes, inside, or past a backslash
\* inside. final is the last symbol, behind which there is nothing to hide.
Step(prev, c, final) ==
    CASE prev = "esc" -> "in"
      [] prev = "in" /\ c = Escape /\ ~final -> "esc"
      [] prev = "in" /\ c = Quote -> "out"
      [] prev = "out" /\ c = Quote -> "in"
      [] OTHER -> prev
RECURSIVE Scanned(_, _)
Scanned(s, sts) ==
    LET n == Len(sts)
    IN  IF n > Len(s) THEN sts ELSE Scanned(s, Append(sts, Step(sts[n], s[n], n = Len(s))))
\* Quoting(s)[i] is where the loop is before symbol i.
Quoting(s) == Scanned(s, <<"out">>)

\* The positions where punctuation counts.
Bare(s) == LET st == Quoting(s) IN {i \in 1..Len(s) : st[i] = "out" /\ s[i] # Quote}

Opening == {"(", "{"}
Closing == {")", "}"}
Depth(s, bare, i) ==
    Cardinality({j \in bare : j < i /\ s[j] \in Opening})
      - Cardinality({j \in bare : j < i /\ s[j] \in Closing})

\* The members of a set of positions of s, in order.
Positions(s, S) == SelectSeq([i \in 1..Len(s) |-> i], LAMBDA i : i \in S)

\* The pieces of s between the positions in cuts.
Pieces(s, cuts) ==
    LET at == <<0>> \o Positions(s, cuts) \o <<Len(s) + 1>>
    IN  [k \in 1..Len(at)-1 |-> SubSeq(s, at[k] + 1, at[k+1] - 1)]

\* strings.Split: no regard for quotes or nesting.
SplitPlain(s, sep) == Pieces(s, {i \in 1..Len(s) : s[i] = sep})

SplitTopLevel(s, sep) ==
    LET bare == Bare(s)
    IN  Pieces(s, {i \in bare : s[i] = sep /\ Depth(s, bare, i) = 0})

CutAt(s, i) == Ok([before |-> SubSeq(s, 1, i - 1), after |-> SubSeq(s, i + 1, Len(s))])
CutIdentAware(s, sep) ==
    LET at == {i \in Bare(s) : s[i] = sep}
    IN  IF at = {} THEN Fail ELSE CutAt(s, Min(at))

\* The colons that are not halves of a cast: the last of an odd run.
Run(s, i) == i + 1 - Min({j \in 1..i : \A k \in j..i : s[k] = ":"})
CutAliasAware(s) ==
    LET bare == Bare(s)
        at == {i \in bare : /\ s[i] = ":" /\ Run(s, i) % 2 = 1
                            /\ ~(i < Len(s) /\ s[i+1] = ":")}
    IN  IF at = {} THEN Fail ELSE CutAt(s, Min(at))

\* The escapes of a quoted element, and the doubled quotes of an identifier.
Without(s, drop) == LET keep == Positions(s, 1..Len(s) \ drop)
                    IN  [k \in DOMAIN keep |-> s[keep[k]]]
UnescapeQuoted(s) ==
    LET active[i \in 0..Len(s)] ==
          i > 0 /\ i < Len(s) /\ s[i] = Escape /\ ~active[i-1]
    IN  Without(s, {i \in 1..Len(s) : active[i]})
IsQuoted(s) == Len(s) >= 2 /\ s[1] = Quote /\ s[Len(s)] = Quote
Inner(s) == SubSeq(s, 2, Len(s) - 1)
UnquoteIdent(s) ==
    LET t == Inner(s)
        second[i \in 0..Len(t)] ==
          i > 1 /\ t[i] = Quote /\ t[i-1] = Quote /\ ~second[i-1]
    IN  IF IsQuoted(s) THEN Without(t, {i \in 1..Len(t) : second[i]}) ELSE s

\* parseInList and parseBraceList: at least one element, quoted ones unescaped.
ParseList(s, open, close) ==
    IF Len(s) < 3 \/ s[1] # open \/ s[Len(s)] # close THEN Fail
    ELSE LET parts == SplitTopLevel(Inner(s), ",")
         IN  Ok([k \in DOMAIN parts |->
                   IF IsQuoted(parts[k]) THEN UnescapeQuoted(Inner(parts[k])) ELSE parts[k]])
ParseInList(s) == ParseList(s, "(", ")")
ParseBraceList(s) == ParseList(s, "{", "}")

\* A column reference: hops separated by arrows outside quotes.
Arrows == {"->", "->>"}
ParsePath(s) ==
    LET at == {i \in Bare(s) : s[i] \in Arrows}
        raw == Pieces(s, at)
        hops == [k \in DOMAIN raw |-> UnquoteIdent(raw[k])]
    IN  IF \E k \in DOMAIN hops : hops[k] = <<>> THEN Fail
        ELSE Ok([path |-> hops, last |-> IF at = {} THEN "" ELSE s[Max(at)]])
=============================================================================
