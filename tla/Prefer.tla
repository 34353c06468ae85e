------------------------------- MODULE Prefer -------------------------------
(***************************************************************************)
(* The Prefer header: parsing with "the first occurrence wins", the        *)
(* db-tx-end policy, strict handling and the Preference-Applied echo. A    *)
(* header is a sequence of tokens [k |-> key, v |-> value].                *)
(***************************************************************************)
EXTENDS Naturals, Sequences, Functions

Absent == "absent"

\* What strings.Cut makes of a token.
Token == [k : STRING, v : STRING]

PreferKeys == {"resolution", "missing", "return", "count", "tx", "handling",
               "timezone", "max-affected"}

\* The values PreferSet.set accepts. Numbers and time zones stand for the ones
\* strconv and the tz database accept.
ValidValues ==
    [k \in PreferKeys |->
       CASE k = "return" -> {"minimal", "headers-only", "representation"}
         [] k = "count" -> {"exact", "planned", "estimated"}
         [] k = "resolution" -> {"merge-duplicates", "ignore-duplicates"}
         [] k = "missing" -> {"default", "null"}
         [] k = "tx" -> {"commit", "rollback"}
         [] k = "handling" -> {"strict", "lenient"}
         [] k = "max-affected" -> {"0", "1"}
         [] k = "timezone" -> {"UTC"}]

TxEnds == {"commit", "commit-allow-override", "rollback", "rollback-allow-override"}

NoPreferences == [val |-> [k \in PreferKeys |-> Absent], seen |-> {},
                  applied |-> {}, invalid |-> <<>>]

\* A known key is taken once, valid or not; an unknown key or a bad value is an
\* offender.
TakeToken(p, t) ==
    IF t.k \notin PreferKeys THEN [p EXCEPT !.invalid = Append(@, t)]
    ELSE IF t.k \in p.seen THEN p
    ELSE IF t.v \in ValidValues[t.k]
         THEN [p EXCEPT !.seen = @ \cup {t.k}, !.applied = @ \cup {t.k}, !.val[t.k] = t.v]
         ELSE [p EXCEPT !.seen = @ \cup {t.k}, !.invalid = Append(@, t)]

\* max-affected is enforced, and echoed, only under handling=strict.
StrictOnly(p) ==
    IF p.val["handling"] = "strict" THEN p
    ELSE [p EXCEPT !.applied = @ \ {"max-affected"}, !.val["max-affected"] = Absent]

\* The tokens are taken one after the other.
Taken(toks) ==
    LET p[n \in 0..Len(toks)] ==
          IF n = 0 THEN NoPreferences ELSE TakeToken(p[n - 1], toks[n])
    IN  p[Len(toks)]

ParsePrefer(toks) == StrictOnly(Taken(toks))

\* ResolveTx: only the allow-override policies honour and echo a client's tx=.
ResolveTx(p, policy) ==
    LET sent == "tx" \in p.applied
        fallback == IF policy \in {"rollback", "rollback-allow-override"}
                    THEN "rollback" ELSE Absent
    IN  IF policy \in {"commit-allow-override", "rollback-allow-override"}
        THEN IF sent THEN p ELSE [p EXCEPT !.val["tx"] = fallback]
        ELSE [p EXCEPT !.applied = @ \ {"tx"}, !.val["tx"] = fallback,
                       !.invalid = IF sent /\ p.val["handling"] = "strict"
                                   THEN Append(@, [k |-> "tx", v |-> p.val["tx"]]) ELSE @]

StrictError(p) == p.val["handling"] = "strict" /\ p.invalid # <<>>

ApplyOrder == <<"resolution", "missing", "return", "count", "tx", "handling",
                "timezone", "max-affected">>
AppliedHeader(p) ==
    LET out[n \in 0..Len(ApplyOrder)] ==
          IF n = 0 THEN <<>>
          ELSE IF ApplyOrder[n] \in p.applied THEN Append(out[n - 1], ApplyOrder[n])
          ELSE out[n - 1]
    IN  out[Len(ApplyOrder)]

(* A declarative reading, for the properties.                              *)
-----------------------------------------------------------------------------
Occurrences(toks, k) == {i \in 1..Len(toks) : toks[i].k = k}
FirstValue(toks, k) ==
    IF Occurrences(toks, k) = {} THEN Absent
    ELSE LET i == CHOOSE i \in Occurrences(toks, k) : \A j \in Occurrences(toks, k) : i <= j
         IN  IF toks[i].v \in ValidValues[k] THEN toks[i].v ELSE Absent

\* Something handling=strict refuses: an unknown key, a first occurrence with a
\* bad value, or a tx= that db-tx-end does not let the client choose.
Offends(toks, policy) ==
    \/ \E i \in 1..Len(toks) : toks[i].k \notin PreferKeys
    \/ \E k \in PreferKeys : Occurrences(toks, k) # {} /\ FirstValue(toks, k) = Absent
    \/ FirstValue(toks, "tx") # Absent /\ policy \in {"commit", "rollback"}

\* Whether a request runs to a rollback: the client's word counts only where
\* db-tx-end lets it.
RollsBack(toks, policy) ==
    LET said == FirstValue(toks, "tx")
    IN  CASE policy = "commit" -> FALSE
          [] policy = "rollback" -> TRUE
          [] policy = "commit-allow-override" -> said = "rollback"
          [] policy = "rollback-allow-override" -> said # "commit"
=============================================================================
