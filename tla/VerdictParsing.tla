--------------------------- MODULE VerdictParsing ---------------------------
(***************************************************************************)
(* How the Claude adapter reads verdicts from the text of a response       *)
(* (parseVerdict and parseBatchVerdicts of                                 *)
(* operator/internal/engine/llm/claude.go).                                *)
(*                                                                         *)
(* A text is a sequence of the tokens the searches tell apart, in upper    *)
(* case and separated by single spaces:                                    *)
(*   <<"line", id>>    the verdict mark of a line that names check <id>    *)
(*   <<"id", id>>      any other place where the ID of a check stands      *)
(*   <<"verdict", "">> a verdict mark whose line names no check            *)
(*   <<"word", w>>     PASS, WARN, FAIL or, as "other", anything else      *)
(***************************************************************************)
EXTENDS Integers, Sequences, SequencesExt

CONSTANTS
  CheckIDs,  \* the IDs of the checks
  Within     \* Within[id]: the IDs that occur in id as substrings, itself included

ASSUME ParsingConstants ==
  /\ Within \in [CheckIDs -> SUBSET CheckIDs]
  /\ \A id \in CheckIDs : id \in Within[id]

Verdicts == {"PASS", "WARN", "FAIL"}

Tokens ==
  ({"line", "id"} \X CheckIDs) \cup {<<"verdict", "">>} \cup
  ({"word"} \X (Verdicts \cup {"other"}))

\* The token ends with the verdict mark.
AsksVerdict(token) == token[1] \in {"line", "verdict"}

\* The substring id occurs in the token.
Mentions(token, id) == token[1] \in {"line", "id"} /\ id \in Within[token[2]]

\* The verdict that follows the mark at position i; anything but PASS and
\* WARN is FAIL.
VerdictAfter(text, i) ==
  IF i < Len(text) /\ text[i + 1] \in {<<"word", "PASS">>, <<"word", "WARN">>}
  THEN text[i + 1][2]
  ELSE "FAIL"

\* parseVerdict: a mark with PASS anywhere wins over one with WARN anywhere.
parseVerdict(text) ==
  LET Says(verdict) == \E i \in DOMAIN text :
        /\ AsksVerdict(text[i])
        /\ i < Len(text)
        /\ text[i + 1] = <<"word", verdict>>
  IN IF Says("PASS") THEN "PASS" ELSE IF Says("WARN") THEN "WARN" ELSE "FAIL"

\* Mutant: a check that is not mentioned gets the first verdict of the text.
VerdictNearAnything(text, id) ==
  LET verdict == SelectInSeq(text, AsksVerdict)
  IN IF verdict = 0 THEN "FAIL" ELSE VerdictAfter(text, verdict)

\* parseBatchVerdicts, the fallback: the first mark at or after the first
\* mention of the check.
VerdictNearMention(text, id) ==
  LET mention == SelectInSeq(text, LAMBDA token : Mentions(token, id))
      verdict == SelectInSubSeq(text, mention, Len(text), AsksVerdict)
  IN IF mention = 0 \/ verdict = 0 THEN "FAIL" ELSE VerdictAfter(text, verdict)

\* Mutant: the check's own line is not looked for.
parseBatchVerdictByMention(text, id) == VerdictNearMention(text, id)

\* parseBatchVerdicts for one check: its first line, or else the fallback.
parseBatchVerdict(text, id) ==
  LET line == SelectInSeq(text, LAMBDA token : token = <<"line", id>>)
  IN IF line > 0 THEN VerdictAfter(text, line) ELSE VerdictNearMention(text, id)

parseBatchVerdicts(text, checks) ==
  [i \in DOMAIN checks |-> parseBatchVerdict(text, checks[i])]
=============================================================================
