-------------------------- MODULE ClaudeAdapterMC --------------------------
(***************************************************************************)
(* Constants for model checking ClaudeAdapter: of the two checks, one has  *)
(* an ID that is part of the other's (pod and pod-restarts).               *)
(***************************************************************************)
EXTENDS ClaudeAdapter

IDs == {"pod", "pod-restarts"}
PartOf == [id \in IDs |-> IF id = "pod" THEN {"pod"} ELSE IDs]

OneAndTwo == {<<"pod">>, <<"pod", "pod-restarts">>}

\* Every text of up to three tokens.
ShortTexts == UNION {[1..n -> Tokens] : n \in 0..3}

\* Two answered lines after any token: the format asked for, in any order, with a
\* line missing, doubled, or without a verdict.
TwoLines ==
  {<<first, <<"line", id1>>, <<"word", w1>>, <<"line", id2>>, <<"word", w2>>>> :
     first \in Tokens, id1, id2 \in IDs, w1, w2 \in Verdicts \cup {"other"}}

AllTexts == ShortTexts \cup TwoLines

\* Answers, one tool or two, with text and with blocks that are left out.
SomeContents ==
  {<<>>, <<"text">>, <<"tool_use">>, <<"bad", "tool_use">>,
   <<"text", "tool_use", "other", "tool_use">>}
=============================================================================
