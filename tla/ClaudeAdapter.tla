--------------------------- MODULE ClaudeAdapter ---------------------------
(***************************************************************************)
(* One call of Verify or BatchVerify of                                    *)
(* operator/internal/engine/llm/claude.go: the conversation with the       *)
(* Messages API, in which every tool the model asks for is run and its     *)
(* result sent back, until the model answers or the iterations are used    *)
(* up.  The two methods run the same loop; a batch of one is Verify.       *)
(*                                                                         *)
(* The API is external.  Its contract: a response that stops for tool use  *)
(* has at least one tool_use block.  Responses may carry blocks that do    *)
(* not decode ("bad") or are of a type the adapter does not know           *)
(* ("other").                                                              *)
(***************************************************************************)
EXTENDS VerdictParsing, FiniteSets

CONSTANTS
  Batches,        \* the lists of checks a call may be for
  Texts,          \* what the text of a response may be
  Contents,       \* lists of block types a response may have
  MaxIterations   \* 10 in the build

ASSUME AdapterConstants ==
  /\ \A batch \in Batches : batch \in Seq(CheckIDs) /\ batch /= <<>>
  /\ Texts \subseteq Seq(Tokens)
  /\ Contents \subseteq Seq({"text", "tool_use", "bad", "other"})
  /\ MaxIterations \in Nat \ {0}

VARIABLES
  pc,            \* "idle", "call", "respond", "done"
  checks,        \* the checks of the call
  messages,      \* the conversation
  resp,          \* the response of this iteration
  allToolCalls,  \* the evidence collected
  iterations,    \* responses received
  outcome        \* what the call returns: an error or verdicts with evidence

vars == <<pc, checks, messages, resp, allToolCalls, iterations, outcome>>
-----------------------------------------------------------------------------
NoResponse == [stop |-> "none", content |-> <<>>, text |-> <<>>]
Pending == [err |-> FALSE, verdicts |-> <<>>, evidence |-> <<>>]
Failed == [Pending EXCEPT !.err = TRUE]

\* The blocks of a message: a block has the ID of the tool use it is or answers.
Block(type, id, content) == [type |-> type, id |-> id, content |-> content]
Text == Block("text", <<0, 0>>, "text")
Message(role, content) == [role |-> role, content |-> content]

Init ==
  /\ pc = "idle"
  /\ checks = <<>>
  /\ messages = <<>>
  /\ resp = NoResponse
  /\ allToolCalls = <<>>
  /\ iterations = 0
  /\ outcome = Pending

\* The call starts with one user message.
Begin ==
  /\ pc = "idle"
  /\ checks' \in Batches
  /\ messages' = <<Message("user", <<Text>>)>>
  /\ pc' = "call"
  /\ UNCHANGED <<resp, allToolCalls, iterations, outcome>>

\* callAPI returns a response.
callAPI ==
  /\ pc = "call"
  /\ iterations < MaxIterations
  /\ \E stop \in {"end_turn", "stop", "tool_use", "max_tokens"},
        content \in Contents, text \in Texts :
       /\ stop = "tool_use" => \E i \in DOMAIN content : content[i] = "tool_use"
       /\ text /= <<>> => \E i \in DOMAIN content : content[i] = "text"
       /\ resp' = [stop |-> stop, content |-> content, text |-> text]
  /\ iterations' = iterations + 1
  /\ pc' = "respond"
  /\ UNCHANGED <<checks, messages, allToolCalls, outcome>>

\* callAPI returns an error: the request fails, the status is not 200, or the
\* body does not decode.
callAPIFails ==
  /\ pc = "call"
  /\ iterations < MaxIterations
  /\ outcome' = Failed
  /\ pc' = "done"
  /\ UNCHANGED <<checks, messages, resp, allToolCalls, iterations>>

\* The order in which a loop over positions meets those of S.
InOrder(S) ==
  CHOOSE s \in [1..Cardinality(S) -> S] : \A i, j \in DOMAIN s : i < j => s[i] < s[j]

\* The positions of the tool uses of the response, in order.
ToolUses == InOrder({i \in DOMAIN resp.content : resp.content[i] = "tool_use"})

\* The assistant's turn as it is sent back: text and tool uses, nothing else.
AssistantContent ==
  LET kept == InOrder({i \in DOMAIN resp.content : resp.content[i] \in {"text", "tool_use"}})
  IN [k \in DOMAIN kept |-> IF resp.content[kept[k]] = "text" THEN Text
                            ELSE Block("tool_use", <<iterations, kept[k]>>, "input")]

\* Mutant: a tool that fails gets no result.
ToolResultsOfSuccesses(outputs) ==
  LET ok == InOrder({k \in DOMAIN ToolUses : outputs[k] /= "error"})
  IN [k \in DOMAIN ok |->
        Block("tool_result", <<iterations, ToolUses[ok[k]]>>, outputs[ok[k]])]

\* The result of each tool use: its output, or the error as text.
ToolResults(outputs) ==
  [k \in DOMAIN ToolUses |->
     Block("tool_result", <<iterations, ToolUses[k]>>, outputs[k])]

\* Mutant: the evidence of earlier turns is dropped.
processToolUseForgets ==
  /\ pc = "respond"
  /\ resp.stop = "tool_use"
  /\ \E outputs \in [DOMAIN ToolUses -> {"output", "error"}] :
       /\ messages' = messages \o <<Message("assistant", AssistantContent),
                                    Message("user", ToolResults(outputs))>>
       /\ allToolCalls' = ToolResults(outputs)
  /\ pc' = "call"
  /\ resp' = NoResponse
  /\ UNCHANGED <<checks, iterations, outcome>>

\* The model asks for tools: run them, record them, and go round again.
processToolUse ==
  /\ pc = "respond"
  /\ resp.stop = "tool_use"
  /\ \E outputs \in [DOMAIN ToolUses -> {"output", "error"}] :
       /\ messages' = messages \o <<Message("assistant", AssistantContent),
                                    Message("user", ToolResults(outputs))>>
       /\ allToolCalls' = allToolCalls \o ToolResults(outputs)
  /\ pc' = "call"
  /\ resp' = NoResponse
  /\ UNCHANGED <<checks, iterations, outcome>>

\* The verdicts of a text, by the method that was called.
Parse(text) ==
  IF Len(checks) = 1 THEN <<parseVerdict(text)>> ELSE parseBatchVerdicts(text, checks)

\* Any other stop reason is taken for an answer, a truncated one included.
Answer ==
  /\ pc = "respond"
  /\ resp.stop /= "tool_use"
  /\ outcome' = [err |-> FALSE, verdicts |-> Parse(resp.text), evidence |-> allToolCalls]
  /\ pc' = "done"
  /\ UNCHANGED <<checks, messages, resp, allToolCalls, iterations>>

\* Mutant: when the iterations are used up, the last response is the answer.
ExceedParsesAnyway ==
  /\ pc = "call"
  /\ iterations >= MaxIterations
  /\ outcome' = [err |-> FALSE, verdicts |-> Parse(resp.text), evidence |-> allToolCalls]
  /\ pc' = "done"
  /\ UNCHANGED <<checks, messages, resp, allToolCalls, iterations>>

\* The iterations are used up.
Exceed ==
  /\ pc = "call"
  /\ iterations >= MaxIterations
  /\ outcome' = Failed
  /\ pc' = "done"
  /\ UNCHANGED <<checks, messages, resp, allToolCalls, iterations>>

Next ==
  Begin \/ callAPI \/ callAPIFails \/ processToolUse \/ Answer \/ Exceed

Spec == Init /\ [][Next]_vars
-----------------------------------------------------------------------------
\* The blocks of a type in a message, in order, and their IDs.
BlocksOf(message, type) ==
  LET at == InOrder({i \in DOMAIN message.content : message.content[i].type = type})
  IN [k \in DOMAIN at |-> message.content[at[k]]]

IDsOf(message, type) ==
  [k \in DOMAIN BlocksOf(message, type) |-> BlocksOf(message, type)[k].id]

\* Whenever the API is called, the conversation is one the API accepts: user and
\* assistant take turns, the user speaks last, and each tool use of an assistant
\* turn has its result, in order, in the turn that follows, also for tools that
\* failed and for turns with blocks that were dropped.
ConversationAccepted ==
  pc = "call" =>
    /\ Len(messages) % 2 = 1
    /\ \A i \in DOMAIN messages :
         /\ messages[i].role = IF i % 2 = 1 THEN "user" ELSE "assistant"
         /\ messages[i].content /= <<>>
         /\ i % 2 = 0 =>
              IDsOf(messages[i + 1], "tool_result") = IDsOf(messages[i], "tool_use")

\* The call has returned verdicts.
Answered == pc = "done" /\ ~outcome.err

\* The evidence returned with the verdicts is exactly what the model was shown, in
\* the order in which it was shown, over all turns.
EvidenceIsWhatWasShown ==
  Answered =>
    outcome.evidence =
      FlattenSeq([i \in DOMAIN messages |-> BlocksOf(messages[i], "tool_result")])

\* A call that is cut off (by the bound on iterations, or by an error) returns an
\* error, which the engine turns into FAIL: every verdict comes from a response in
\* which the model had stopped asking for tools.  A text that was cut off counts as
\* such a response: max_tokens stands for every stop reason but the three that the
\* code and its tests name, and all of them take the default branch.
NoVerdictBeforeTheEnd ==
  Answered =>
    /\ resp.stop \in {"end_turn", "stop", "max_tokens"}
    /\ Len(outcome.verdicts) = Len(checks)
-----------------------------------------------------------------------------
\* What the text says: where it states a verdict, and where it has a line for the
\* k-th check.
Statements == {i \in 1..(Len(resp.text) - 1) : AsksVerdict(resp.text[i])}
Lines(k) == {i \in DOMAIN resp.text : resp.text[i] = <<"line", checks[k]>>}

\* A verdict is stated after position i.
States(i, verdict) == i < Len(resp.text) /\ resp.text[i + 1] = <<"word", verdict>>

AnsweredBatch == Answered /\ Len(checks) > 1

\* Where the answer to check k may be: in its line, or for a call with one check
\* wherever the text states a verdict, as the two system prompts ask.
AnswersTo(k) == IF Len(checks) = 1 THEN Statements ELSE Lines(k)

\* A check answered once in the format asked for gets that answer, whatever the
\* text says before or after it or of other checks, and although its ID may be
\* part of theirs.
AnswerIsUnderstood ==
  Answered =>
    \A k \in DOMAIN checks : \A i \in AnswersTo(k), verdict \in Verdicts :
      AnswersTo(k) = {i} /\ States(i, verdict) => outcome.verdicts[k] = verdict

\* A check the text does not mention fails, whatever verdicts the text states.
SilenceFails ==
  AnsweredBatch =>
    \A k \in DOMAIN checks :
      (\A i \in DOMAIN resp.text : ~Mentions(resp.text[i], checks[k])) =>
        outcome.verdicts[k] = "FAIL"

\* claude.go: "parseBatchVerdicts extracts per-check verdicts".  A check passes
\* only on a verdict mark with PASS that is not in the line of another check.
PerCheckVerdicts ==
  AnsweredBatch =>
    \A k \in DOMAIN checks :
      outcome.verdicts[k] = "PASS" =>
        \E i \in Statements :
          /\ resp.text[i] \in {<<"line", checks[k]>>, <<"verdict", "">>}
          /\ States(i, "PASS")
=============================================================================
