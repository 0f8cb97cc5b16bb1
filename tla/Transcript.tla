---------------------------- MODULE Transcript ----------------------------
(***************************************************************************)
(* From a client's messages to the prompt: an Anthropic request becomes    *)
(* OpenAI messages (packages/proxy-lib/src/anthropic.ts), and these become *)
(* one text for M365 (packages/core/src/tools.ts, fenced.ts).              *)
(*                                                                         *)
(* A client's message is [role, content], content a sequence of blocks:    *)
(* <<"text", t>>, <<"use", id, name>>, <<"result", id, t>>, <<"image", t>>,*)
(* <<"thinking", t>> or <<"other">>.  A string is a lone text block, for   *)
(* roles assistant and user with the same outcome.                         *)
(***************************************************************************)
EXTENDS Integers, SequencesExt

Of(blocks, kinds) == SelectSeq(blocks, LAMBDA b : b[1] \in kinds)
Texts(blocks) == [i \in DOMAIN blocks |-> blocks[i][Len(blocks[i])]]

Message(role, text, calls, id) == [role |-> role, text |-> text, calls |-> calls, id |-> id]
NoId == "none"

\* An assistant's turn: its text and its reasoning, and its calls.
FromAssistant(blocks) ==
  <<Message("assistant", Texts(Of(blocks, {"text", "thinking"})),
            [i \in DOMAIN Of(blocks, {"use"}) |-> [id |-> Of(blocks, {"use"})[i][2], name |-> Of(blocks, {"use"})[i][3]]],
            NoId)>>

Flushed(acc) ==
  IF acc.pending = <<>> THEN acc
  ELSE [out |-> Append(acc.out, Message("user", acc.pending, <<>>, NoId)), pending |-> <<>>]

Calls(message, id) == message.role = "assistant" /\ \E i \in DOMAIN message.calls : message.calls[i].id = id

Stub_Never(out, id) == <<>>

\* Unless the message before is the assistant's that made the call, a stub makes it.
Stub(out, id) ==
  IF out # <<>> /\ Calls(Last(out), id) THEN <<>>
  ELSE <<Message("assistant", <<>>, <<[id |-> id, name |-> "unknown_tool"]>>, NoId)>>

\* One block of a user's turn: texts and attachments gather, a result ends them.
UserBlock(acc, b) ==
  CASE b[1] \in {"text", "image"} -> [acc EXCEPT !.pending = Append(@, b[2])]
    [] b[1] = "result" ->
         LET out == Flushed(acc).out IN
         [out |-> out \o Stub(out, b[2]) \o <<Message("tool", <<b[3]>>, <<>>, b[2])>>, pending |-> <<>>]
    [] OTHER -> acc

FromUser(out, blocks) ==
  IF blocks = <<>> THEN Append(out, Message("user", <<>>, <<>>, NoId))
  ELSE Flushed(FoldLeft(UserBlock, [out |-> out, pending |-> <<>>], blocks)).out

\* anthropicMessagesToOpenAI: all system texts first, as one message.
ToOpenAI(system, messages) ==
  LET ofSystem == SelectSeq(messages, LAMBDA m : m.role = "system")
      turns == SelectSeq(messages, LAMBDA m : m.role # "system")
      systemText == system \o FlattenSeq([i \in DOMAIN ofSystem |-> Texts(Of(ofSystem[i].content, {"text"}))])
      first == IF systemText = <<>> THEN <<>> ELSE <<Message("system", systemText, <<>>, NoId)>>
      Turn(out, m) == IF m.role = "assistant" THEN out \o FromAssistant(m.content) ELSE FromUser(out, m.content)
  IN  FoldLeft(Turn, first, turns)

\* mapToolChoice; a choice is <<type>> or <<"tool", name>>.
MapToolChoice(choice) ==
  CASE choice[1] = "any" -> <<"required">>
    [] choice[1] \in {"none", "auto"} -> choice
    [] choice[1] = "tool" -> <<"function", choice[2]>>

\* disable_parallel_tool_use matters only where tools may be called.
RequestsSingleToolUse(tools, choice, disabled) == tools # <<>> /\ choice[1] # "none" /\ disabled
-----------------------------------------------------------------------------
\* The framings (fenced.ts): "delegating" adds a paragraph to the baseline if there is a
\* sub-agent tool, "claude-code" never lists the tools, the others differ in their words.
WordedFramings == {"minimal", "softened", "recency", "fewshot", "proof_demand", "persona", "react", "negative"}
LateFramings == {"terse", "demo_only", "session_facts"}
ToolsBlock(tools) == tools

Baseline(tools) == [words |-> "baseline", delegates |-> FALSE, listed |-> ToolsBlock(tools)]
Delegating(tools) ==
  IF \E i \in DOMAIN tools : tools[i] = "Task"
  THEN [Baseline(tools) EXCEPT !.delegates = TRUE] ELSE Baseline(tools)
ClaudeCode == [words |-> "claude-code", delegates |-> FALSE, listed |-> <<>>]

\* formatFencedToolDefinitions: an unknown framing is the baseline, and so is "reply_tool".
Framing(variant, tools) ==
  CASE variant = "claude-code" -> ClaudeCode
    [] variant = "delegating" -> Delegating(tools)
    [] variant \in WordedFramings \cup LateFramings -> [Baseline(tools) EXCEPT !.words = variant]
    [] OTHER -> Baseline(tools)

\* formatToolChoiceInstruction.
Instruction(choice) == IF choice[1] \in {"none", "required", "function"} THEN choice ELSE <<"auto">>

\* The synthetic reply tool comes first, unless the client has one of that name.
WithReplyTool(tools, inject) ==
  IF inject /\ \A i \in DOMAIN tools : tools[i] # "reply" THEN <<"reply">> \o tools ELSE tools

\* The call an id is remembered for: the last one of the messages.
CallsOf(messages) == FlattenSeq([i \in DOMAIN messages |-> messages[i].calls])
Label(messages, id) ==
  LET made == SelectSeq(CallsOf(messages), LAMBDA c : c.id = id) IN
  IF made = <<>> THEN "tool" ELSE Last(made).name

\* formatMessages: the system part, if tools may be called, and a part per message.
FormatMessages(messages, tools, choice, variant, inject) ==
  LET shown == WithReplyTool(tools, inject \/ variant = "reply_tool")
      system == IF shown = <<>> \/ choice[1] = "none" THEN <<>>
                ELSE <<[tag |-> "tools", framing |-> Framing(variant, shown), instruction |-> Instruction(choice)]>>
      Part(m) == IF m.role = "tool" THEN [tag |-> "tool_response", tool |-> Label(messages, m.id), text |-> m.text]
                 ELSE IF m.calls # <<>> THEN [tag |-> "assistant", calls |-> [i \in DOMAIN m.calls |-> m.calls[i].name], text |-> m.text]
                 ELSE [tag |-> m.role, text |-> m.text]
  IN  system \o [i \in DOMAIN messages |-> Part(messages[i])]

\* formatDeltaMessages (handler.ts), of the messages M365 has not seen: its own answers and
\* system texts are left out, and a result is labelled with the name its message has.
FormatDelta(messages) ==
  LET told == SelectSeq(messages, LAMBDA m : m.role \in {"user", "tool"})
      Part(m) == IF m.role = "tool" THEN [tag |-> "tool_response", tool |-> "unknown", text |-> m.text]
                 ELSE [tag |-> "user", text |-> m.text]
  IN  [i \in DOMAIN told |-> Part(told[i])]
=============================================================================
