------------------------------ MODULE Exchange ------------------------------
(***************************************************************************)
(* What one request is on its way through the proxy: admitted, given a     *)
(* model, a profile and a system prompt, turned into a prompt, answered,   *)
(* and its answer turned into calls or text; or, with a generic upstream,  *)
(* streamed through.  Each step is the program's own conversion, of the    *)
(* modules this one extends; what later steps do not read is dropped.      *)
(* Waiting, retries and rounds of tools are in TurnGate, TurnPipeline and  *)
(* ToolRounds.                                                             *)
(***************************************************************************)
EXTENDS Transcript, ToolFence, CallRepair, ModelChoice, UpstreamStream, Failures

CONSTANTS
  HttpRequests,         \* what may arrive: requests of Failures
  Settings,             \* environments, as [files, aliases, profile, prompt, corpora, disk, routes]
  Outages,              \* sets of models whose breakers route a request away; {} with M365_NO_TONE_FAILOVER
  Asks,                 \* what a request asks for, as [name, tools, prompt, vision]
  Histories, Messages,  \* what Anthropic and OpenAI clients send as messages
  ToolChoices,          \* tool choices of Anthropic clients
  Framings,             \* values of M365_FRAMING_VARIANT
  Catalogs,             \* sequences of tools, as the answers are parsed for
  Arguments,            \* arguments the model may mean, by the name of the tool
  Prefaces, Answers,    \* lines before a call, and whole answers
  Signals, Codes,       \* how turns fail
  Chunks, MaxChunks     \* chunks of the upstream's streams, and how many

\* A text is a sequence of lines, the arguments in its JSON are functions with finitely
\* many names, and so are those that are meant; a tool has its properties in sequence.
\* A chunk of an upstream has a text of letters and pieces of calls.
IsArgs(args) == IsFiniteSet(DOMAIN args) /\ args \in [DOMAIN args -> Range(args)]
IsText(lines) ==
  lines \in Seq(Range(lines)) /\ \A l \in Range(lines) : Kind(l) = "json" => IsArgs(l[4])
IsTool(tool) ==
  tool.props \in Seq(Range(tool.props)) /\ tool.required \in Seq(Range(tool.required))
IsChunk(chunk) ==
  /\ chunk.text \in Seq(Letters) /\ chunk.calls \in Seq(Range(chunk.calls))
  /\ \A piece \in Range(chunk.calls) : piece.slot \in Slots /\ piece.args \in Seq(Letters)

ASSUME ExchangeAssumption ==
  /\ \A tools \in Catalogs : \A tool \in Range(tools) : IsTool(tool) /\ tool.name \in DOMAIN Arguments
  /\ \A lines \in Prefaces \cup Answers : IsText(lines)
  /\ \A name \in DOMAIN Arguments : \A args \in Arguments[name] :
       IsArgs(args) /\ \A p \in DOMAIN args : IsText(args[p]) /\ args[p] # <<>>
  /\ \A chunk \in Chunks : IsChunk(chunk)

\* A catalog has a name once (DefinitionErrors refuses the others), a tool has a property
\* once and none without a name, and what is meant for a tool are values of its properties.
\* No fence is opened before the call, a run of backticks has a length, and no stray JSON
\* call before or in a call has arguments that are meant.
Meant == UNION {Arguments[name] : name \in DOMAIN Arguments}
ASSUME FencesAssumption ==
  /\ \A tools \in Catalogs :
       /\ tools \in Seq(Range(tools))
       /\ \A i, j \in DOMAIN tools : tools[i].name = tools[j].name => i = j
       /\ \A tool \in Range(tools) :
            /\ IsInjective(tool.props) /\ "" \notin Range(tool.props)
            /\ \A args \in Arguments[tool.name] : DOMAIN args \subseteq Range(tool.props)
  /\ \A lines \in Prefaces : \A l \in Range(lines) : Kind(l) # "open"
  /\ \A lines \in Prefaces \cup UNION {Range(args) : args \in Meant} : \A l \in Range(lines) :
       (Kind(l) = "close" => l[2] \in Nat) /\ (Kind(l) = "json" => l[4] \notin Meant)

VARIABLES stage, data

vars == <<stage, data>>

Nothing == [none |-> TRUE]
Init == stage = "idle" /\ data = Nothing

To(next, what) == stage' = next /\ data' = what
Answered(reply) == To("over", [reply |-> reply])

\* A request comes to the embedded app or to the server.
Arrive ==
  /\ stage = "idle"
  /\ \E r \in HttpRequests, served \in BOOLEAN, prompts \in BOOLEAN :
       LET reply == IF served THEN Served(r, DOMAIN PROFILES, prompts) ELSE Embedded(r, DOMAIN PROFILES, prompts)
       IN  IF reply # Handled THEN Answered(reply)
           ELSE \/ To("admitted", [route |-> IF r.path = "/v1/messages" THEN "anthropic" ELSE "openai",
                                   profile |-> r.profile])
                \/ /\ r.path = "/v1/messages"
                   /\ \E ask \in Asks : To("upstream", [u |-> Opened, given |-> <<>>, model |-> MapUpstreamModel(ask.name)])

\* The first part of produceCompletion: the profile, the registry of the client's tools,
\* the model, rerouted if its tone is out, and the system prompt, or a refusal.
Choose ==
  /\ stage = "admitted"
  /\ \E setting \in Settings, ask \in Asks, open \in Outages :
       LET custom == CustomAliases(setting.files, setting.aliases)
           profiles == ResolveProfile(data.profile, setting.profile)
           name == Reroute(open, NameFor(data.route, custom, ask.name))
           found == TurnModel(data.route, custom, open, ask.name)
           prompt == SystemPrompt(ask.prompt, setting.prompt, setting.routes, PromptIndex(setting.corpora), setting.disk, name)
           \* an Anthropic client's images are looked up by the name it gave
           images == ask.vision /\ data.route = "anthropic" /\ ImagesSent(custom, ask.name)
       IN  IF profiles = {} \/ DefinitionErrors(ask.tools) # {} \/ found = {} \/ prompt = Refused
           THEN Answered(BadRequest)
           ELSE To("chosen", [route |-> data.route, custom |-> custom, name |-> ask.name, open |-> open,
                              model |-> The(found), prompt |-> prompt, images |-> images,
                              visible |-> LET shown == SelectSeq(ask.tools, LAMBDA t : ToolAllowed(t.name, The(profiles)))
                                          IN  [i \in DOMAIN shown |-> shown[i].name]])

\* The messages become the prompt of a first turn, and the delta of a later one, whose
\* first message M365 has seen.  An Anthropic client's history is converted first.
Prompted(history, messages, tools, choice, single) ==
  \E framing \in Framings, inject \in BOOLEAN :
    To("prompted", [route |-> data.route, history |-> history, messages |-> messages,
                    prompt |-> FormatMessages(messages, tools, choice, framing, inject),
                    delta |-> FormatDelta(Tail(messages)), single |-> single])

Format ==
  /\ stage = "chosen"
  /\ \E choice \in ToolChoices, disabled \in BOOLEAN :
       LET tools == data.visible IN
       \/ /\ data.route = "anthropic"
          /\ \E h \in Histories :
               Prompted(h, ToOpenAI(<<>>, h), tools, MapToolChoice(choice), RequestsSingleToolUse(tools, choice, disabled))
       \/ /\ data.route = "openai"
          /\ \E messages \in Messages : Prompted(<<>>, messages, tools, MapToolChoice(choice), FALSE)

Ship == stage = "prompted" /\ To("sent", [route |-> data.route, single |-> data.single])

Parsed(tools, lines, meant, parsed) ==
  To("parsed", [route |-> data.route, single |-> data.single, tools |-> tools,
                meant |-> meant, full |-> lines, parsed |-> parsed])

\* M365 answers with a call it means, laid out as the prompt teaches it.
AnswerCall ==
  /\ stage = "sent"
  /\ \E tools \in Catalogs, preface \in Prefaces, ticks \in 3..4 : \E tool \in Range(tools) :
       \E args \in Arguments[tool.name] :
         LET lines == preface \o WithTicks(RenderFencedCall(FenceSpec(tool), args), ticks)
         IN  Parsed(tools, lines, <<[tool |-> tool, args |-> args, ticks |-> ticks]>>, ParseToolCalls(lines, tools))

\* Or with anything else.
AnswerFreely ==
  /\ stage = "sent"
  /\ \E tools \in Catalogs, lines \in Answers : Parsed(tools, lines, <<>>, ParseToolCalls(lines, tools))

\* A refusal of the model makes the proxy look around in its stead.
Orient ==
  /\ stage = "sent"
  /\ \E tools \in Catalogs, choice \in ToolChoices : \E call \in OrientationCall(tools, MapToolChoice(choice)) :
       Parsed(tools, EmptyText, <<>>, [calls |-> <<call>>, text |-> <<>>])

\* The end of produce, and what a refusal becomes on each route.
Deliver ==
  /\ stage = "parsed"
  /\ LET result == Produced(data.parsed, data.full, data.tools, data.single) IN
     IF result.kind # "error" THEN To("delivered", [tools |-> data.tools, parsed |-> data.parsed, result |-> result])
     ELSE \E streaming \in BOOLEAN :
            Answered(Told(data.route, streaming, Reply(result.status, "invalid_request_error")))

\* The turn fails: an error is thrown, or the answer stays empty.
Fail ==
  /\ stage = "sent"
  /\ \E streaming \in BOOLEAN :
       \/ \E code \in Codes : To("over", [reply |-> Told(data.route, streaming, Thrown(code)), counted |-> ToAnthropicError(code)])
       \/ \E s \in Signals : To("over", [reply |-> Told(data.route, streaming, GivenUp(s)), class |-> ClassifyFailure(s)])

\* The upstream's answer as a whole, its error, or its stream.
UpstreamAnswers ==
  /\ stage = "upstream" /\ data.given = <<>>
  /\ \/ Answered(Reply(502, "api_error"))
     \/ \E chunk \in Chunks : To("over", [message |-> FromOpenAI(chunk.text, chunk.calls, chunk.finish)])

Chunk ==
  /\ stage = "upstream" /\ Len(data.given) < MaxChunks
  /\ \E chunk \in Chunks :
       To("upstream", [data EXCEPT !.u = HandleChunk(@, chunk), !.given = Append(@, chunk)])

UpstreamEnds == stage = "upstream" /\ To("streamed", [view |-> Finish(data.u), given |-> data.given])

Done == stage \in {"over", "delivered", "streamed"} /\ To("idle", Nothing)

Next == \/ Arrive \/ Choose \/ Format \/ Ship \/ AnswerCall \/ AnswerFreely \/ Deliver \/ Orient \/ Fail
        \/ UpstreamAnswers \/ Chunk \/ UpstreamEnds \/ Done

Spec == Init /\ [][Next]_vars
-----------------------------------------------------------------------------
\* On the way into the prompt no text is lost or moved, every tool result follows the
\* call it answers, and one that came right after it, once, keeps the tool's name: the
\* orphan guard of anthropicMessagesToOpenAI adds calls, it must not put them wrongly.
ResultsNamed ==
  stage = "prompted" /\ data.history # <<>> =>
    LET messages == data.messages
        results == FlattenSeq([i \in DOMAIN data.history |-> Of(data.history[i].content, {"result"})])
        once(id) == Len(SelectSeq(results, LAMBDA b : b[2] = id)) = 1
        parts == SelectSeq(data.prompt, LAMBDA p : p.tag # "tools")
        said == FlattenSeq([i \in DOMAIN data.history |->
                  Texts(Of(data.history[i].content, {"text", "image", "thinking", "result"}))])
    IN  /\ FlattenSeq([i \in DOMAIN parts |-> parts[i].text]) = said
        /\ \A i \in DOMAIN messages : messages[i].role = "tool" => i > 1 /\ Calls(messages[i - 1], messages[i].id)
        /\ \A i \in 2..Len(data.history) : \A b \in Range(data.history[i - 1].content) :
             LET next == Of(data.history[i].content, {"text", "image", "result"}) IN
             b[1] = "use" /\ next # <<>> /\ next[1][1] = "result" /\ next[1][2] = b[2] /\ once(b[2]) =>
               \E p \in Range(parts) : p.tag = "tool_response" /\ p.tool = b[3] /\ p.text = <<next[1][3]>>

\* A call laid out in a fence is the one call found in the answer, with the very arguments
\* that were meant, unless they are of the few kinds that FenceCarries names; those never
\* come back the same (parseFencedToolCalls against renderFencedCall).
FencesCarry ==
  stage = "parsed" /\ data.meant # <<>> =>
    LET meant == data.meant[1]
        call == [name |-> meant.tool.name, args |-> meant.args]
    IN  data.parsed.calls = <<call>> <=> FenceCarries(FenceSpec(meant.tool), meant.args, meant.ticks)

\* What the client is given to run is a call of one of its tools, valid for the tool's
\* schema, and the model's own but for values that were moved from names the schema does
\* not have to ones it misses (validateAndRepair, repairBashCommands).
CallsRepaired ==
  stage = "delivered" /\ data.result.kind = "tools" =>
    \A call \in Range(data.result.calls) :
      \E tool \in Range(data.tools), parsed \in Range(data.parsed.calls) :
        /\ tool.name = call.name /\ Validates(tool, call.args)
        /\ OnlyRenamed(tool, RepairBash(parsed), call)

\* A turn has the tone that GET /v1/models advertises for the name asked for, on either
\* route and through all the tables on the way, unless a custom alias hides a model.  Only
\* a model whose tone is out is replaced, and then by the first of its fallbacks that is
\* not, with the tone that is advertised for that one.
Heard(custom, name) == DOMAIN custom \cap DOMAIN CANONICAL_MODELS = {} /\ Resolve(custom, name) # {}
Replaces(open, alt, model) ==
  LET chain == FallbackChain(model) IN
  model \in open /\ \E i \in DOMAIN chain : chain[i] = alt /\ alt \notin open /\ \A j \in 1..(i - 1) : chain[j] \in open
ToneAdvertised ==
  stage = "chosen" /\ Heard(data.custom, data.name) /\ data.name \in AvailableModels(data.custom) =>
    LET tone == ToneFor(data.custom, data.model)
        advertised == Advertised(data.custom)
    IN  \/ tone = advertised[data.name]
        \/ \E alt \in DOMAIN CANONICAL_MODELS :
             Replaces(data.open, alt, The(Resolve(data.custom, data.name))) /\ tone = advertised[alt]

\* However text and the pieces of calls mix in the upstream's chunks, the client's blocks
\* are well formed and closed; each call has a block with all of its arguments in order,
\* and the other blocks have the text (convertOpenAiSseToAnthropic).
StreamFaithful ==
  stage = "streamed" =>
    LET events == data.view.events
        started == {e.block : e \in Range(events)}
        pieces == FlattenSeq([i \in DOMAIN data.given |-> data.given[i].calls])
        slots == {p.slot : p \in Range(pieces)}
        ArgsGiven(slot) == FlattenSeq([i \in DOMAIN pieces |-> IF pieces[i].slot = slot THEN pieces[i].args ELSE <<>>])
        TextGiven == FlattenSeq([i \in DOMAIN data.given |-> data.given[i].text])
        TextOutside(blocks) == FlattenSeq([i \in DOMAIN events |-> IF events[i].block \in blocks THEN <<>> ELSE events[i].text])
    IN  /\ WellNested(data.view) /\ AllClosed(data.view)
        /\ \E block \in Injection(slots, started) :
             /\ \A slot \in slots : ArgsOf(events, block[slot]) = ArgsGiven(slot)
             /\ TextOutside(Range(block)) = TextGiven

(* What the comments say, and the code does not do. *)

\* "Truthfully routed to Claude_Opus (never silently demoted to GPT)": while the tones of
\* both Claude models are out, an Opus turn has a GPT tone.
NeverDemoted ==
  stage = "chosen" /\ Heard(data.custom, data.name) /\ Resolve(data.custom, data.name) = {"claude-opus"} =>
    ToneFor(data.custom, data.model) = "Claude_Opus"
=============================================================================
