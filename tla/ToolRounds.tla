----------------------------- MODULE ToolRounds -----------------------------
(***************************************************************************)
(* How produceCompletion turns what M365 writes into an answer: the first  *)
(* turn, whose prose streams through the guard, then the rounds that       *)
(* follow it in the same conversation (tool search, sub-agents, forced     *)
(* retries), then the checks of the parsed calls, the inline failover and  *)
(* the rendering (packages/proxy-lib/src/handler.ts, subagent.ts,          *)
(* anthropic.ts).                                                          *)
(*                                                                         *)
(* A round is one call of runBuffered; what happens inside it is the       *)
(* business of RetryLoop and TurnPipeline.  What M365 writes is a text and *)
(* what parseToolCalls makes of it, a reply:                               *)
(*   search, task, real, bad, reply  how many calls of each sort: of the   *)
(*        meta-tools ToolSearch and Task, of declared tools with valid     *)
(*        arguments, of undeclared tools or with invalid ones, of "reply"  *)
(*   long   the prose around them has headers or 300 characters            *)
(*   mood   "confab" or "halluc" if looksLikeConfabulation or              *)
(*          looksLikeHallucinatedCompletion matches the prose              *)
(***************************************************************************)
EXTENDS ToolSurface, StreamRender

CONSTANTS
  FirstTexts,    \* texts a first turn can stream
  LaterTexts,    \* texts of the other rounds
  Replies,       \* what parseToolCalls can return
  Tasks,         \* TASK_DEF is there: sub-agents are enabled and the profile has them
  SearchRounds,  \* 2
  TaskRounds,    \* 4
  ForceRetries,  \* maxConfabRetries
  SubTurns,      \* SUB_MAX_TURNS
  MostTasks,     \* bound: the Task calls of one reply, which the code does not limit
  Found,         \* what earlier requests of the conversation may have promoted
  Requests       \* what a request can be: streaming, tools, history, stop sequences

\* parsed.hasToolCalls
Calls(r) == r.search + r.task + r.real + r.bad + r.reply
NoReply == [search |-> 0, task |-> 0, real |-> 0, bad |-> 0, reply |-> 0, long |-> FALSE, mood |-> "plain"]
NoAnswer == [kind |-> "none", text |-> <<>>, calls |-> NoReply, disengaged |-> FALSE]

ReplyType == [search : Nat, task : Nat, real : Nat, bad : Nat, reply : Nat, long : BOOLEAN,
              mood : {"plain", "confab", "halluc"}]
RequestType == [live : BOOLEAN, single : BOOLEAN, tools : BOOLEAN, acted : BOOLEAN, orient : BOOLEAN,
                stops : SUBSET Letters]

ASSUME RoundsAssumption ==
  /\ Replies \subseteq ReplyType /\ Requests \subseteq RequestType
  /\ Tasks \in BOOLEAN /\ {SearchRounds, TaskRounds, ForceRetries} \subseteq Nat
  /\ SubTurns \in Nat \ {0}
  /\ MostTasks \in Nat /\ \A r \in Replies : r.task <= MostTasks
  /\ FirstTexts \cup LaterTexts \subseteq Seq(Letters)
  /\ Found \subseteq SUBSET Range(Catalog)
  /\ \A r \in Requests : r.stops # {} => ~r.live  \* onTextDelta is undefined then

VARIABLES
  req,       \* [live, single, tools, acted, orient, stops]
  pc,        \* "idle", "round", "parsed", "subagent", "done"
  phase,     \* the loop the round belongs to: "first", "search", "task", "force"
  depth,     \* 1 after the inline failover
  aborted,   \* cb.signal
  promoted,  \* conv.promotedTools
  deferred,  \* deferredCatalog
  text,      \* fullText: of the round that arrived last
  arrived,   \* how much of the first turn's text the caller has seen
  guard, streamed, sent,
  reply,     \* parsed
  kept,      \* the calls to fall back on if the round fails
  searches, tasks, forced,  \* rounds used
  job,       \* the running sub-agent: [left, turn, recovery]
  produced, view,
  rounds,  \* history: calls of runBuffered
  agents,  \* history: Task calls taken up
  turns    \* history: turns of sub-agents

streamVars == <<arrived, guard, streamed, sent>>
countVars == <<searches, tasks, forced, job>>
subVars == <<agents, turns>>
vars == <<req, pc, phase, depth, aborted, promoted, deferred, text, streamVars, reply, kept,
          countVars, produced, view, rounds, subVars>>

NoJob == [left |-> 0, turn |-> 0, recovery |-> FALSE]

Init ==
  /\ req \in Requests /\ pc = "idle" /\ phase = "first" /\ depth = 0 /\ aborted = FALSE
  /\ promoted \in Found /\ deferred = {} /\ text = <<>> /\ arrived = 0 /\ guard = Closed /\ streamed = <<>> /\ sent = <<>>
  /\ reply = NoReply /\ kept = NoReply /\ searches = 0 /\ tasks = 0 /\ forced = 0 /\ job = NoJob
  /\ produced = NoAnswer /\ view = NoEvents /\ rounds = 0
  /\ agents = 0 /\ turns = 0
-----------------------------------------------------------------------------
\* Whether the reply can mention the meta-tools: they were declared to the parser.
Parsed(r) ==
  /\ r \in Replies
  /\ req.tools \/ Calls(r) = 0
  /\ r.task > 0 => Tasks
  /\ r.search > 0 => deferred # {} \/ Tasks \/ phase = "search"

\* produceCompletion begins, or begins again on another model: what is not shown
\* of the client's tools is what ToolSearch looks through.
Start0 ==
  /\ deferred' = Deferred(promoted')
  /\ pc' = "round" /\ phase' = "first" /\ rounds' = rounds + 1
  /\ text' \in FirstTexts /\ arrived' = 0 /\ guard' = Closed /\ streamed' = <<>>
  /\ reply' = NoReply /\ kept' = NoReply
  /\ searches' = 0 /\ tasks' = 0 /\ forced' = 0 /\ job' = NoJob
  /\ UNCHANGED subVars

Begin ==
  /\ pc = "idle" /\ UNCHANGED promoted /\ Start0
  /\ UNCHANGED <<req, depth, aborted, sent, produced, view>>

\* The caller hears a delta of the first turn.
Arrives(n) ==
  LET delta == SubSeq(text, arrived + 1, arrived + n)
      step == IF req.tools THEN Forward(guard, delta) ELSE [guard |-> guard, out |-> delta]
  IN
  /\ pc = "round" /\ phase = "first" /\ arrived + n <= Len(text)
  /\ arrived' = arrived + n
  /\ guard' = step.guard /\ streamed' = streamed \o step.out
  /\ IF req.live /\ step.out # <<>>
     THEN sent' = sent \o step.out /\ view' = TextDelta(view, step.out)
     ELSE UNCHANGED <<sent, view>>
  /\ UNCHANGED <<req, pc, phase, depth, aborted, promoted, deferred, text, reply, kept, countVars, produced,
                 rounds, subVars>>

\* runBuffered returns a text, and parseToolCalls reads it.  The first round's is
\* what was streamed, or the answer it diverged from if that is longer.
RoundEnds ==
  /\ pc = "round"
  /\ IF phase = "first"
     THEN arrived = Len(text) /\ text' \in {text} \cup {t \in FirstTexts : Len(t) > Len(text)}
     ELSE text' \in LaterTexts
  /\ reply' \in {r \in Replies : Parsed(r)}
  /\ pc' = "parsed" /\ guard' = Closed /\ arrived' = 0
  /\ searches' = IF phase = "search" THEN searches + 1 ELSE searches
  /\ tasks' = IF phase = "task" THEN tasks + 1 ELSE tasks
  /\ kept' = NoReply
  /\ UNCHANGED <<req, phase, depth, aborted, promoted, deferred, streamed, sent, forced, job, produced, view,
                 rounds, subVars>>

\* The next round, with what to do if it fails.
NextRound(p, fallback) ==
  /\ pc' = "round" /\ phase' = p /\ kept' = fallback /\ rounds' = rounds + 1
  /\ UNCHANGED <<req, depth, aborted, text, streamVars, reply, produced, view>>

\* while (parsed.hasToolCalls && searchRounds < 2): the searches are answered,
\* the other calls of the reply are set aside.
Searching ==
  /\ pc = "parsed" /\ phase \in {"first", "search"}
  /\ reply.search > 0 /\ searches < SearchRounds

ToolSearch ==
  /\ Searching
  /\ \E M \in Matches(deferred) : promoted' = promoted \cup M
  /\ NextRound("search", [reply EXCEPT !.search = 0])
  /\ UNCHANGED <<deferred, countVars, subVars>>

\* while (... && taskRounds < 4 && TASK_DEF): the tasks run one after another.
Delegating ==
  /\ pc = "parsed" /\ ~Searching /\ phase # "force"
  /\ reply.task > 0 /\ Tasks /\ tasks < TaskRounds

Delegate ==
  /\ Delegating
  /\ pc' = "subagent" /\ job' = [left |-> reply.task, turn |-> 0, recovery |-> FALSE]
  /\ agents' = agents + 1
  /\ UNCHANGED <<req, phase, depth, aborted, promoted, deferred, text, streamVars, reply, kept, searches,
                 tasks, forced, produced, view, rounds, turns>>

\* A sub-agent is over: the next one, or the round that carries the reports.
JobOver ==
  IF job.left > 1
  THEN /\ job' = [left |-> job.left - 1, turn |-> 0, recovery |-> FALSE] /\ agents' = agents + 1
       /\ UNCHANGED <<req, pc, phase, depth, aborted, text, streamVars, reply, kept, produced, view, rounds>>
  ELSE /\ job' = NoJob /\ UNCHANGED agents
       /\ NextRound("task", [reply EXCEPT !.task = 0])

\* One turn of runSubAgent: tool calls, a refusal, a report, or a failure.
SubTurn_ForgetsTurn(says) ==
  /\ pc = "subagent" /\ ~aborted
  /\ LET again == \/ says = "tools"
                  \/ says = "refusal" /\ job.turn < SubTurns - 1 /\ ~job.recovery
     IN  IF again /\ job.turn < SubTurns - 1
         THEN /\ job' = [job EXCEPT !.turn = IF says = "tools" THEN @ + 1 ELSE @, !.recovery = says = "refusal"]
              /\ UNCHANGED <<req, pc, phase, depth, aborted, text, streamVars, reply, kept, produced, view, rounds,
                             agents>>
         ELSE JobOver
  /\ turns' = turns + 1
  /\ UNCHANGED <<promoted, deferred, searches, tasks, forced>>
SubTurn(says) ==
  /\ pc = "subagent" /\ ~aborted
  /\ LET again == \/ says = "tools"
                  \/ says = "refusal" /\ job.turn < SubTurns - 1 /\ ~job.recovery
     IN  IF again /\ job.turn < SubTurns - 1
         THEN /\ job' = [job EXCEPT !.turn = @ + 1, !.recovery = says = "refusal"]
              /\ UNCHANGED <<req, pc, phase, depth, aborted, text, streamVars, reply, kept, produced, view, rounds,
                             agents>>
         ELSE JobOver
  /\ turns' = turns + 1
  /\ UNCHANGED <<promoted, deferred, searches, tasks, forced>>

\* "(cancelled before start)", or session.run refuses the aborted signal.
SubCancelled ==
  /\ pc = "subagent" /\ aborted /\ JobOver
  /\ UNCHANGED <<promoted, deferred, searches, tasks, forced, turns>>

\* The forced retries: no call, but prose that claims inability or success.
Confab == reply.mood = "confab"
Halluc == reply.mood = "halluc" /\ ~req.acted
Forcing ==
  /\ pc = "parsed" /\ req.tools /\ Calls(reply) = 0 /\ forced < ForceRetries
  /\ Confab \/ Halluc

\* makeOrientationToolCall guesses the arguments: the registry may refuse the call.
Orientations == {[NoReply EXCEPT !.real = 1], [NoReply EXCEPT !.bad = 1]}

\* A read-only call of the client's own tools instead of another message.
Orient ==
  /\ Forcing /\ Confab /\ req.orient
  /\ reply' \in Orientations
  /\ UNCHANGED <<req, pc, phase, depth, aborted, promoted, deferred, text, streamVars, kept, countVars,
                 produced, view, rounds, subVars>>

ForceCall ==
  /\ Forcing /\ ~(Confab /\ req.orient)
  /\ forced' = forced + 1
  /\ NextRound("force", NoReply)
  /\ UNCHANGED <<promoted, deferred, searches, tasks, job, subVars>>
-----------------------------------------------------------------------------
Text(t) == [kind |-> "text", text |-> t, calls |-> NoReply, disengaged |-> FALSE]
Tools(calls) ==
  [kind |-> "tools", text |-> Carried(text, streamed), calls |-> calls, disengaged |-> FALSE]
Error(disengaged) == [kind |-> "error", text |-> <<>>, calls |-> NoReply, disengaged |-> disengaged]

\* isProseDocument, called without the known names.
IsProseDocument == Calls(reply) >= 2 /\ (Calls(reply) >= 4 \/ reply.long)

\* One call per turn, if the client or the profile wants it: of the sort that comes first.
OneOf(r) ==
  {[NoReply EXCEPT ![f] = 1] : f \in {g \in {"search", "task", "real", "bad"} : r[g] > 0}}

Validated_Unknown(r) == IF r.bad > 0 THEN Error(FALSE) ELSE Tools(r)
Validated(r) == IF r.bad + r.search + r.task > 0 THEN Error(FALSE) ELSE Tools(r)

\* The document guard, the reply tool, one call per turn, the registry.
Outcomes ==
  IF Calls(reply) = 0 \/ IsProseDocument THEN {Text(Trim(text))}
  ELSE IF reply.reply > 0 /\ Calls(reply) = reply.reply THEN {Text(<<"q">>)}
  ELSE LET calls == [reply EXCEPT !.reply = 0] IN
       {Validated(r) : r \in IF req.single /\ Calls(calls) > 1 THEN OneOf(calls) ELSE {calls}}

\* The renderer writes the end of the answer.
Rendered(p) ==
  \E thinking \in BOOLEAN :
    view' = CASE p.kind = "text" -> RenderText(view, sent, ApplyStopSequences(p.text, req.stops), thinking)
              [] p.kind = "tools" -> RenderTools(view, sent, p.text, Calls(p.calls), thinking)
              [] p.kind = "error" -> RenderError(view, p.disengaged)

\* The locals of produce() are gone.
Finish(p) ==
  /\ pc' = "done" /\ produced' = p /\ Rendered(p)
  /\ phase' = "first" /\ text' = <<>> /\ reply' = NoReply /\ kept' = NoReply
  /\ searches' = 0 /\ tasks' = 0 /\ forced' = 0 /\ job' = NoJob
  /\ arrived' = 0 /\ guard' = Closed /\ streamed' = <<>>
  /\ UNCHANGED <<req, depth, aborted, promoted, deferred, sent, rounds, subVars>>

Answer ==
  /\ pc = "parsed" /\ ~Searching /\ ~Delegating /\ ~Forcing
  /\ \E p \in Outcomes : Finish(p)

\* A round fails: the calls set aside are used if there are any, without the prose
\* that was around them.
FallBack ==
  /\ pc = "round" /\ phase \in {"search", "task"} /\ Calls(kept) > 0
  /\ reply' = [kept EXCEPT !.long = FALSE, !.mood = "plain"] /\ pc' = "parsed"
  /\ phase' = IF phase = "search" THEN "task" ELSE "force"
  /\ UNCHANGED <<req, depth, aborted, promoted, deferred, text, streamVars, kept, countVars, produced, view,
                 rounds, subVars>>

Failed ==
  /\ pc = "round" /\ (phase \in {"search", "task"} => Calls(kept) = 0)

RoundFails(disengaged) == Failed /\ Finish(Error(disengaged))

\* The tone is out: produceCompletion calls itself with a fallback model, whose
\* conversation is another one, perhaps with searches of its own behind it.
Failover ==
  /\ Failed /\ depth = 0 /\ depth' = 1
  /\ promoted' \in Found /\ Start0
  /\ UNCHANGED <<req, aborted, sent, produced, view>>

\* The caller goes away; between sub-agents and their turns somebody looks.
\* (That a turn is not sent any more is the business of ChatTurn.)
Abort ==
  /\ pc = "subagent" /\ ~aborted /\ aborted' = TRUE
  /\ UNCHANGED <<req, pc, phase, depth, promoted, deferred, text, streamVars, reply, kept, countVars,
                 produced, view, rounds, subVars>>

Done == pc = "done" /\ UNCHANGED vars

Next ==
  \/ Begin \/ (\E n \in 1..Len(text) : Arrives(n)) \/ RoundEnds
  \/ ToolSearch \/ Delegate \/ (\E says \in {"tools", "refusal", "report"} : SubTurn(says)) \/ SubCancelled
  \/ Orient \/ ForceCall \/ Answer \/ FallBack \/ (\E d \in BOOLEAN : RoundFails(d)) \/ Failover
  \/ Abort \/ Done

Spec == Init /\ [][Next]_vars
-----------------------------------------------------------------------------
\* Every variable has its type (RoundBudget has the counters'), and no loop runs more
\* often than it may.
TypeOK ==
  /\ req \in Requests /\ pc \in {"idle", "round", "parsed", "subagent", "done"}
  /\ phase \in {"first", "search", "task", "force"} /\ depth \in 0..1 /\ aborted \in BOOLEAN
  /\ promoted \cup deferred \subseteq Range(Catalog) /\ arrived \in Nat
  /\ {text, streamed, sent, guard.pending} \subseteq Seq(Letters) /\ guard.hit \in BOOLEAN
  /\ {reply, kept, produced.calls} \subseteq ReplyType
  /\ searches \in 0..SearchRounds /\ tasks \in 0..TaskRounds /\ forced \in 0..ForceRetries
  /\ job.left \in Nat /\ job.turn \in 0..(SubTurns - 1)
  /\ produced.kind \in {"none", "text", "tools", "error"}

\* guardForward never lets a tool call's text through, however the deltas are
\* cut: what was forwarded lies before the first fence of the answer it is
\* taken from, and nothing of that answer is lost or repeated ("We never
\* retract: only prose that is provably outside any fence is forwarded").
GuardedProse ==
  req.tools /\ phase = "first" /\ pc = "round" =>
    /\ IsPrefix(streamed, IF Fence(text) = 0 THEN text ELSE SubSeq(text, 1, Fence(text) - 1))
    /\ guard.hit \/ streamed \o guard.pending = SubSeq(text, 1, arrived)

\* The blocks of a streamed Anthropic message are well formed at any moment,
\* and none stays open when the message ends, whether the answer is text,
\* calls or an error and whatever was streamed before it.
BlocksSound == WellNested(view) /\ (pc = "done" => AllClosed(view))

\* What the client has read is never taken back, and in the end it contains
\* the whole answer although the answer may come from another round or another
\* model than the prose that streamed ("re-send authoritatively").
Delivered ==
  /\ IsPrefix(sent, TextOf(view))
  /\ pc = "done" /\ produced.kind \in {"text", "tools"} =>
       LET final == ApplyStopSequences(produced.text, IF produced.kind = "text" THEN req.stops ELSE {})
           read == TextOf(view)
       IN  \E i \in 0..(Len(read) - Len(final)) : SubSeq(read, i + 1, i + Len(final)) = final

\* The client is only asked to run tools of its own that passed the registry,
\* never ToolSearch ("must never reach the client as a tool_use block") nor
\* Task ("the client never sees a Task tool_use"), whichever loop gave up first.
MetaNeverLeaks ==
  produced.kind = "tools" =>
    LET c == produced.calls IN c.search = 0 /\ c.task = 0 /\ c.bad = 0 /\ c.reply = 0 /\ c.real > 0

\* What one request costs, however long the model searches, delegates and refuses
\* and although the failover starts over: its own rounds are bounded, and so are the
\* sub-agents by the Task calls a reply may have, and the turns of each of them
\* ("Bounded by M365_SUBAGENT_TURNS"; the Task calls of a reply are not limited).
RoundBudget ==
  /\ TypeOK /\ {agents, turns} \subseteq Nat
  /\ rounds <= (depth + 1) * (1 + SearchRounds + TaskRounds + ForceRetries)
  /\ agents <= MostTasks * (TaskRounds * (depth + 1))
  /\ turns <= SubTurns * agents

\* Whatever was promoted by then, the tools M365 is shown keep the control
\* tools, respect the cap and have what was found, as far as the code can.
SurfaceSound == SurfaceSoundFor(promoted)

(* What the comments say, and the code does not do. *)

\* In the stream of handleChatCompletion the client ends up with the text of
\* the answer, up to white space at its ends ("so the holdback tail arrives
\* as a tiny closing delta").
ClientSeesAnswer ==
  pc = "done" /\ produced.kind = "text" /\ req.live =>
    Trim(OpenAIText(sent, produced.text)) = produced.text
=============================================================================
