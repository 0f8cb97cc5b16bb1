# A verification project for m365-copilot-proxy-claude

The program is a local proxy that serves the OpenAI and Anthropic chat APIs and
answers them from Microsoft 365 Copilot. A client sends its whole message history
with every request; M365 keeps the conversation on its side. The proxy keeps the two
in step, paces what it sends, retries what fails, translates tool calls to and from
Markdown fences and streams what comes back. It is one Node.js process: code runs one
callback at a time, and everything that can go wrong between two callbacks is an
interleaving of promises, timers, socket events and requests.

The modules here are read off the TypeScript under `src/packages/core/src`,
`src/packages/proxy-lib/src` and `src/packages/proxy`; file names without a path below
are in one of them. `PROJECT.json` lists the runs, the theorems, the hazards and the
source lines each definition stands for.

## 1. Inventory

| Component | Source | State | Operations | Hard part | Correct when |
|---|---|---|---|---|---|
| Turn gate | `gate.ts` | `inflight`, `lastStartAt`, `seen`, waker set, a timer per sleeper | `run` = acquire, fn, release | wakers, timers and new callers race for a slot; two clock reads per attempt | the count is exact, first turns are spaced, nobody sleeps for ever |
| Turn queue | `turn-queue.ts` | the tail promise, a counter | `enqueueTurn`, bypass by environment variable | there is no queue, only chained promises; rejections; bypassing calls | it behaves as a FIFO queue whose turns all run |
| Chat turn | `session.ts`, `model.ts` 196-280 | socket, handshake, delta queue, stream end, watchdog, abort signal | `chat`, `run`, the async iterator, `ws` callbacks | any order of socket events, timers, abort and pulls | no delta lost, no text streamed twice, errors surface, cancelled turns cost nothing, silent turns end |
| Model session | `model.ts` | conversation id, turn counter, cached agent | `run`, `reset`, `newConversation`, `refreshAgent` | two requests of one session | see session pool and agent provisioning |
| Session pool | `handler.ts` 295-419, 747-767, 1011-1014 | fingerprint -> session, `sentMessageCount`, last use | `resolve`, eviction, persist, commit | the prompt is computed long before it is sent; other requests, resets and evictions come between | M365 was told what the proxy believes it was told |
| Session store | `session-store.ts` | in-memory map, JSON file or SQLite table | `get`, `set`, `delete`, `prune`, `flush`, `close` | crash between answer and flush, failed flush, unflushed delete, expiry, capacity, change of backend | a process answers with the last record or none, and the next one finds what was kept |
| Completion retries | `handler.ts` 791-971 (`runBuffered`) | attempt, free retry used, agent refreshed, text of the next turn | one turn and its classification | three kinds of retry share one loop | bounded number of messages; a request ends unless M365 or a dead socket holds its turn |
| Tone health, failover | `health.ts`, `handler.ts` 587-623, 960-968, 1290-1301 | breaker per model | `recordSuccess`, `recordFailure`, `status`, `shouldRouteAway`, reroute, inline failover | asking a breaker claims its probe; concurrent requests, several rounds each | one probe per opening among those that can go elsewhere; opens and closes on the evidence |
| Degradation backoff | `auth-recovery.ts` | recent empties per conversation, level, until | note, wait | check and act are apart; reports come in any order | bounded naps, no stacking, fresh evidence only |
| Tool mode | `handler.ts` 640-760, 1032-1300, `subagent.ts`, `tool-registry.ts` | round counters, promoted tools, the sub-agents' turns | which tools are shown, tool search, sub-agents, forced retries, orientation, validation and repair | rounds share one request and its stream, each loop may give up first | rounds, sub-agents per delegated job and their turns are bounded; the client is given real calls of its own tools only |
| SSE rendering | `handler.ts` 985-1010, 1372-1438, `upstream.ts`, `anthropic.ts` | hold-back buffer, block index | `guardForward`, both renderers, the pass-through converter | partial tags at chunk ends, prose streamed before the answer is known | no call leaks as prose, blocks nest, the answer arrives |
| Authentication | `auth.ts` | token cache, in-flight acquisitions | get, refresh, device code, automated login | concurrent callers, expiry, a flight that fails | one login at a time, no poisoned flight |
| Agent provisioning | `agent.ts`, `model.ts` 165-194, 282-310 | id cache, in-flight promise, cache file | get or create, refresh | six calls, each may fail after others changed the tenant; refreshes beside the first resolution | one agent, and a refresh finds one that exists |
| Application and routes | `index.ts`, `handler.ts`, `errors.ts`, `packages/proxy` | configuration, the pool | routing, client authentication, the replies to failures | three layers decide on one failure | who may not ask is refused, and a failure keeps its class |
| Registry, profiles, prompts | `copilot.ts`, `model-registry.ts`, `profiles.ts`, `model-prompts.ts`, `prompts.ts` | tables | look-ups, validation | four tables of names, looked up on both routes, some twice | a turn has the tone that is advertised, for its name or for the fallback that stands in |
| Tool-call formats | `fenced.ts`, `tools.ts`, `anthropic.ts` 200-330 | none | histories to prompts, calls to fences and back | bodies that hold what the format is made of; results that are orphaned | nothing is lost, a call comes back as it was meant |
| Copilot clients, images, vision, native actions | `copilot.ts`, `image.ts`, `vision.ts`, `native-actions.ts` | none | HTTP calls, conversion | I/O | |
| Test transport, calibration, log | `fake.ts`, `calibrate.ts`, `log.ts` | none | | | |
| OpenClaw plugin, launchers, scripts, nix | `packages/openclaw-plugin`, `bin`, `scripts`, `nix` | none | | outside the core | |

How they interact. A request is admitted, given a model, a profile and a system
prompt, routed by the breakers and resolved to a session by the pool. Its history is
turned into a prompt (everything, or only what is new), with the tools M365 is shown,
and handed to `runBuffered`. That waits for the backoff once; each attempt then joins
the queue; the queue's active turn enters the gate; in the gate `ModelSession.run` gets
a token and, for tools, the tenant's agent, and calls `chat`, which resolves as soon as
the chat frame is out; queue and gate are released and the stream is drained outside of
both, its prose passing the guard to the client. What came back decides between answer,
retry, rotation to a new conversation, agent refresh, failure and failover; success is
committed to the pool and persisted; failures are recorded in breaker and backoff. In
tool mode an answer may be followed by more rounds in the same conversation before it
is parsed, repaired, validated and rendered. With a generic upstream configured, none
of this happens: its stream is converted chunk by chunk.

## 2. Modules

Concurrency and pacing:

| Module | Models | State and actions |
|---|---|---|
| `TurnGate` | the gate | the class's fields plus a program counter per caller; `Call` (`run` up to its first suspension), `Resume` (the loop goes round), `TimerFires`, `Finish` (fn settles, `release` wakes the head), `Tick` |
| `SerialQueue` | the promise of the queue | an abstract FIFO queue with one active turn |
| `TurnQueue` | the promise chain | `tail`, what each turn was chained on, the counter; `EnqueueTurn`, `RunAtOnce`, `Start`, `Settle`, `Uncount` (the `finally` handler) |
| `RetryLoop` | what `runBuffered` does with the end of a turn | the operator `Verdict` |
| `TurnPipeline` | requests through retries, queue and gate | instantiates `TurnGate` and `SerialQueue`, uses `Verdict`; `Enqueue`, `Begin`, `Resume`, `TimerFires`, `Sent`, `Refused`, `Hang` (nothing settles `session.run` any more), `Stall` (silence after the first content), `StreamEnds`, `Tick` |
| `Backoff` | the backoff controller and the requests that ask it | `WaitForSlot`, `Wake`, `Report` (`NoteClean`, `NoteEmpty` or neither), `BackoffTick` |
| `ToneHealth` | the breaker's operations as functions on a map of records | `AfterSuccess`, `AfterFailure`, `Status`, `RouteAway`, `Claimed` |
| `ToneRouting` | requests routed by the breakers | the stage says which loop's round a request is in; `Begin` (reroute at the start), `Content`, `Outage`, `KeepCalls` (a lost round whose calls are kept), `OtherFailure`, `Failover`, `GiveUp`, `Tick` |

Turns and what they need:

| Module | Models | State and actions |
|---|---|---|
| `ChatTurn` | one `ModelSession.run`: at most two calls of `chat` | socket state, handshake, promise, watchdog, delayed closes, folded answer, delta queue, caller; one action per `ws` callback, timer, abort, pull and call |
| `TokenFlights` | `getToken` and `getTokenForScope`: shared flights | a flight per scope, its attempt, who joined; `Ask`, `SilentEnds`, `InteractiveEnds`, `BrowserEnds`, `PauseEnds` |
| `TurnAccess` | the token and the agent of a turn | the tenant's agents, the cache file, each provisioning run and its target, each session's cached id; one action per call of `getOrCreateAgent`, the resolution, the refresh, and somebody who deletes agents; uses `TokenFlights` |

What M365 was told:

| Module | Models | State and actions |
|---|---|---|
| `Conversation` | one fingerprint in pool, session, store and M365, over restarts | what each M365 conversation was told, sessions, store record in memory and on disk, a request per slot; one action per branch of `resolve`, per end of a turn, per agent event, eviction, flush and restart; uses `Verdict` |
| `StoreMaps` | maps from keys to records, expiry, eviction | operators |
| `RecordStore` | what a session store promises | the live and the kept map, the last answer; `Get`, `Put`, `Delete`, `Keep`, `Stop`, `Start`, `Tick` |
| `SessionStore` | both backends at one path | the file and its format, the backend, the JSON backend's cache and whether it is loaded; one action per operation and backend, the two openings, `Flush`, `Close`, `Crash`, `Tick` |

Answers and conversions:

| Module | Models | State and actions |
|---|---|---|
| `ToolSurface` | which tools M365 is shown | operators: allow-list, promotion, cap, control tools, what is left to search |
| `StreamRender` | the guard that forwards prose and the renderers of both routes | operators on texts of letters and on sequences of events |
| `ToolRounds` | the rounds of `produceCompletion` after the first turn | the streamed turn and its guard, round counters, a sub-agent's job, what the client has read; `Begin`, `Arrives`, `RoundEnds`, `ToolSearch`, `Delegate`, `SubTurn`, `SubCancelled`, `Orient`, `ForceCall`, `Answer`, `RoundFails`, `Failover`, `Abort` |
| `Transcript` | a client's messages to the parts of a prompt | operators: the Anthropic conversion with its orphan guard, framings, full and delta prompts |
| `ToolFence` | the fence format, written and parsed, and stray JSON calls | operators on sequences of lines |
| `CallRepair` | the registry: aliases, validation, shell repairs, orientation, documents | operators on calls |
| `ModelChoice` | names to models, tones, profiles and system prompts | the tables and the lookups on both routes, the reroute of a model whose tone is out among them |
| `UpstreamStream` | the converter of a generic upstream's stream | operators on the converter's state |
| `Selection` | `Array.prototype.filter` and `Map.prototype.set` | two operators that can be reasoned about |
| `Failures` | who may ask, and what is told on a failure | operators |
| `Exchange` | one request's way through the six modules above | a stage and its data; `Arrive`, `Choose`, `Format`, `Ship`, `AnswerCall`, `AnswerFreely`, `Orient`, `Deliver`, `Fail`, `UpstreamAnswers`, `Chunk`, `UpstreamEnds` |

`MC_*` are the instances for TLC (symmetry sets, constant functions, the enumerated
inputs of `Exchange` and `ToolRounds`), `*Proofs` the theorems of a component or of two
that belong together: `TurnPipelineProofs` (queue and pipeline), `DegradationProofs`
(backoff and breakers), `PersistenceProofs` (tokens, agents and the session store),
`AnswerProofs` (one turn's stream, then the rounds, the tool surface and the rendering)
and `ExchangeProofs` (the conversions), the last two with the lemmas about texts, guards,
blocks and events in `StreamRenderProofs`.

How they compose. `TurnPipeline` composes the gate with the abstract queue, not with
the promise chain: the run `queue` and the theorem `ChainIsSerialQueue` say that the
chain implements it, and `PipelineUsesGate` and `PipelineUsesQueue` that the pipeline
uses gate and queue only as their own specifications allow, so that what is proved of
them holds in it. `Conversation` and `TurnPipeline` share `Verdict`. `ChatTurn`
stands for one step of the other two, `Send` or `Sent`, or `Refused`. `Conversation`
has the part of the store one fingerprint sees; `SessionStore` has all of it. A round of
`ToolRounds` is one request of `TurnPipeline`. `Exchange` and `ToolRounds` share the
events of `StreamRender`; the first has the contents of one answer, the second the order
of many.

Naming. A definition `Name_Variant` in front of `Name` is a faulty variant of it, the
kind of slip an edit of that code could make (a dropped guard, an off-by-one, a missing
reset). No specification uses it. Each property has one that violates it: it documents
what the property is able to notice. History variables are marked in the modules, and
no guard reads them. Where a module ends with formulas under "What the comments say, and
the code does not do", section 5 is about them.

Abstractions:
- Time is relative and in ticks. An age stops growing where the code cannot tell the
  difference (`Gap`, `Cooldown`, `WindowMs`). `ChatTurn` has no clock: an armed timer may
  fire at any moment, which includes every timing the constants of the code allow. That
  a token is about to expire is a choice at every question in `TokenFlights`.
- Texts are sequences over two letters in `ChatTurn`; over five in `StreamRender` and
  `ToolRounds` (prose, white space, a backtick, a header key); sets of messages in
  `Conversation`; sequences of lines in `ToolFence`, a line being what the parser tells
  apart. Formatting, diagnostics, images and chain of thought are left out.
- The outcome of a turn is a nondeterministic choice among those `runBuffered` tells
  apart. M365 is external; `Conversation` assumes that a deleted agent answers with
  nothing and adds nothing to the conversation (the handler's comment at 945-948), and
  that any other turn, empty ones included, leaves its prompt in the conversation (the
  comment on "Please continue." at 959).
- In `ToolRounds` a reply is how many calls of each sort it has, and whether the
  confabulation patterns match its prose: the patterns themselves are words.
- In `Exchange` which breakers route a request away is a choice among `Outages`; when they
  do is in `ToneHealth` and `ToneRouting`.
- In `Conversation` the seven-day TTL and the capacity of the store are left out: one
  fingerprint does not fill it, and `MAX_IDLE_MS` is shorter than the TTL.
- `TurnPipeline` has the queue switched on, and the wait for the degradation backoff
  is part of the time before `Enqueue`, which has no upper bound in safety runs.
- `SessionStore` has one process at a time at the path. `TurnAccess` has one version of
  the agent's instructions, as hosts of one release have.

## 3. Runs

| Run | Instance | What it shows |
|---|---|---|
| `gate` | 3 callers, 3 conversations, limit 2, gap 2, one clock per attempt | `StampedeGuard`: two first turns are a gap apart. `NoStrandedWaiter`: whoever sleeps while nobody holds a slot has a resumption or a timer coming. `GateProgress`: waiting callers get turns started. `GateInv`: the count is the number of holders, and the rest of the inductive invariant |
| `queue` | 4 turns | `ImplementsSerialQueue`: the chain is a FIFO queue whatever rejects or bypasses. `ChainInv`: one line in arrival order, an exact counter. `EveryTurnRuns`: every queued turn runs and leaves the counter |
| `chat` | texts of up to 3 letters of 2 | `NothingDropped`: deltas reach the caller complete and in order. `StreamsOnce`: since the last diverging snapshot the stream gained exactly what the answer did, letter by letter. `ErrorSurfaces`: a failed stream never ends normally. `CancelledNotSent`: a turn cancelled before its frame was sent costs no message. With fairness of the client only, `SilentTurnEnds` and `CancelledTurnEnds` |
| `tone` | 3 requests, 2 tones that fall back to each other, an alias; threshold 2, cooldown 2 | `OneProbe`: of the requests that have a healthy fallback none is sent to an open tone before its cooldown is over and at most one after it, whichever name and round it comes by. `BreakerInv`: open exactly when enough failures were recorded in a row |
| `pipeline` | 2 requests with up to 3 turns each, 2 conversations, limit 2 | `OneConnecting`: queue and gate always agree on the one turn that is connecting. `QuotaBound`: messages sent never exceed attempts plus the one free retry. `EveryRequestEnds`: nobody waits for ever behind a refused turn, a failed one or a stream that stalls; the exceptions are the request of the stalled stream itself, and a turn that hangs in the queue |
| `backoff` | 2 requests over 3 conversations, window 2, threshold 2, cooldowns 1 to 3, jitter 1 to 2 | `FreshEvidence`: the backoff opens or grows only once it is over and on empties of enough conversations reported since the last trigger and the last content. `BackoffInv`: what the controller counts was reported since then, and no nap exceeds the longest cooldown. `PacedStarts`: whoever naps starts, though the backoff may escalate meanwhile |
| `conversation` | 2 overlapping requests, histories up to 2 messages, 2 sessions per process, 2 M365 conversations, 1 retry | `ContextComplete`: whoever answers was told the whole history. `RecordSound`: pool, store and file never believe more than M365 was told |
| `conversation_agent` | 1 request at a time, tools, agents, rotations, 2 retries | `AgentLossRepaired`: what a deleted agent swallowed is sent again, and a rotated conversation gets everything |
| `store` | 3 keys, 2 values, time to live 1, capacity 2, time up to 2 | `ImplementsRecordStore`: both backends, with lazy loading, failed reads and writes, the fallback and crashes, are one abstract store. `Capacity`: no snapshot, nor what is read from one, holds more than it may |
| `access` | 2 requests, 2 sessions, 2 agent ids, 2 browser attempts | `AccessInv`: a flight is under way exactly while somebody waits for it, so that none stays poisoned and no caller is forgotten. `OneAgent`: runs that do not overlap keep one agent. `RefreshHeals`: a refresh ends at an agent that exists, or at none |
| `answer` | 5 tools, 4 of them allowed and 3 shown, 1 search, 1 round of up to 2 tasks with 2 turns each, 1 forced retry, failover, hold-back 2 | `GuardedProse`: what was forwarded lies before the first fence, and nothing is lost or repeated. `BlocksSound`: the events nest and close. `Delivered`: the answer arrives though it may come from another round or model than the prose. `MetaNeverLeaks`: only valid calls of the client's own tools. `RoundBudget`: the request's rounds, the sub-agents for the Task calls it got, and the turns of each of them are bounded. `SurfaceSound`: control tools, the cap, and every promoted tool while the slots suffice, but for the first of two neighbours |
| `text` | the inputs that `MC_Exchange` enumerates, 3 sets of tones that are out, up to 3 chunks of 2 slots | `ResultsNamed`: no text of a history is lost or moved, each result follows its call. `FencesCarry`: which calls come back from a fence as they were meant, exactly. `CallsRepaired`: a repaired call is valid and only renamed. `ToneAdvertised`: the tone used is the one advertised for the name, or for the first healthy fallback of a model whose tone is out. `StreamFaithful`: the generic upstream's text and arguments arrive, each in its block |

Why these bounds. Gate: three callers is the least with a holder, a woken and a
sleeping one at once; three keys the least with two first turns and a third that waits;
a gap of two has a tick in which it is partly over. Queue: four turns have one over, one
active, one waiting and one that bypasses. Chat: three letters give a token, a snapshot
that extends and one that diverges after something was streamed. Tone: two failures
leave a closed breaker with a count, three requests leave one more than the threshold,
so that one can come by each tone's name and one by an alias without fallbacks
(1.9 million states). Pipeline: two retries (one counted, one free) per request, two
requests that compete, so that one waits behind the other's turn, be it sent, refused or
hung.
Backoff: three conversations are one more than the threshold, so that one can report
while the backoff is open; the cooldowns 1, 2 and 3 are the base, its double and one that
is cut at the maximum; a window of two expires partly.
Conversation: two messages give a delta, two sessions give one evicted while used, two
conversation ids a rotation or a replacement.
Store: three keys overflow a capacity of two and leave a choice of what to evict; a time
to live of one within a clock of two has fresh, ageing and expired records at once.
Access: two requests of one session share a resolution, of two sessions a run; two ids
are a deleted and a newly created agent. Answer: each loop can run, be exhausted and give
up to the next, a reply delegates one job or two; a hold-back of two is shorter than a
fence of three backticks, so that one can be cut; three slots hold a control tool and two
promoted neighbours, and there are searches before the request or none (1.7 million
states). Text: no tone is out, or first fallbacks serve, or second ones do, or a whole
chain is out with the model; besides, the inputs have each shape the conversions tell
apart at least once: histories with cut-off, late and repeated results, fences inside of
bodies, all names of all tables.
`MaxLen`, `MaxConvs`, `MaxCids` and `MaxRetries` bound `Conversation`, `MaxLen` bounds
`ChatTurn`, `MaxTime` the clock of `SessionStore`, `Bots` how many agents `TurnAccess`
may create, `MaxChunks` the stream of `Exchange`, `MostTasks` the Task calls of one reply in
`ToolRounds`, which the code does not limit; nothing else is cut, the other models
are finite by themselves.

`CHECK_DEADLOCK FALSE` is where a behaviour ends: the turns of the queue are enqueued
once each, a chat turn is over, each request of `ToneRouting` is made once, the clock of
the store stops. `ToolRounds` and `Exchange` have an explicit `Done`.

Fairness is stated where liveness is checked, and only weak fairness. `TurnGate`,
`TurnPipeline`: the event loop runs resumptions and timers that are due, the clock
advances. `TurnGate` takes it from its callers that they settle, as any lock must.
`TurnPipeline` is about these callers: of `session.run` it is only assumed that it comes to one of its ends, which are
a frame that is out, a refusal, and the hanging promise of section 5; of a stream, that
it ends or stalls. Nothing is assumed about what hangs or stalls, which may stay so: the
watchdog guards only the time before the first content. `TurnQueue`:
microtasks run and each fn settles. `ChatTurn`: the client's own calls, its interval and
timeouts, and the close events of sockets it closed, which the `ws` library forces after
a delay; nothing is asked of the server, the network or the one who may abort.
`Backoff`: time passes and timers fire; the turns of others need not end. `ToneRouting`
states that time passes and a turn that began settles; no client is obliged to send.

Clocks. `NoStrandedWaiter` and the liveness of gate and pipeline hold with
`ClockSlip = 0`, that is, if the two `Date.now()` of one attempt (`gate.ts` 79 and 100)
agree. Section 5 has the case in which they do not.

## 4. Proofs

TLAPS checks these for every value of the constants under the modules' named
assumptions (finite sets of callers, turns and keys, natural numbers where numbers are
meant).

- `TurnGateProofs`: `GateInvariant` proves `GateInv`, from which `TypeCorrect`,
  `SlotsBounded` (if the limit is a number), `NobodyStranded` (if `ClockSlip = 0`) and
  `StampedeGuarded` follow. The count alone is not inductive: that a release wakes a
  caller who is really asleep needs that the waker set has each sleeper exactly once and
  that only sleepers have timers; the stampede guard needs that `lastStartAt` is never
  older than the last first turn, and that whoever entered as a follow-up stays one.
- `TurnPipelineProofs`: `ChainInvariant` proves `ChainInv` (the chain is one line in
  arrival order, its end the tail, and whoever has begun has only finished turns before
  it; the counter equals the turns not yet uncounted). `ChainIsSerialQueue` is the
  refinement: initial states map to initial states, each step to a step of `SerialQueue`
  or a stutter. Of the pipeline, for any requests, keys, limit (NaN too), gap, clock slip
  and number of retries: `OneTurnConnects`, `QuotaIsBounded`, `PipelineUsesGate`,
  `PipelineUsesQueue`. Its invariant says where each turn of a request is (`Placed`), that
  whoever is in the gate is the queue's active turn (`SlotInv`), and that the messages
  sent are the attempts begun and the rotation (`CountInv`). With one turn in the gate
  the waker set has at most one member, from which the rest follows.
- `StreamRenderProofs` and `AnswerProofs`, for `ChatTurn` with any alphabet and length:
  `ChatTypeCorrect`, `NothingIsDropped`, `ErrorsSurface`, `CancelledIsNotSent`,
  `NothingStreamsTwice`. They rest on an invariant that ties caller, stream end and queue
  (a waiting caller has an empty queue and an open stream), and abort, socket and promise
  (a cancelled pending turn has no open socket); the last also on what a flattened
  sequence is when one piece is appended. `NothingStreamsTwice` is about letters, not
  lengths: what was streamed and the answer have grown by the same text since the last
  diverging snapshot.
  For `ToolRounds` with any set of replies, texts and requests, any bounds of the loops
  and any catalog: `RoundsInvariant`, and from it `RoundsAreBounded`, `MetaToolsStayInside`,
  `ProseIsGuarded`, `BlocksAreSound`, `AnswerIsDelivered`. `RoundBudget` is not inductive:
  a failed round is never counted by its loop, so `BudgetInv` pays for it with what the
  loop has left; and `SubInv` does the same for the sub-agents, a job that waits for its
  turn and the turns a running one has left being paid for in advance. It bounds
  sub-agents by rounds times `MostTasks`, which stands for the Task calls of a reply: the
  code has no limit of its own there. `GuardedProse` needs that until the first fence the text forwarded and
  the text held back make up what arrived (`FenceInv`), and a lemma that a fence cut by
  a delta's end is still held back, which is where `Hold >= 2` is used (the code holds
  12). `BlocksSound` needs which blocks are open at each moment; `Delivered` needs that
  what the client has read is what was sent, until the answer is rendered.
- `DegradationProofs`: `OneProbePerOpening` and `BreakersOpenAtThreshold`, from one
  invariant per breaker record (`Sound`), which relates the claimed probe to what was sent
  to the tone by requests that could go elsewhere: such a request asks the breaker under
  the model's own name, since aliases have no fallbacks, and so is either routed away or
  has claimed the probe. The lemmas say what each operation of `ToneHealth` does to it. `BackoffInvariant`, from it `BackoffTypeCorrect` and `CountsAreFresh`, and
  `EvidenceIsFresh`. The invariant says that conversations whose empties are young are
  among those that reported since the last trigger; with the monotony of cardinalities
  the threshold is then reached by fresh reports.
- `ConversationProofs`, for requests without tools: `RecordsAreSound`, for any number of
  overlapping requests, conversations and restarts, and `ContextIsComplete` if besides no
  message is edited. What the pool counts as sent is not inductive alone, since a request
  commits long after it computed its prompt. `ToldInv` carries along, for each request,
  that its M365 conversation has been told its history or that its prompt holds the rest
  (`HeardIn`); what was told is never taken back, which makes this stable under the steps
  of the others. With tools a rotated or swallowed prompt breaks it, as section 5 says.
  `AgentLossIsRepaired` is about requests with tools that do not overlap: `Mended` allows
  one conversation at a time to be behind, the one a rotated request has just left, and
  `Awaits` says what makes up for it: the first prompt is kept while the request was not
  moved, a silent turn on a live agent has told its prompt, and a bare nudge goes out
  behind a swallowed prompt only while the agent is still dead, so that it is swallowed
  too. `ConversationTypes` needs neither hypothesis.
- `PersistenceProofs`, of `TurnAccess`: `AccessShared`, `OneAgentInTenant` and `RefreshFindsAgent`, for any
  number of requests, sessions and ids. `AccessInv` needs that a pausing flight has an
  attempt left. For the agents, `Tenant` says what a run may rely on while nothing
  disturbed the tenant: only one run is under way, a run about to create found no
  agent, one about to publish or delete has its target among the agents.
- `PersistenceProofs`, of `SessionStore`: `StoreCapacity`, and `StoreImplementsRecordStore`, the refinement
  of `RecordStore` with the mapping `Live` (what the process would answer) and `Kept`
  (what is fresh in the file). The backends drop expired records at different moments;
  the lemmas `FreshAfterPut` and `EvictedOfFresh` say why nobody can tell: expired
  records are the least recently used ones, so that evicting before or after their
  expiry leaves the same fresh records.

- `AnswerProofs`, of `ToolSurface`: `ToolSurfaceIsSound`, for any catalog, allow-list, cap,
  promotions and control tools. Each step of `produceCompletion` has a lemma: the filters
  and the removal of duplicate names keep a sequence injective and in order, the loop that
  moves promoted tools keeps the set of tools, the cap keeps the first. The invariant of
  that loop (`MovedFirst`) is that the tools it has moved stand in front, all of them
  promoted, and those it has still to reach right behind them, in their old order. A
  promoted tool whose right neighbour is not promoted (`Reached`) is never stepped over,
  so it ends up with only promoted tools before it, and keeps its slot when the control
  tools are merged in (`ControlKeeps`) while promoted and control tools fit together.
- `ExchangeProofs`, of the conversions `Exchange` composes, with the assumptions that the
  inputs have their shapes (`ExchangeAssumption`, `SlotsAssumption`) and, for the third
  theorem, `FencesAssumption`, below:
  - `TonesAreAdvertised`. The tables are the program's, so the proof is a comparison of
    names: a name that is advertised reaches the same row through the aliases of either
    route. That a name can be resolved twice is harmless since a canonical name is its
    own alias, unless a custom alias takes it; the property excludes that. Of the reroute
    it needs that the chains hold canonical models only (`ChainsKnown`), and that a name
    with a chain is the model it resolves to, so that what stands in is a fallback of
    that very model and the first that is not out (`RerouteIs`).
  - `CallsAreRepaired`. Its invariant says that what was parsed are calls whose
    arguments are a function on names, which needs the shape of the parsers' results
    (`FencedCalls`; for stray JSON the scan over lines). The repair takes one missing name
    after another: `HalfRepaired` says of the arguments after some names that values
    have only moved, to required names from aliases the schema does not have, that as many
    are there as were, and that no better alias was left when one moved. Validity is
    checked again at the end by the code itself.
  - `FencesAreCarried`: exactly which calls survive `renderFencedCall` and
    `parseFencedToolCalls`, for any tools, values, lines before the call and number of
    backticks. Both directions are proved along the layout of the text. `InnerReturns`
    settles what is inside one fence: header lines, a body or an edit, and which of them
    are read back (a number, a value of several lines under a header, a body that looks like a
    header, leading blank lines and marks inside of an edit are not). `FenceIsSeen` finds the end of
    the fence, which is a run of backticks inside of a value if there is one that is long
    enough. A call that is cut short never comes back otherwise: a fence that is read has
    no such line in it (`ReadValues`), and an edit whose marks were cut off, so that the
    scan goes on in the middle of it, has too few lines left for its two texts
    (`CutEditGone`). `StrayIs` excludes the JSON fallback. Assumed is what `DefinitionErrors` refuses
    otherwise (a name twice in a catalog), that a tool has a property once and under a name,
    that the lines before the call open no fence of their own, and that no stray JSON call
    around or inside of the call repeats the very arguments, which would be a coincidence.
    `FenceAssumption` (no property name is both of an old and of a new text) is a
    fact of the tables in `fenced.ts` 51-52.
  - `StreamIsFaithful`, for any number of chunks, slots and pieces. What the client joins
    from its events is no function of the converter's state, so the invariant (`Streamed`,
    over `StreamSound`) relates the two: every slot that has a name has a block of
    its own below `nextIndex`, what that block was sent and what the slot still keeps are
    together the arguments given so far, and the text outside of the slots' blocks is the
    text given. A lemma for
    each single step (a block is opened, told something, closed; the text's block is
    closed; text is sent) says that the relation is kept, and the two loops, over the
    pieces of a chunk and over the slots at the end, compose them by induction.

Only model-checked: liveness (fairness and `ENABLED` are out of the prover's reach:
`GateProgress`, `EveryTurnRuns`, `EveryRequestEnds`, `PacedStarts`, `SilentTurnEnds`,
`CancelledTurnEnds`), and of `Exchange` `ResultsNamed`, which compares
what two conversions in a row make of nested sequences and rests on folds and filters
whose step is an operator parameter, which no installed prover instantiates.
Induction over data is done by least counterexample where a definition allows it
(`LeastExists` and `Induction` in `StreamRenderProofs`): flattened sequences, numbered
blocks, the hold-back of a text, the loops of the converter.

## 5. Where the code and its comments part

The models have the code's behaviour in all of these. Where a module states the
comment's claim under "What the comments say, and the code does not do", TLC refutes it.

Pacing and failover:
- `tryProceed` and the sizing of the timer read the clock separately (`gate.ts` 79, 100);
  if the gap runs out in between, no timer is armed. Behind the queue, where nobody else
  reaches the gate, such a caller stops all traffic (`NoStrandedWaiter` with
  `ClockSlip = 1`; `gate.ts` 110 says "if it is still gap-blocked its own timeout will
  retry it").
- `release` wakes the head of the waker set whatever it waits for, so a gap-blocked
  first turn can leave a follow-up asleep beside a free slot; `lastStartAt` is set by
  follow-ups too; a limit that parses to NaN disables the bound (`SlotsBounded` has the
  hypothesis).
- The slot is held while connecting, not "until its stream fully drains"
  (`turn-queue.ts` 6-7): `TurnPipeline.OneTurnAtATime`.
- `turnQueueStats().depth` counts the running turn (`ChainInv` says what it counts).
- `recordFailure` re-opens a breaker only if `openedAt` is null, so a failed probe leaves
  it open with its probe claimed; only a success recorded by a request that does not ask
  the breaker can close it (`health.ts` 80 against 52-53): `ToneRouting.ProbedAgain`,
  under `FairSpec`.
- The breaker is asked by the client's name of a model and recorded by its canonical
  name; an outage followed by a failover is recorded twice (`handler.ts` 960-968 and
  1298) and so counts twice for the threshold.
- "ONE probe request may try it again" (`health.ts` 52): a request whose model has no healthy
  fallback is sent to the open tone (`handler.ts` 616-623), at any time and any number of
  them, which is most models, since the table of fallbacks has three (`health.ts`
  130-134); and so is one that uses an alias or, on the OpenAI route, capital letters,
  which have no entry there. `OneProbe` is about the requests that could go elsewhere.
- "Truthfully routed to Claude_Opus (never silently demoted to GPT)"
  (`packages/core/src/model-registry.ts` 112): while the tones of the Claude models are
  out, a request for claude-opus is rerouted to gpt-5.5, and the client is not told:
  `Exchange.NeverDemoted`. `ToneAdvertised` says which model may stand in. The inline failover
  moves a turn once more (1290-1301), which is in `ToneRouting` and not in `Exchange`.
- A request that sleeps for the backoff keeps sleeping after another one's clean
  response has closed it. Settings of the backoff that parse to NaN are outside the
  model: such a threshold lets every empty trigger, such a window or cooldown none.
- `M365_MAX_EMPTY_RETRIES` that is no number makes the attempt loop run zero times
  (`handler.ts` 773): the request is answered as empty without a turn (969-970).

Turns and conversations:
- The `close` handler (`session.ts` 677) settles the stream but not `chat`'s promise: a
  socket that closes before the handshake leaves the turn, gate and queue waiting, and
  the watchdog does not help: `ChatTurn.WatchdogUnblocks`, of `session.ts` 595-597.
- A parked open socket makes `chat` reject, since `sendChat` is used before its
  declaration is evaluated, and `run` reconnects (`BeginWarm`); the watchdog's delayed
  close is not withdrawn when content arrives in its second.
- "This keeps every emitted suffix a true prefix of the final answer" (`session.ts` 145):
  after a diverging snapshot the next token is streamed although the text before it was
  not, so that what the client has read is no prefix of the answer:
  `ChatTurn.StreamedPrefix`. `StreamsOnce` states what
  remains true.
- The watchdog guards only the time before the first content (597-598): a server that
  then falls silent leaves its request waiting until the socket drops or the client goes
  away. The others go on (`EveryRequestEnds`).
- `newConversation` keeps `turnCounter`, and `sentMessageCount` stays too; if the
  softened retry of a rotated turn fails, the next request sends a delta into a
  conversation that was told nothing (`handler.ts` 914; `astray` excludes it from
  `AgentLossRepaired`).
- An edited history of the same or a greater length is cut at `sentMessageCount`: the
  runs of `Conversation` have `Versions = {0}`, and with `{0, 1}` `ContextComplete` fails.
- A hydrated session has turn count 0 and repeats the whole history in its first prompt.
- If a rotated request's softened prompt is swallowed by a deleted agent, the repeat is
  the original delta; and if another request of the session has replaced the agent
  already, `refreshAgent` returns false and the repeat is a bare nudge. `astray` excludes
  the first, the single slot of `conversation_agent` the second.
- Of records with equal times of use the SQLite backend may evict another than the JSON
  backend: `Evictions` allows any.

Tokens and agents:
- Flights of different scopes are separate, so several browsers may use one profile
  directory at once; an error of the launch itself rejects out of the attempt loop.
- The proactive refresh (`model.ts` 211-220) does nothing between 300 s and 60 s before
  expiry, and a chat token may expire while the agent is resolved (345).
- A failed publication deletes the agent, which others may use already (`agent.ts`
  374-377); the status of a deletion is not checked, so that one that failed leaves a
  duplicate; a failed re-creation leaves the cache file with a deleted agent's id.
- A transient failure sets a session's cached agent to null for its life; a refresh
  bypasses the single flight, so that runs overlap and make duplicates; a resolution
  under way may overwrite the id a refresh has set. `OneAgent` and `RefreshHeals` have
  `disturbed` for these.

Tool mode and rendering:
- `handleChatCompletion` compares the trimmed final text with what was streamed
  (`handler.ts` 1278, 1421): an answer that begins with white space, or that comes from a
  later round than the prose, loses its rest: `ToolRounds.ClientSeesAnswer`.
- "Promoted (previously discovered) tools always keep their slot" (672): the loop counts
  down while each move shifts what is before it, so that of two neighbours that are both
  promoted the first is passed over and may be cut off: `ToolSurface.PromotedShownFor`,
  for two promoted tools and two slots. Nor is a promoted tool shown that the allow-list
  of a later request drops. `SurfaceSound` says what remains true (`Reached`).
- "Bounded by M365_SUBAGENT_TURNS" (1073-1074) holds of each sub-agent; how many Task
  calls a reply has is not limited (1077-1101), so that one request may cost any number
  of messages: `RoundBudget` is relative to `MostTasks`.
- The pattern for a bare tool header (`handler.ts` 993) ends at an open line: a header
  whose line break arrives in the same delta is forwarded as prose.
- `FENCE_REGEX` (`fenced.ts` 625) is unused, and its comment stale.
- `isProseDocument` is called without the known names (1167); the orientation call may
  fail the registry and be answered with 422 (`Orientations`); `{"final": ...}` and `{"confidence": ...}`
  are recognised but the client gets the full text (1278, `tools.ts` 69-72).
- The pass-through converter sends `message_stop` after an error, and drops a last event
  that does not end in a blank line.

Conversions:
- Parallel or late tool results are put behind a stub call of `unknown_tool`
  (`anthropic.ts` 240-255), and a repeated id gives earlier results the later name;
  in a delta prompt results are labelled `unknown` if the call was sent before
  (`handler.ts` 441-460). The framing `claude-code` omits the tools block.
- Edit values lose leading blank lines, and header values come back as strings, so that
  a parameter that must be a number is refused with 422: `FenceCarries` names all kinds
  of calls that do not come back.
- The OpenAI route's schema drops `stop`. On the Anthropic route an exception of
  `produceCompletion` escapes if the reply is not streamed, its 400s become `api_error`,
  and streamed error events carry raw types (`errors.ts` has a mapping that is not used).
- An empty `x-m365-system-prompt` header hides `M365_SYSTEM_PROMPT`. The two model
  registries disagree on some names (codex, gpt-5.4, think-deeper, gpt-5.6-reasoning),
  and a custom alias that has the name of a canonical model is resolved twice
  (`model.ts` 221): `ToneAdvertised` excludes it.

## 6. What is left to do

- `WarmSocket`: several turns of one session, with the socket that one parks and the
  next consumes or closes, and its idle timer.
- `RecordSound` with tools as far as it holds there, in place of the hypothesis `~Tools`,
  and `AgentLossIsRepaired` for requests that overlap but share no agent refresh.
- A proof of `ResultsNamed`: the conversions would have to be written as
  recursive functions over positions, as `ParseFencedToolCalls` is.
- The pipeline with breakers and backoff together: which attempt's outcome is recorded
  for which model, and how naps and cooldowns add up.

## 7. Not modelled

- The parked and pre-warmed socket beyond one turn: section 6.
- Frame diagnostics, citations, images and native actions of a chat turn: data that no
  control depends on. The proxy never configures native actions.
- Copilot clients, images and vision: HTTP calls and conversions of data.
- The test transport, calibration and logging: a test double and offline tools.
- The OpenClaw plugin, launchers, scripts and packaging: process supervision and another
  program's interface.
- The pages a login fills in, the device-code flow, the manual `forceReauth` and the
  plugin that signs in when the server starts: I/O with a browser and a person. What
  their outcome means for the callers is in `TokenFlights`.
- Heartbeats, usage numbers and the positions of stop sequences in a stream: timing and
  wording of the output.
- How `seen` of the gate grows by one key per conversation and is never pruned: a bounded
  model does not tell it from a large bound.
- The payloads of the reading routes (`/health`, `/internal/stats`, the prompt lists).
- The words of framings and system prompts, the patterns for refusals and
  confabulations, and the ranking of a tool search: choices in `ToolRounds`.
- The schemas of frames, and `resolveModelStrict`, which the proxy does not call.
