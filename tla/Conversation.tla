---------------------------- MODULE Conversation ----------------------------
(***************************************************************************)
(* What M365 knows of a client's history: the SessionPool's conversation of *)
(* one fingerprint with its ModelSession (packages/proxy-lib/src/handler.ts *)
(* and packages/core/src/model.ts), the JSON session store that survives a *)
(* restart (session-store.ts), and the requests that use them.             *)
(*                                                                         *)
(* M365 keeps the history, so a turn's prompt is either the whole history  *)
(* or what the pool believes M365 has not seen.  A history is a sequence   *)
(* of message versions, one per user turn; a prompt is the set of messages *)
(* it carries, the nudge "Please continue." the empty set.                 *)
(*                                                                         *)
(* The queue and the gate are left out: turns of different requests are    *)
(* sent in any order.  Idle time is abstract: Rest lets more than          *)
(* MAX_IDLE_MS pass.  The store's seven-day TTL and its capacity are left  *)
(* out: one fingerprint does not fill it, and MAX_IDLE_MS is shorter.      *)
(***************************************************************************)
EXTENDS RetryLoop, FiniteSets, Sequences

CONSTANTS
  Slots,     \* requests in progress at once, each slot used again and again
  Versions,  \* versions a message may have; 0 is the original
  MaxLen,    \* bound: messages of a history
  MaxConvs,  \* bound: ConversationStates of one process
  MaxCids,   \* bound: M365 conversations
  Tools,     \* the requests carry tools, and so ask for the agent
  UseAgent   \* ModelSessionOptions.useAgent

ASSUME ConversationAssumption ==
  /\ 0 \in Versions
  /\ MaxLen \in Nat \ {0} /\ MaxConvs \in Nat \ {0} /\ MaxCids \in Nat \ {0}
  /\ Tools \in BOOLEAN /\ UseAgent \in BOOLEAN

\* The first message is part of the fingerprint: it has one version.
Histories == {h \in UNION {[1..n -> Versions] : n \in 1..MaxLen} : h[1] = 0}
Messages == (1..MaxLen) \X Versions
Content(h) == {<<i, h[i]>> : i \in DOMAIN h}

NoConv == 0
NoRecord == [cid |-> 0, sent |-> 0, fresh |-> FALSE]
NotLoaded == [cid |-> 0, sent |-> 0, fresh |-> TRUE]

\* cachedAgentId: never resolved, null, a live agent, one deleted in the tenant.
Agents == {"unset", "none", "good", "dead"}

Records == [cid : 1..MaxCids, sent : 0..MaxLen, fresh : BOOLEAN]
Conversations ==
  [cid : 1..MaxCids, begun : BOOLEAN, sent : 0..MaxLen, idle : BOOLEAN,
   agent : Agents]

Stages == {"idle", "ready", "streaming", "refreshing", "answered"}
Requests ==
  [stage : Stages,
   history : Histories,             \* body.messages
   mine : 0..MaxConvs,              \* the ConversationState it holds
   text : SUBSET Messages,          \* the prompt of the next turn
   original : SUBSET Messages,      \* originalText of the current runBuffered
   attempt : 0..MaxRetries,
   rotated : BOOLEAN,               \* disengageRetried
   refreshed : BOOLEAN,             \* agentRefreshed
   ran : 0..MaxCids,                \* the M365 conversation of the last turn
   lost : BOOLEAN]                  \* that turn went to a deleted agent

\* A slot without a request: none came, or it ended with an error response.
Nothing ==
  [stage |-> "idle", history |-> <<0>>, mine |-> NoConv, text |-> {}, original |-> {},
   attempt |-> 0, rotated |-> FALSE, refreshed |-> FALSE, ran |-> 0, lost |-> FALSE]

VARIABLES
  conv,        \* ConversationStates, in the order the process made them
  current,     \* the one in the pool, or NoConv
  cids,        \* how many ConversationIds were made
  known,       \* what each M365 conversation has been told
  cache, disk, \* the store's record in memory and in its file
  req,         \* the request of each slot
  astray       \* history: a rotated request failed or repeated its first prompt

pool == <<conv, current, cids>>
store == <<cache, disk>>
vars == <<pool, known, store, req, astray>>

TypeOK ==
  /\ conv \in Seq(Conversations) /\ Len(conv) <= MaxConvs
  /\ current \in 0..Len(conv) /\ cids \in 0..MaxCids
  /\ known \in [1..MaxCids -> SUBSET Messages]
  /\ cache \in Records \cup {NoRecord, NotLoaded} /\ disk \in Records \cup {NoRecord}
  /\ req \in [Slots -> Requests]
  /\ astray \in BOOLEAN

Init ==
  /\ conv = <<>> /\ current = NoConv /\ cids = 0
  /\ known = [c \in 1..MaxCids |-> {}]
  /\ cache = NotLoaded /\ disk = NoRecord
  /\ req = [r \in Slots |-> Nothing]
  /\ astray = FALSE
-----------------------------------------------------------------------------
\* The store's record once load() has run.
Loaded == IF cache = NotLoaded THEN disk ELSE cache

\* persistConversation: set, then flush, which may fail and leaves the file alone.
Persist(c) ==
  LET record == [cid |-> c.cid, sent |-> c.sent, fresh |-> TRUE] IN
  /\ cache' = record
  /\ disk' \in {record, disk}

\* A ModelSession is made, on the stored conversation if there is one.
Hydrated_Unseeded(record) ==
  [cid |-> cids + 1, begun |-> FALSE, sent |-> record.sent, idle |-> FALSE, agent |-> "unset"]
Hydrated(record) ==
  [cid |-> record.cid, begun |-> FALSE, sent |-> record.sent, idle |-> FALSE, agent |-> "unset"]
Fresh ==
  [cid |-> cids + 1, begun |-> FALSE, sent |-> 0, idle |-> FALSE, agent |-> "unset"]

\* The prompt: everything on a session's first turn or while nothing was answered
\* yet, else what comes after the messages already sent.
Prompt_SkipsOne(c, h) ==
  IF ~c.begun \/ c.sent = 0 THEN Content(h)
  ELSE {<<i, h[i]>> : i \in {j \in DOMAIN h : j > c.sent + 1}}
Prompt(c, h) ==
  IF ~c.begun \/ c.sent = 0 THEN Content(h)
  ELSE {<<i, h[i]>> : i \in {j \in DOMAIN h : j > c.sent}}

\* q when a call of runBuffered begins with the prompt p.
Started(q, p) ==
  [q EXCEPT !.stage = "ready", !.text = p, !.original = p, !.attempt = 0,
            !.rotated = FALSE, !.refreshed = FALSE]

\* A request with the history h takes slot r and uses the ConversationState k.
Uses(r, k, h) ==
  /\ req[r].stage \in {"idle", "answered"}
  /\ req' = [req EXCEPT ![r] =
       Started([Nothing EXCEPT !.history = h, !.mine = k], Prompt(conv'[k], h))]
  /\ UNCHANGED <<known, astray>>
-----------------------------------------------------------------------------
(* SessionPool.resolve, and the prompt computed right after it. *)

Evicted == current # NoConv /\ conv[current].idle

\* The pool has the conversation, and the history did not shrink.
BeginKnown(r, h) ==
  /\ current # NoConv /\ ~Evicted /\ Len(h) >= conv[current].sent
  /\ conv' = [conv EXCEPT ![current].idle = FALSE]
  /\ UNCHANGED <<current, cids, store>>
  /\ Uses(r, current, h)

\* It shrank: the session is reset, the ConversationId is kept.
BeginShrunk(r, h) ==
  /\ current # NoConv /\ ~Evicted /\ Len(h) < conv[current].sent
  /\ conv' = [conv EXCEPT ![current] = [@ EXCEPT !.begun = FALSE, !.sent = 0, !.idle = FALSE]]
  /\ Persist(conv'[current])
  /\ UNCHANGED <<current, cids>>
  /\ Uses(r, current, h)

\* A process that has not seen the conversation resumes it from a fresh record.
BeginHydrated(r, h) ==
  /\ current = NoConv /\ Loaded # NoRecord /\ Loaded.fresh
  /\ Len(conv) < MaxConvs
  /\ conv' = Append(conv, Hydrated(Loaded)) /\ current' = Len(conv) + 1
  /\ cache' = Loaded
  /\ UNCHANGED <<cids, disk>>
  /\ Uses(r, Len(conv) + 1, h)

\* No record, a stale one or an evicted conversation, both deleted in memory only.
BeginFresh(r, h) ==
  /\ Evicted \/ (current = NoConv /\ (Loaded = NoRecord \/ ~Loaded.fresh))
  /\ Len(conv) < MaxConvs /\ cids < MaxCids
  /\ conv' = Append(conv, Fresh) /\ current' = Len(conv) + 1
  /\ cids' = cids + 1
  /\ cache' = NoRecord
  /\ UNCHANGED disk
  /\ Uses(r, Len(conv) + 1, h)

Begin(r, h) == BeginKnown(r, h) \/ BeginShrunk(r, h) \/ BeginHydrated(r, h) \/ BeginFresh(r, h)
-----------------------------------------------------------------------------
(* The turns of runBuffered. *)

\* The agent a turn attaches, if it wants one: resolved on first use, from a cache
\* that may name a deleted one.
WantAgent == Tools /\ UseAgent
AgentFor(c) ==
  IF WantAgent /\ c.agent = "unset" THEN {"none", "good", "dead"} ELSE {c.agent}

\* session.run sends the prompt to the conversation the session has by then.  A
\* deleted agent answers with nothing and tells the conversation nothing.
Send(r) == req[r].stage = "ready" /\ \E agent \in AgentFor(conv[req[r].mine]) :
  LET k == req[r].mine  cid == conv[k].cid  dead == WantAgent /\ agent = "dead" IN
  /\ conv' = [conv EXCEPT ![k] = [@ EXCEPT !.begun = TRUE, !.agent = agent]]
  /\ known' = IF dead THEN known ELSE [known EXCEPT ![cid] = @ \cup req[r].text]
  /\ req' = [req EXCEPT ![r] =
       [@ EXCEPT !.stage = "streaming", !.text = {}, !.ran = cid, !.lost = dead]]
  /\ UNCHANGED <<current, cids, store, astray>>

\* The request ends with an error response; nothing is committed.
Fail_CountsAsSent(r) ==
  /\ req' = [req EXCEPT ![r] = Nothing]
  /\ conv' = [conv EXCEPT ![req[r].mine].sent = Len(req[r].history)]
  /\ UNCHANGED <<current, cids, known, store, astray>>
Fail(r) ==
  /\ req' = [req EXCEPT ![r] = Nothing]
  /\ astray' = (astray \/ req[r].rotated)
  /\ UNCHANGED <<pool, known, store>>

\* session.run rejects before the prompt is out.
Refused(r) == req[r].stage = "ready" /\ Fail(r)

\* The turn of r ends with outcome, and runBuffered does verdict.  A deleted agent
\* only stays silent.
Ends(r, outcome, verdict) ==
  /\ req[r].stage = "streaming"
  /\ req[r].lost => outcome = "empty"
  /\ Verdict(outcome, Tools, req[r].attempt, req[r].rotated) = verdict

\* The history counts as sent, to whichever conversation the session is on now.
Answer(r) ==
  LET k == req[r].mine IN
  /\ Ends(r, "content", "answer")
  /\ conv' = [conv EXCEPT ![k].sent = Len(req[r].history)]
  /\ Persist(conv'[k])
  /\ req' = [req EXCEPT ![r] =
       [Nothing EXCEPT !.stage = "answered", !.history = req[r].history,
                       !.mine = k, !.ran = req[r].ran]]
  /\ UNCHANGED <<current, cids, known, astray>>

GiveUp(r, outcome) ==
  /\ \E verdict \in {"fail", "exhausted"} : Ends(r, outcome, verdict)
  /\ Fail(r)

\* Disengaged: a new ConversationId, and the whole history in a softer framing.
Rotate(r) ==
  /\ Ends(r, "disengaged", "rotate")
  /\ cids < MaxCids
  /\ cids' = cids + 1
  /\ conv' = [conv EXCEPT ![req[r].mine].cid = cids + 1]
  /\ req' = [req EXCEPT ![r] =
       [@ EXCEPT !.stage = "ready", !.text = Content(req[r].history), !.rotated = TRUE]]
  /\ UNCHANGED <<current, known, store, astray>>

\* Empty: the turn is repeated with a bare nudge, the first time after refreshing
\* the agent.
Empty(r) ==
  /\ Ends(r, "empty", "retry")
  /\ req' = [req EXCEPT ![r] =
       [@ EXCEPT !.stage = IF req[r].refreshed THEN "ready" ELSE "refreshing",
                 !.text = {}, !.attempt = req[r].attempt + 1, !.refreshed = TRUE]]
  /\ UNCHANGED <<pool, known, store, astray>>

\* refreshAgent: the new id, or none when no agent can be had.
AgentIds == {"none", "good"}

\* It differs from the session's: true, and the original prompt is sent again.
AgentChanged_BareNudge(r) ==
  /\ UseAgent /\ req[r].stage = "refreshing"
  /\ \E id \in AgentIds \ {conv[req[r].mine].agent} :
       conv' = [conv EXCEPT ![req[r].mine].agent = id]
  /\ req' = [req EXCEPT ![r].stage = "ready"]
  /\ UNCHANGED <<current, cids, known, store, astray>>
AgentChanged(r) ==
  /\ UseAgent /\ req[r].stage = "refreshing"
  /\ \E id \in AgentIds \ {conv[req[r].mine].agent} :
       conv' = [conv EXCEPT ![req[r].mine].agent = id]
  /\ req' = [req EXCEPT ![r] = [@ EXCEPT !.stage = "ready", !.text = req[r].original]]
  /\ astray' = (astray \/ req[r].rotated)
  /\ UNCHANGED <<current, cids, known, store>>

\* It returns false if agents are off, the id is the same, or the refresh failed.
AgentUnchanged(r) ==
  /\ req[r].stage = "refreshing"
  /\ req' = [req EXCEPT ![r].stage = "ready"]
  /\ UNCHANGED <<pool, known, store, astray>>

\* With tools, an answer may call for another round on the same conversation (tool
\* search, sub-agent reports, forced retries), whose prompt has no client message.
NextRound(r) ==
  /\ Tools /\ req[r].stage = "answered"
  /\ req' = [req EXCEPT ![r] = Started(@, {})]
  /\ UNCHANGED <<pool, known, store, astray>>
-----------------------------------------------------------------------------
\* Somebody deletes the agent in the tenant.
AgentDeleted(k) ==
  /\ WantAgent /\ conv[k].agent = "good"
  /\ conv' = [conv EXCEPT ![k].agent = "dead"]
  /\ UNCHANGED <<current, cids, known, store, req, astray>>

Stale(record) == IF record \in Records THEN [record EXCEPT !.fresh = FALSE] ELSE record

\* More than MAX_IDLE_MS without a request.
Rest ==
  /\ conv' = [k \in DOMAIN conv |-> [conv[k] EXCEPT !.idle = TRUE]]
  /\ cache' = Stale(cache) /\ disk' = Stale(disk)
  /\ UNCHANGED <<current, cids, known, req, astray>>

\* A conversation of another fingerprint is persisted: flush writes the whole map.
OtherFlushed ==
  /\ cache # NotLoaded
  /\ disk' = cache
  /\ UNCHANGED <<pool, known, cache, req, astray>>

\* The process dies and is started again.
Restart ==
  /\ conv' = <<>> /\ current' = NoConv /\ cache' = NotLoaded
  /\ req' = [r \in Slots |-> Nothing]
  /\ UNCHANGED <<cids, known, disk, astray>>

Next ==
  \/ \E r \in Slots :
       \/ \E h \in Histories : Begin(r, h)
       \/ Send(r) \/ Refused(r)
       \/ Answer(r) \/ Rotate(r) \/ Empty(r)
       \/ \E outcome \in Outcomes : GiveUp(r, outcome)
       \/ AgentChanged(r) \/ AgentUnchanged(r)
       \/ NextRound(r)
  \/ \E k \in DOMAIN conv : AgentDeleted(k)
  \/ Rest \/ OtherFlushed \/ Restart

Spec == Init /\ [][Next]_vars
-----------------------------------------------------------------------------
(* Properties. *)

\* The premise of delta prompting (handler.ts, "M365 is stateful"): the conversation
\* that answers a request has been told every message of the request's history,
\* whatever was failed, retried, reset, evicted, restarted or lost from the file in
\* between, and however two requests of one fingerprint overlap.
ContextComplete ==
  \A r \in Slots :
    req[r].stage = "answered" => Content(req[r].history) \subseteq known[req[r].ran]

Told(cid, n) == \A i \in 1..n : \E v \in Versions : <<i, v>> \in known[cid]

\* What the pool, the store and its file believe M365 was told, it was told: the
\* messages counted as sent are in that very conversation.  A late answer on an
\* evicted ConversationState, or a flush that failed, may leave an older belief but
\* never a false one.
RecordSound ==
  /\ TypeOK
  /\ \A k \in DOMAIN conv : Told(conv[k].cid, conv[k].sent)
  /\ cache \in Records => Told(cache.cid, cache.sent)
  /\ disk \in Records => Told(disk.cid, disk.sent)

\* A deleted agent costs no context: the prompt it swallowed is sent again (handler.ts,
\* "a bare 'continue' would have no context since the dead agent processed nothing"),
\* and the conversation a Disengaged turn was moved to gets the whole history.  That
\* is so unless a request that was moved then fails, or repeats its first prompt.
AgentLossRepaired == ~astray => ContextComplete
=============================================================================
