----------------------------- MODULE TurnAccess -----------------------------
(***************************************************************************)
(* What a turn needs before it can start: a chat token and, if it uses     *)
(* tools, the id of the tenant's agent (packages/core/src/model.ts, run,   *)
(* resolveAgentId and refreshAgent; packages/core/src/agent.ts).           *)
(*                                                                         *)
(* The agent is looked up, created and published by provisioning runs,     *)
(* getOrCreateAgent.  The first resolution of all sessions shares one run, *)
(* First; each refresh after an empty reply is a run of its own, named by  *)
(* its request.  All runs want the same version of the instructions.       *)
(***************************************************************************)
EXTENDS TokenFlights

CONSTANTS
  Requests, Sessions, NoSession,
  First,               \* the shared run of getOrCreateAgentSingleFlight
  Bap, PowerPlatform,  \* the scopes a run needs
  Bots,                \* ids the tenant may give to agents
  Unknown, NoAgent     \* cachedAgentId undefined, and null

ASSUME AccessAssumption ==
  /\ First \notin Requests /\ Callers = Requests \cup {First}
  /\ Scopes = {Chat, Bap, PowerPlatform} /\ Bap # PowerPlatform
  /\ NoSession \notin Sessions /\ Unknown # NoAgent /\ {Unknown, NoAgent} \cap Bots = {}

VARIABLES
  bots,         \* agents of the wanted name in the tenant
  used,         \* ids the tenant has given
  agentFile,    \* the id in agent-id.json, or NoAgent
  step,         \* where each run is
  target,       \* the agent a run is about
  cachedAgent,  \* cachedAgentId of each session
  resolving,    \* sessions whose agentResolutionPromise is pending
  session,      \* of each request
  wantAgent, refreshed, stage,
  disturbed     \* history: runs overlapped, a deletion failed, or somebody deleted during a run

agentVars == <<bots, used, agentFile, step, target, cachedAgent, resolving, disturbed>>
requestVars == <<session, wantAgent, refreshed, stage>>
accessVars == <<tokenVars, agentVars, requestVars>>

Ids == Bots \cup {NoAgent}
Steps == {"idle", "bap", "powerplatform", "list", "create", "publish",
          "published", "delete", "recreate", "republish"}

AccessTypeOK ==
  /\ TokenTypeOK
  /\ bots \subseteq used /\ used \subseteq Bots /\ agentFile \in Ids
  /\ step \in [Callers -> Steps] /\ target \in [Callers -> Ids]
  /\ cachedAgent \in [Sessions -> Ids \cup {Unknown}] /\ resolving \subseteq Sessions
  /\ session \in [Requests -> Sessions \cup {NoSession}]
  /\ wantAgent \in [Requests -> BOOLEAN] /\ refreshed \in [Requests -> BOOLEAN]
  /\ stage \in [Requests -> {"idle", "ready", "token", "agent", "chat", "refresh"}]
  /\ disturbed \in BOOLEAN

AccessInit ==
  /\ TokenInit
  /\ bots \in {{}} \cup {{b} : b \in Bots} /\ used = bots
  /\ agentFile \in {NoAgent} \cup bots
  /\ step = [p \in Callers |-> "idle"] /\ target = [p \in Callers |-> NoAgent]
  /\ cachedAgent = [s \in Sessions |-> Unknown] /\ resolving = {}
  /\ session = [r \in Requests |-> NoSession]
  /\ wantAgent = [r \in Requests |-> FALSE] /\ refreshed = [r \in Requests |-> FALSE]
  /\ stage = [r \in Requests |-> "idle"]
  /\ disturbed = FALSE
-----------------------------------------------------------------------------
(* Provisioning runs. *)

Running == {p \in Callers : step[p] # "idle"}

\* The run asks for its first token.
StartRun(p) ==
  /\ step[p] = "idle" /\ Ask(p, Bap)
  /\ step' = [step EXCEPT ![p] = "bap"]
  /\ disturbed' = (disturbed \/ Running # {})

\* The answers callers C were given are used up.
Spent(C) ==
  /\ told' = [c \in Callers |-> IF c \in C THEN "nothing" ELSE told[c]]
  /\ UNCHANGED <<flight, attempt, waiting>>

\* The run is over.  The shared one answers all sessions that resolve their agent; a
\* refresh replaces the session's agent if it differs, by none as well, unless the run
\* threw.
Over(p, id, threw) ==
  /\ step' = [step EXCEPT ![p] = "idle"] /\ target' = [target EXCEPT ![p] = NoAgent]
  /\ IF p = First
     THEN /\ cachedAgent' = [s \in Sessions |-> IF s \in resolving THEN id ELSE cachedAgent[s]]
          /\ resolving' = {}
          /\ stage' = [r \in Requests |-> IF stage[r] = "agent" THEN "chat" ELSE stage[r]]
          /\ Spent({First} \cup {r \in Requests : stage[r] = "agent"})
     ELSE /\ cachedAgent' = [cachedAgent EXCEPT ![session[p]] = IF threw THEN @ ELSE id]
          /\ stage' = [stage EXCEPT ![p] = "ready"]
          /\ Spent({p}) /\ UNCHANGED resolving
  /\ UNCHANGED <<session, wantAgent, refreshed, bots, used>>

Fails(p) == Over(p, NoAgent, FALSE) /\ UNCHANGED <<agentFile, disturbed>>
Throws(p) == Over(p, NoAgent, TRUE) /\ UNCHANGED <<agentFile, disturbed>>

GoesOn(p, next) ==
  /\ step' = [step EXCEPT ![p] = next]
  /\ UNCHANGED <<requestVars, agentFile, cachedAgent, resolving>>

\* The answer to the first token request, and then to the second, which is followed by
\* getEnvironmentUrl, outside of the try.
GotBap(p) ==
  /\ step[p] = "bap" /\ waiting[p] = NoScope
  /\ \/ /\ told[p] = "token" /\ Ask(p, PowerPlatform) /\ GoesOn(p, "powerplatform")
        /\ UNCHANGED <<bots, used, target, disturbed>>
     \/ told[p] = "null" /\ Fails(p)
     \/ told[p] = "rejected" /\ Throws(p)

GotPowerPlatform(p) ==
  /\ step[p] = "powerplatform" /\ waiting[p] = NoScope
  /\ \/ told[p] = "token" /\ Spent({p}) /\ GoesOn(p, "list") /\ UNCHANGED <<bots, used, target, disturbed>>
     \/ told[p] = "null" /\ Fails(p)
     \/ told[p] \in {"token", "rejected"} /\ Throws(p)

List_Blind(p) ==
  /\ step[p] = "list"
  /\ \/ GoesOn(p, "create") /\ UNCHANGED <<tokenVars, bots, used, target, disturbed>>
     \/ Fails(p)

List(p) ==
  /\ step[p] = "list"
  /\ \/ /\ \E b \in bots : target' = [target EXCEPT ![p] = b]
        /\ GoesOn(p, "publish") /\ UNCHANGED <<tokenVars, bots, used, disturbed>>
     \/ /\ bots = {}
        /\ GoesOn(p, "create") /\ UNCHANGED <<tokenVars, bots, used, target, disturbed>>
     \/ Fails(p)

\* A new agent, while the tenant has ids left.
Create(p) ==
  /\ step[p] \in {"create", "recreate"}
  /\ \/ /\ \E b \in Bots \ used :
             bots' = bots \cup {b} /\ used' = used \cup {b} /\ target' = [target EXCEPT ![p] = b]
        /\ GoesOn(p, IF step[p] = "create" THEN "publish" ELSE "republish")
        /\ UNCHANGED <<tokenVars, disturbed>>
     \/ Fails(p)

\* The tenant publishes an agent it has, or the request fails: then the agent is
\* deleted and made anew, once.
Publish(p) ==
  /\ step[p] \in {"publish", "republish"}
  /\ \/ /\ \/ target[p] \in bots /\ GoesOn(p, "published")
           \/ step[p] = "publish" /\ GoesOn(p, "delete")
        /\ UNCHANGED <<tokenVars, bots, used, target, disturbed>>
     \/ step[p] = "republish" /\ Fails(p)

\* The answer to the publication arrives; the id is saved and returned.
Published(p) ==
  /\ step[p] = "published"
  /\ agentFile' = target[p] /\ Over(p, target[p], FALSE) /\ UNCHANGED disturbed

\* The status of the answer is not looked at.
Delete(p) ==
  /\ step[p] = "delete"
  /\ \/ /\ \/ bots' = bots \ {target[p]} /\ UNCHANGED disturbed
           \/ bots' = bots /\ disturbed' = TRUE
        /\ GoesOn(p, "recreate") /\ UNCHANGED <<tokenVars, used, target>>
     \/ Fails(p)

RunStep(p) ==
  \/ GotBap(p) \/ GotPowerPlatform(p) \/ List(p)
  \/ Create(p) \/ Publish(p) \/ Published(p) \/ Delete(p)
-----------------------------------------------------------------------------
(* Requests. *)

\* A new request, or one whose session has refreshed its agent, asks for a token.
Begin(r) ==
  /\ stage[r] = "idle" /\ Ask(r, Chat)
  /\ \E s \in Sessions, want \in BOOLEAN :
       /\ session' = [session EXCEPT ![r] = s] /\ wantAgent' = [wantAgent EXCEPT ![r] = want]
  /\ stage' = [stage EXCEPT ![r] = "token"]
  /\ UNCHANGED <<agentVars, refreshed>>

\* The request is over: answered, failed, or out of retries.
Leaves(r) ==
  /\ stage' = [stage EXCEPT ![r] = "idle"] /\ session' = [session EXCEPT ![r] = NoSession]
  /\ wantAgent' = [wantAgent EXCEPT ![r] = FALSE] /\ refreshed' = [refreshed EXCEPT ![r] = FALSE]
  /\ Spent({r}) /\ UNCHANGED agentVars

AskToken(r) ==
  /\ stage[r] = "ready" /\ Ask(r, Chat)
  /\ stage' = [stage EXCEPT ![r] = "token"]
  /\ UNCHANGED <<agentVars, session, wantAgent, refreshed>>

\* resolveToken rejected, and so does the turn.
NoToken(r) ==
  /\ stage[r] = "token" /\ waiting[r] = NoScope /\ told[r] \in {"null", "rejected"}
  /\ Leaves(r)

HasToken(r) == stage[r] = "token" /\ waiting[r] = NoScope /\ told[r] = "token"

\* The session knows its agent, or needs none.  The proactive refresh before (model.ts
\* 211-220) reads the cache entry the token is from, which is not about to expire.
ChatAtOnce(r) ==
  /\ HasToken(r) /\ (~wantAgent[r] \/ cachedAgent[session[r]] # Unknown)
  /\ stage' = [stage EXCEPT ![r] = "chat"] /\ Spent({r})
  /\ UNCHANGED <<agentVars, session, wantAgent, refreshed>>

\* The session's first turn with an agent: it joins the session's resolution, the
\* shared run, the file's answer, or starts the shared run.
ResolveAgent(r) ==
  LET s == session[r] IN
  /\ HasToken(r) /\ wantAgent[r] /\ cachedAgent[s] = Unknown
  /\ IF s \notin resolving /\ step[First] = "idle" /\ agentFile # NoAgent
     THEN /\ cachedAgent' = [cachedAgent EXCEPT ![s] = agentFile]
          /\ stage' = [stage EXCEPT ![r] = "chat"] /\ Spent({r})
          /\ UNCHANGED <<step, resolving, disturbed>>
     ELSE /\ stage' = [stage EXCEPT ![r] = "agent"] /\ resolving' = resolving \cup {s}
          /\ IF step[First] = "idle" THEN StartRun(First) ELSE UNCHANGED <<tokenVars, step, disturbed>>
          /\ UNCHANGED cachedAgent
  /\ UNCHANGED <<bots, used, agentFile, target, session, wantAgent, refreshed>>

Ends(r) == stage[r] = "chat" /\ Leaves(r)

\* The reply was empty: refreshAgent, once per request, past file and shared run.
Refresh_FromFile(r) ==
  /\ stage[r] = "chat" /\ ~refreshed[r]
  /\ refreshed' = [refreshed EXCEPT ![r] = TRUE]
  /\ IF agentFile # NoAgent
     THEN /\ cachedAgent' = [cachedAgent EXCEPT ![session[r]] = agentFile]
          /\ stage' = [stage EXCEPT ![r] = "ready"]
          /\ UNCHANGED <<tokenVars, step, disturbed>>
     ELSE stage' = [stage EXCEPT ![r] = "refresh"] /\ StartRun(r) /\ UNCHANGED cachedAgent
  /\ UNCHANGED <<bots, used, agentFile, target, resolving, session, wantAgent>>

Refresh(r) ==
  /\ stage[r] = "chat" /\ ~refreshed[r]
  /\ StartRun(r)
  /\ refreshed' = [refreshed EXCEPT ![r] = TRUE] /\ stage' = [stage EXCEPT ![r] = "refresh"]
  /\ UNCHANGED <<bots, used, agentFile, target, cachedAgent, resolving, session, wantAgent>>
-----------------------------------------------------------------------------
\* Somebody deletes an agent in the tenant.
Deleted(b) ==
  /\ b \in bots /\ bots' = bots \ {b} /\ disturbed' = (disturbed \/ Running # {})
  /\ UNCHANGED <<tokenVars, requestVars, used, agentFile, step, target, cachedAgent, resolving>>

AccessNext ==
  /\ \/ \E r \in Requests :
          Begin(r) \/ AskToken(r) \/ NoToken(r) \/ ChatAtOnce(r) \/ ResolveAgent(r) \/ Ends(r) \/ Refresh(r)
     \/ \E p \in Callers : RunStep(p)
     \/ \E s \in Scopes : FlightStep(s) /\ UNCHANGED <<agentVars, requestVars>>
     \/ \E b \in Bots : Deleted(b)
  /\ UNCHANGED login

AccessSpec == AccessInit /\ [][AccessNext]_accessVars
-----------------------------------------------------------------------------
(* Properties. *)

\* Flights, runs and resolutions belong together: a token flight is under way exactly
\* when somebody has joined it, requests wait for an agent exactly while the shared run
\* is under way, and a refresh has a run of its own: whatever fails, no flight stays
\* poisoned and no caller is forgotten (auth.ts 733-739, agent.ts 390-399).
AccessInv ==
  /\ AccessTypeOK /\ FlightsShared
  /\ step[First] # "idle" <=> resolving # {}
  /\ \A r \in Requests : stage[r] = "agent" => session[r] \in resolving
  /\ \A r \in Requests : step[r] # "idle" <=> stage[r] = "refresh"

\* As long as runs do not overlap and deletions succeed, hosts of one version
\* converge on one agent, whichever requests of a run fail (agent.ts 18-24).
OneAgent == ~disturbed => Cardinality(bots) <= 1

\* What a refresh puts in the place of a session's agent is no dead agent: it asks the
\* tenant and not the file (agent.ts 304-310).
RefreshHeals ==
  [][\A r \in Requests :
       /\ stage[r] \in {"chat", "refresh"} /\ stage'[r] = "ready" /\ ~disturbed
       /\ cachedAgent'[session[r]] # cachedAgent[session[r]]
       => cachedAgent'[session[r]] \in bots \cup {NoAgent}]_accessVars
=============================================================================
