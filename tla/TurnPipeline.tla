---------------------------- MODULE TurnPipeline ----------------------------
(***************************************************************************)
(* The way of a request through the proxy: runBuffered's attempts, each a  *)
(* turn that passes the FIFO queue (turn-queue.ts) and, inside it, the     *)
(* gate (gate.ts), is sent by session.run, and is drained outside of both  *)
(* (packages/proxy-lib/src/handler.ts).                                    *)
(*                                                                         *)
(* The queue is the abstract SerialQueue, which TurnQueue implements, the  *)
(* gate is TurnGate.  Turn <<r, k>> is the k-th turn of request r; a       *)
(* request stands for one call of runBuffered.                             *)
(***************************************************************************)
EXTENDS RetryLoop, FiniteSets, Sequences

CONSTANTS
  Requests,
  Keys, NoKey,    \* conversation fingerprints
  ConfiguredMax,  \* the gate's limit
  Gap, ClockSlip,
  NaN

ASSUME PipelineAssumption ==
  /\ IsFiniteSet(Requests)
  /\ NoKey \notin Keys /\ NaN \notin Nat /\ ConfiguredMax \in Nat \cup {NaN}
  /\ Gap \in Nat /\ ClockSlip \in Nat

\* One more turn per request than its retries allow.
Turns == Requests \X (1..(MaxRetries + 3))

VARIABLES
  inflight, sinceStart, seen, waiters, timer, pc, key, isNew, sinceFirst,  \* the gate's
  order, state,  \* the queue's
  fingerprint,   \* the conversation of each request
  hasTools,      \* the request carries tools
  stage,         \* "ready" to enqueue, "turn", "hung" in it, "streaming", "stalled" at
                 \* it, "answered" or "failed"
  attempt,       \* runBuffered's attempt
  rotated,       \* disengageRetried
  turn,          \* turns the request has enqueued
  sends          \* history: chat frames sent for the request

gateVars == <<inflight, sinceStart, seen, waiters, timer, pc, key, isNew, sinceFirst>>
queueVars == <<order, state>>
requestVars == <<fingerprint, hasTools, stage, attempt, rotated, turn, sends>>
vars == <<gateVars, queueVars, requestVars>>

Gate == INSTANCE TurnGate WITH Callers <- Turns
Queue == INSTANCE SerialQueue

Stages == {"ready", "turn", "hung", "streaming", "stalled", "answered", "failed"}

TypeOK ==
  /\ Gate!TypeOK
  /\ order \in Seq(Turns)
  /\ state \in [Turns -> {"absent", "waiting", "active", "over"}]
  /\ fingerprint \in [Requests -> Keys] /\ hasTools \in [Requests -> BOOLEAN]
  /\ stage \in [Requests -> Stages]
  /\ attempt \in [Requests -> 0..MaxRetries] /\ rotated \in [Requests -> BOOLEAN]
  /\ turn \in [Requests -> 0..(MaxRetries + 2)] /\ sends \in [Requests -> Nat]

Init ==
  /\ Gate!Init /\ Queue!Init
  /\ fingerprint \in [Requests -> Keys] /\ hasTools \in [Requests -> BOOLEAN]
  /\ stage = [r \in Requests |-> "ready"]
  /\ attempt = [r \in Requests |-> 0] /\ rotated = [r \in Requests |-> FALSE]
  /\ turn = [r \in Requests |-> 0] /\ sends = [r \in Requests |-> 0]
-----------------------------------------------------------------------------
\* The turn request r is waiting for.
Current(r) == <<r, turn[r]>>

\* The next turn of the request joins the queue, after the degradation backoff's
\* delay, or before a retry the agent's refresh and a pause.
Enqueue(r) ==
  /\ stage[r] = "ready"
  /\ Queue!Arrive(<<r, turn[r] + 1>>)
  /\ turn' = [turn EXCEPT ![r] = @ + 1]
  /\ stage' = [stage EXCEPT ![r] = "turn"]
  /\ UNCHANGED <<gateVars, fingerprint, hasTools, attempt, rotated, sends>>

\* The queue calls the turn's function, which enters the gate at once.
Begin_NotAwaited(r) ==
  /\ stage[r] = "turn"
  /\ state[Current(r)] = "waiting" /\ \A j \in Turns : state[j] # "active"
  /\ state' = [state EXCEPT ![Current(r)] = "over"] /\ UNCHANGED order
  /\ Gate!Call(Current(r), fingerprint[r])
  /\ UNCHANGED requestVars

Begin(r) ==
  /\ stage[r] = "turn"
  /\ Queue!Begin(Current(r))
  /\ Gate!Call(Current(r), fingerprint[r])
  /\ UNCHANGED requestVars

Resume(r) ==
  /\ stage[r] = "turn"
  /\ Gate!Resume(Current(r))
  /\ UNCHANGED <<queueVars, requestVars>>

TimerFires(r) ==
  /\ stage[r] = "turn"
  /\ Gate!TimerFires(Current(r))
  /\ UNCHANGED <<queueVars, requestVars>>

\* session.run resolves: the chat frame is out.  Slot and queue are given up and
\* the stream is drained outside of both.
Sent(r) ==
  /\ stage[r] = "turn"
  /\ Gate!Finish(Current(r)) /\ Queue!End(Current(r))
  /\ stage' = [stage EXCEPT ![r] = "streaming"]
  /\ sends' = [sends EXCEPT ![r] = @ + 1]
  /\ UNCHANGED <<fingerprint, hasTools, attempt, rotated, turn>>

\* session.run rejects, and so does the request.
Refused_HoldsQueue(r) ==
  /\ stage[r] = "turn"
  /\ Gate!Finish(Current(r)) /\ UNCHANGED queueVars
  /\ stage' = [stage EXCEPT ![r] = "failed"]
  /\ UNCHANGED <<fingerprint, hasTools, attempt, rotated, turn, sends>>

Refused(r) ==
  /\ stage[r] = "turn"
  /\ Gate!Finish(Current(r)) /\ Queue!End(Current(r))
  /\ stage' = [stage EXCEPT ![r] = "failed"]
  /\ UNCHANGED <<fingerprint, hasTools, attempt, rotated, turn, sends>>

\* The socket closes before the handshake: nothing settles session.run any more,
\* and slot and queue are never given up.
Hang(r) ==
  /\ stage[r] = "turn" /\ pc[Current(r)] = "running"
  /\ stage' = [stage EXCEPT ![r] = "hung"]
  /\ UNCHANGED <<gateVars, queueVars, fingerprint, hasTools, attempt, rotated, turn, sends>>

\* The server falls silent after the first content, which the watchdog lets it.
Stall(r) ==
  /\ stage[r] = "streaming"
  /\ stage' = [stage EXCEPT ![r] = "stalled"]
  /\ UNCHANGED <<gateVars, queueVars, fingerprint, hasTools, attempt, rotated, turn, sends>>

\* The stream is drained, and runBuffered looks at what came.  A stalled one had
\* content; it ends only if the server goes on, the socket drops or the client stops.
StreamEnds(r, outcome) ==
  LET verdict == Verdict(outcome, hasTools[r], attempt[r], rotated[r]) IN
  /\ \/ stage[r] = "streaming"
     \/ stage[r] = "stalled" /\ outcome \in {"content", "error"}
  /\ stage' = [stage EXCEPT ![r] = CASE verdict = "answer" -> "answered"
                                     [] verdict \in {"rotate", "retry"} -> "ready"
                                     [] OTHER -> "failed"]
  /\ attempt' = IF verdict = "retry" THEN [attempt EXCEPT ![r] = @ + 1] ELSE attempt
  /\ rotated' = IF verdict = "rotate" THEN [rotated EXCEPT ![r] = TRUE] ELSE rotated
  /\ UNCHANGED <<gateVars, queueVars, fingerprint, hasTools, turn, sends>>

Tick ==
  /\ Gate!Tick
  /\ UNCHANGED <<queueVars, requestVars>>

Next ==
  \/ \E r \in Requests :
       \/ Enqueue(r) \/ Begin(r) \/ Resume(r) \/ TimerFires(r) \/ Sent(r) \/ Refused(r)
       \/ Hang(r) \/ Stall(r)
       \/ \E outcome \in Outcomes : StreamEnds(r, outcome)
  \/ Tick

Spec == Init /\ [][Next]_vars

\* Microtasks, timers and the clock go on.  A turn is sent, refused or hangs, and a
\* stream ends or stalls, which ChatTurn is about; nothing ends what hangs or stalls.
FairSpec ==
  /\ Spec /\ WF_vars(Tick)
  /\ \A r \in Requests :
       /\ WF_vars(Enqueue(r)) /\ WF_vars(Begin(r))
       /\ WF_vars(Resume(r)) /\ WF_vars(TimerFires(r))
       /\ WF_vars(Sent(r) \/ Refused(r) \/ Hang(r))
       /\ WF_vars(stage[r] = "streaming" /\ (Stall(r) \/ \E outcome \in Outcomes : StreamEnds(r, outcome)))
-----------------------------------------------------------------------------
(* Properties. *)

Ended(r) == stage[r] \in {"answered", "failed"}

\* The gate never holds more than the queue's active turn, and the queue is never
\* held by a turn that left the gate: at most one turn at a time is connecting,
\* whatever the gate's own limit (handler.ts 808-814).
OneConnecting ==
  /\ \A j \in Turns : pc[j] # "idle" <=> state[j] = "active"
  /\ Cardinality({j \in Turns : pc[j] # "idle"}) <= 1

\* However its turns end, a request sends one message per attempt and one more for
\* the single Disengage retry (911-917, 939-958), to spare the message quota.
QuotaBound ==
  /\ TypeOK
  /\ \A r \in Requests :
       sends[r] <= attempt[r] + 1 + (IF rotated[r] THEN 1 ELSE 0) /\ attempt[r] <= MaxRetries

\* A request is answered or fails, through queue, gate and retries, unless the
\* server stalls its own stream: a stalled stream and a refused turn hold up nobody
\* else (gate.ts 64-117, turn-queue.ts 24-37, handler.ts 812-814).  The exception is
\* a turn that hangs in the queue: it may hold up everyone (session.ts 677-685).
EveryRequestEnds ==
  \A r \in Requests : <>(Ended(r) \/ stage[r] = "stalled" \/ \E q \in Requests : stage[q] = "hung")

(* What the comments say, and the code does not do. *)

\* "each M365 turn holds the single slot until its stream fully drains"
\* (turn-queue.ts 6-7), "one M365 turn at a time account-wide" (handler.ts 811).
OneTurnAtATime ==
  Cardinality({r \in Requests : stage[r] = "streaming"})
    + Cardinality({j \in Turns : pc[j] = "running"}) <= 1
=============================================================================
