------------------------------ MODULE ChatTurn ------------------------------
(***************************************************************************)
(* One turn of ModelSession.run (packages/core/src/model.ts): at most two   *)
(* calls of CopilotSession.chat (packages/core/src/session.ts), the second  *)
(* after the first one's promise rejected.                                 *)
(*                                                                         *)
(* chat() connects a WebSocket, exchanges the SignalR handshake, sends the *)
(* chat frame and resolves to a stream at once; frames that arrive later   *)
(* feed the stream's delta pump, from which the caller pulls.  The socket's*)
(* events, the abort signal, the watchdog, the delayed closes and the      *)
(* caller interleave freely.                                               *)
(*                                                                         *)
(* Texts are sequences over Chars.  Time is left out: a timer may fire at  *)
(* any moment after it was armed.  Native actions are left out: the proxy  *)
(* never configures them, and without them maybeResumeAction does nothing. *)
(***************************************************************************)
EXTENDS Integers, SequencesExt

CONSTANTS
  Chars,   \* what texts are made of
  MaxLen   \* bound: the longest answer

ASSUME ChatAssumption == MaxLen \in Nat \ {0}

VARIABLES
  attempt,    \* 1 or 2: which call of chat() this is
  parked,     \* the pre-warmed socket chat() finds: "none", "open" or "closing"
  promise,    \* the promise chat() returned, "unmade" before the call
  ws,         \* the socket's readyState; "failing" is a close() while connecting
  handshake,  \* handshakeDone
  cancelled,  \* the caller's signal has aborted
  stopped,    \* onAbort has run
  watchdog,   \* "armed", "fired" or "off"
  closers,    \* delayed ws.close() calls still to come
  answer,     \* the folded answer
  queue,      \* deltas nobody has pulled yet
  streamEnd,  \* "open", "done" or "error": streamDone and streamError
  caller,     \* "absent", "busy", "waiting" in next(), "done" or "failed"
  emitted,    \* history: every delta handed to onDelta, in order
  delivered,  \* history: every delta the caller got
  diverged    \* history: at the last diverging snapshot, what had been streamed and
              \* the answer it was replaced by

socketVars == <<promise, ws, handshake, stopped, watchdog, closers>>
pumpVars == <<answer, queue, streamEnd, caller, emitted, delivered, diverged>>
chatVars == <<attempt, parked, cancelled, socketVars, pumpVars>>

Texts == BoundedSeq(Chars, MaxLen)
Pieces == Texts \ {<<>>}

ChatTypeOK ==
  /\ attempt \in 1..2
  /\ parked \in {"none", "open", "closing"}
  /\ promise \in {"unmade", "pending", "resolved", "rejected"}
  /\ ws \in {"none", "connecting", "failing", "open", "closing", "closed"}
  /\ handshake \in BOOLEAN /\ cancelled \in BOOLEAN /\ stopped \in BOOLEAN
  /\ watchdog \in {"armed", "fired", "off"}
  /\ closers \subseteq {"abort", "watchdog"}
  /\ answer \in Texts
  /\ streamEnd \in {"open", "done", "error"}
  /\ caller \in {"absent", "busy", "waiting", "done", "failed"}
  /\ queue \in Seq(Pieces) /\ emitted \in Seq(Pieces) /\ delivered \in Seq(Pieces)
  /\ diverged \in [streamed : Seq(Chars), adopted : Texts]

NeverDiverged == [streamed |-> <<>>, adopted |-> <<>>]

Fresh ==
  /\ promise = "unmade" /\ ws = "none" /\ handshake = FALSE /\ stopped = FALSE
  /\ watchdog = "off" /\ closers = {}
  /\ answer = <<>> /\ queue = <<>> /\ streamEnd = "open" /\ caller = "absent"
  /\ emitted = <<>> /\ delivered = <<>> /\ diverged = NeverDiverged

ChatInit ==
  /\ attempt = 1
  /\ parked \in {"none", "open", "closing"}
  /\ cancelled \in BOOLEAN
  /\ Fresh
-----------------------------------------------------------------------------
(* The delta pump. *)

\* onDelta: the delta goes to the waiting caller, else into the queue.
OnDelta(piece) ==
  /\ emitted' = Append(emitted, piece)
  /\ IF caller = "waiting"
     THEN /\ delivered' = Append(delivered, piece)
          /\ caller' = "busy"
          /\ UNCHANGED queue
     ELSE /\ queue' = Append(queue, piece)
          /\ UNCHANGED <<delivered, caller>>
  /\ UNCHANGED <<streamEnd, diverged>>

\* onDone, which leaves an earlier error in place.
OnDone_ForgetsError ==
  /\ streamEnd' = "done"
  /\ caller' = IF caller = "waiting" THEN "done" ELSE caller
  /\ UNCHANGED <<answer, queue, emitted, delivered, diverged>>

OnDone ==
  /\ streamEnd' = IF streamEnd = "error" THEN "error" ELSE "done"
  /\ caller' = IF caller = "waiting" THEN "done" ELSE caller
  /\ UNCHANGED <<answer, queue, emitted, delivered, diverged>>

OnError ==
  /\ streamEnd' = "error"
  /\ caller' = IF caller = "waiting" THEN "failed" ELSE caller
  /\ UNCHANGED <<answer, queue, emitted, delivered, diverged>>

\* foldStreamText: a text that is no longer is ignored, one that extends the
\* answer is adopted and its new suffix streamed, one that is longer and
\* diverges is adopted and not streamed.
Diverge(next) ==
  /\ answer' = next
  /\ diverged' = [streamed |-> FlattenSeq(emitted), adopted |-> next]
  /\ UNCHANGED <<queue, streamEnd, caller, emitted, delivered>>

Fold_StreamsSnapshot(next) ==
  CASE Len(next) <= Len(answer) -> UNCHANGED pumpVars
    [] Len(next) > Len(answer) /\ IsPrefix(answer, next) ->
         /\ answer' = next
         /\ OnDelta(next)
    [] OTHER -> Diverge(next)

Fold(next) ==
  CASE Len(next) <= Len(answer) -> UNCHANGED pumpVars
    [] Len(next) > Len(answer) /\ IsPrefix(answer, next) ->
         /\ answer' = next
         /\ OnDelta(SubSeq(next, Len(answer) + 1, Len(next)))
    [] OTHER -> Diverge(next)

\* next(): buffered deltas come before the error and the end.
Pull_EndFirst ==
  /\ promise = "resolved" /\ caller \in {"absent", "busy"}
  /\ IF streamEnd = "open"
     THEN IF queue = <<>>
          THEN caller' = "waiting" /\ UNCHANGED <<delivered, queue>>
          ELSE /\ delivered' = Append(delivered, Head(queue))
               /\ queue' = Tail(queue)
               /\ caller' = "busy"
     ELSE /\ caller' = IF streamEnd = "error" THEN "failed" ELSE "done"
          /\ UNCHANGED <<delivered, queue>>
  /\ UNCHANGED <<attempt, parked, cancelled, socketVars, answer, streamEnd, emitted, diverged>>

Pull ==
  /\ promise = "resolved" /\ caller \in {"absent", "busy"}
  /\ IF queue # <<>>
     THEN /\ delivered' = Append(delivered, Head(queue))
          /\ queue' = Tail(queue)
          /\ caller' = "busy"
     ELSE /\ caller' = CASE streamEnd = "error" -> "failed"
                         [] streamEnd = "done" -> "done"
                         [] OTHER -> "waiting"
          /\ UNCHANGED <<delivered, queue>>
  /\ UNCHANGED <<attempt, parked, cancelled, socketVars, answer, streamEnd, emitted, diverged>>
-----------------------------------------------------------------------------
(* The call and the socket. *)

\* ws.close(): a handshake in progress is abandoned, an open socket starts its
\* closing handshake, a closing or closed one is left alone.
Closing(s) == CASE s = "connecting" -> "failing" [] s = "open" -> "closing" [] OTHER -> s

\* chat() finds a parked OPEN socket and calls sendChat before its declaration
\* has been evaluated: the executor throws and the promise rejects.
BeginWarm ==
  /\ promise = "unmade" /\ parked = "open"
  /\ parked' = "none"
  /\ promise' = "rejected"
  /\ UNCHANGED <<attempt, cancelled, ws, handshake, stopped, watchdog, closers, pumpVars>>

\* chat() opens a socket, and closes it again if the signal was aborted before.
BeginCold_IgnoresSignal ==
  /\ promise = "unmade" /\ parked # "open"
  /\ parked' = "none"
  /\ promise' = "pending"
  /\ ws' = "connecting"
  /\ watchdog' = "armed"
  /\ UNCHANGED <<attempt, cancelled, handshake, stopped, closers, pumpVars>>

BeginCold ==
  /\ promise = "unmade" /\ parked # "open"
  /\ parked' = "none"
  /\ promise' = "pending"
  /\ ws' = IF cancelled THEN Closing("connecting") ELSE "connecting"
  /\ stopped' = cancelled
  /\ watchdog' = "armed"
  /\ UNCHANGED <<attempt, cancelled, handshake, closers, pumpVars>>

\* run() reconnects once, on a new CopilotSession, which has nothing parked.
Retry ==
  /\ promise = "rejected" /\ attempt = 1
  /\ attempt' = 2
  /\ parked' = "none"
  /\ promise' = "unmade" /\ ws' = "none" /\ handshake' = FALSE /\ stopped' = FALSE
  /\ watchdog' = "off" /\ closers' = {}
  /\ answer' = <<>> /\ queue' = <<>> /\ streamEnd' = "open" /\ caller' = "absent"
  /\ emitted' = <<>> /\ delivered' = <<>> /\ diverged' = NeverDiverged
  /\ UNCHANGED cancelled

Connected ==
  /\ ws = "connecting"
  /\ ws' = "open"
  /\ UNCHANGED <<attempt, parked, cancelled, promise, handshake, stopped, watchdog, closers, pumpVars>>

\* The connection fails, or was abandoned: the error event, then close.
ConnectFails ==
  /\ ws \in {"connecting", "failing"}
  /\ ws' = "closed" /\ watchdog' = "off"
  /\ promise' = "rejected"
  /\ OnDone
  /\ UNCHANGED <<attempt, parked, cancelled, handshake, stopped, closers>>

\* The first frame answers the handshake.  sendChat sends the chat frame and
\* resolves; on a closing socket the frame is silently dropped, and a promise that
\* an error has rejected stays rejected.
HandshakeAccepted ==
  /\ ws \in {"open", "closing"} /\ ~handshake
  /\ handshake' = TRUE
  /\ promise' = IF promise = "pending" THEN "resolved" ELSE promise
  /\ UNCHANGED <<attempt, parked, cancelled, ws, stopped, watchdog, closers, pumpVars>>

HandshakeRefused ==
  /\ ws \in {"open", "closing"} /\ ~handshake
  /\ handshake' = TRUE
  /\ ws' = Closing(ws)
  /\ promise' = "rejected"
  /\ UNCHANGED <<attempt, parked, cancelled, stopped, watchdog, closers, pumpVars>>

\* A type 1 update: a token (next = answer + token) or a snapshot of the text.
Update(next) ==
  /\ ws \in {"open", "closing"} /\ handshake
  /\ Fold(next)
  /\ UNCHANGED <<attempt, parked, cancelled, socketVars>>

\* The turn's last frame: type 2, 3 or 7, the latter two possibly with an error.
LastFrame(failed) ==
  /\ ws \in {"open", "closing"} /\ handshake
  /\ ws' = Closing(ws)
  /\ IF failed THEN OnError ELSE UNCHANGED pumpVars
  /\ UNCHANGED <<attempt, parked, cancelled, promise, handshake, stopped, watchdog, closers>>

\* An error event of an open socket; its close event follows.
SocketError ==
  /\ ws \in {"open", "closing"}
  /\ ws' = "closing"
  /\ IF handshake
     THEN OnError /\ UNCHANGED promise
     ELSE promise' = "rejected" /\ UNCHANGED pumpVars
  /\ UNCHANGED <<attempt, parked, cancelled, handshake, stopped, watchdog, closers>>

\* The close event, asked for or not.  It ends the stream, not the promise.
CloseEvent_NoEnd ==
  /\ ws' = "closed" /\ watchdog' = "off"
  /\ UNCHANGED <<attempt, parked, cancelled, promise, handshake, stopped, closers, pumpVars>>
CloseEvent ==
  /\ ws' = "closed" /\ watchdog' = "off"
  /\ OnDone
  /\ UNCHANGED <<attempt, parked, cancelled, promise, handshake, stopped, closers>>

ClosedAsAsked == ws = "closing" /\ CloseEvent
ServerDrops == ws = "open" /\ CloseEvent
-----------------------------------------------------------------------------
(* Cancellation and the watchdog. *)

\* The caller's signal aborts; the listener is gone once the socket closed.
AbortTurn ==
  /\ ~cancelled
  /\ cancelled' = TRUE
  /\ IF ws \in {"none", "closed"}
     THEN UNCHANGED socketVars
     ELSE /\ stopped' = TRUE
          /\ IF ws = "open" /\ handshake
             THEN closers' = closers \cup {"abort"} /\ UNCHANGED ws
             ELSE ws' = Closing(ws) /\ UNCHANGED closers
          /\ UNCHANGED <<promise, handshake, watchdog>>
  /\ UNCHANGED <<attempt, parked, pumpVars>>

\* The interval finds the turn without content for too long: Stop frame, and
\* the socket is closed a second later.
WatchdogFires_NoClose ==
  /\ watchdog = "armed" /\ ~stopped /\ answer = <<>>
  /\ watchdog' = "fired"
  /\ UNCHANGED <<attempt, parked, cancelled, promise, ws, handshake, stopped, closers, pumpVars>>
WatchdogFires ==
  /\ watchdog = "armed" /\ ~stopped /\ answer = <<>>
  /\ watchdog' = "fired"
  /\ closers' = closers \cup {"watchdog"}
  /\ UNCHANGED <<attempt, parked, cancelled, promise, ws, handshake, stopped, pumpVars>>

CloserFires(x) ==
  /\ x \in closers
  /\ closers' = closers \ {x}
  /\ ws' = Closing(ws)
  /\ UNCHANGED <<attempt, parked, cancelled, promise, handshake, stopped, watchdog, pumpVars>>
-----------------------------------------------------------------------------
Server ==
  \/ Connected \/ ConnectFails
  \/ HandshakeAccepted \/ HandshakeRefused
  \/ \E next \in Texts : Update(next)
  \/ \E failed \in BOOLEAN : LastFrame(failed)
  \/ SocketError \/ ServerDrops

Client ==
  \/ BeginWarm \/ BeginCold \/ Retry
  \/ Pull
  \/ WatchdogFires
  \/ \E x \in {"abort", "watchdog"} : CloserFires(x)
  \/ ClosedAsAsked

ChatNext == Server \/ Client \/ AbortTurn

ChatSpec == ChatInit /\ [][ChatNext]_chatVars

\* The event loop runs what the client owes: its own calls, its timers (the
\* watchdog's interval among them) and the close events of sockets it closed,
\* which the WebSocket library forces after a delay.  An abandoned connection
\* attempt fails.  Nothing is asked of the server.
Fairness ==
  /\ WF_chatVars(BeginWarm \/ BeginCold \/ Retry)
  /\ WF_chatVars(Pull)
  /\ WF_chatVars(WatchdogFires)
  /\ \A x \in {"abort", "watchdog"} : WF_chatVars(CloserFires(x))
  /\ WF_chatVars(ClosedAsAsked)
  /\ WF_chatVars(ws = "failing" /\ ConnectFails)

FairChatSpec == ChatSpec /\ Fairness
-----------------------------------------------------------------------------
(* What the turn promises. *)

\* No delta is lost, doubled or reordered between the socket and the caller,
\* whenever the caller starts to pull, and a caller told the stream is over has
\* had all of it (the delta pump, session.ts 411-415 and next(), 526-542).
NothingDropped ==
  /\ delivered \o queue = emitted
  /\ caller = "done" => queue = <<>>

\* Cumulative snapshots and tokens mix, and every text is streamed once: what was
\* streamed since the last diverging snapshot is what the answer has grown by since,
\* and without one the stream is the answer (foldStreamText, session.ts 134-154).
StreamsOnce ==
  \E grown \in Texts :
    /\ answer = diverged.adopted \o grown
    /\ FlattenSeq(emitted) = diverged.streamed \o grown

\* A stream that failed never looks complete: once an error frame or a socket error
\* was seen, no close event, late frame, abort or pull turns it into a normal end
\* before the turn is repeated (onError and onDone, session.ts 433-449).
ErrorSurfaces ==
  [][(streamEnd = "error" /\ attempt' = attempt)
       => streamEnd' = "error" /\ caller' # "done"]_chatVars

\* A turn cancelled before its chat frame is out never sends one, on either of the
\* two attempts: it costs nothing of the message quota (onAbort, 566-591).
CancelledNotSent ==
  [][(promise = "pending" /\ promise' = "resolved" /\ ws = "open") => ~cancelled]_chatVars

Over == caller \in {"done", "failed"}

\* Once the chat frame is out, a turn the server never answers still ends: the
\* watchdog closes the socket and the caller's loop finishes (593-625).
SilentTurnEnds == promise = "resolved" ~> Over \/ answer # <<>>

\* A cancelled turn ends, whatever the server does, if its chat frame is out:
\* the hard-close fallback needs no acknowledgement (566-591).
CancelledTurnEnds == cancelled /\ promise = "resolved" ~> Over

(* What the comments say, and the code does not do. *)

\* "send Stop and drop the socket -- the handler's empty-retry then re-runs on a
\* fresh conversation" (595-597): the watchdog gets a stalled chat() out of the
\* way, so that its promise settles.
WatchdogUnblocks == watchdog = "fired" ~> promise # "pending"

\* "This keeps every emitted suffix a true prefix of the final answer" (145): after a
\* diverging snapshot what was streamed need not begin the answer, and a token that
\* follows is streamed behind it.
StreamedPrefix == IsPrefix(FlattenSeq(emitted), answer)
=============================================================================
