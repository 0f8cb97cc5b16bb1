---------------------------- MODULE AnswerProofs ----------------------------
(***************************************************************************)
(* What an answer keeps on its way from M365 to the client, for texts over *)
(* any alphabet and of any length.                                         *)
(*                                                                         *)
(* Of ChatTurn, one turn's stream: the delta pump neither drops nor        *)
(* repeats text, never hides an error and never sends a cancelled turn.    *)
(*                                                                         *)
(* Of ToolRounds, the rounds and the rendering, whatever M365 writes, how  *)
(* its text is cut into deltas and what the bounds of the loops are: the   *)
(* budget of rounds, the calls that reach the client, the prose that       *)
(* streams before a fence, the blocks of the streamed answer, and that the *)
(* client reads all of it.                                                 *)
(***************************************************************************)
EXTENDS ChatTurn, ToolRounds, StreamRenderProofs

-----------------------------------------------------------------------------
(* One turn. *)

\* The inductive invariant.  What the two properties rest on: only a closed
\* socket ends a stream normally, so no delta can follow the end; a waiting
\* caller faces an empty queue and a live stream; and nothing happened before
\* the call of chat() was made.
StreamInv ==
  /\ ChatTypeOK
  /\ NothingDropped
  /\ caller = "waiting" => queue = <<>> /\ streamEnd = "open"
  /\ streamEnd = "done" => ws = "closed"
  /\ caller = "done" => streamEnd = "done"
  /\ promise = "unmade" => ws = "none"
  /\ promise = "resolved" => ws # "none"
  /\ ws = "none" => streamEnd = "open" /\ caller = "absent"

\* A text is a sequence over the alphabet.
LEMMA TextIsSeq == ASSUME NEW s \in Texts PROVE s \in Seq(Chars) /\ Len(s) \in 0..MaxLen
<1>1. PICK m \in 0..MaxLen : s \in [1..m -> Chars]
  BY DEF Texts, BoundedSeq, SeqOf
<1>2. m \in Nat
  BY <1>1, ChatAssumption
<1>3. QED
  BY <1>1, <1>2, ChatAssumption

\* What is streamed of a longer text is a piece: not empty, and no longer.
LEMMA SuffixIsPiece ==
  ASSUME NEW s \in Texts, NEW k \in Nat, k < Len(s)
  PROVE  SubSeq(s, k + 1, Len(s)) \in Pieces
<1> DEFINE u == SubSeq(s, k + 1, Len(s))
<1>1. s \in Seq(Chars) /\ Len(s) \in 0..MaxLen /\ Len(s) \in Nat
  BY TextIsSeq, ChatAssumption
<1>2. \A i \in (k + 1)..Len(s) : s[i] \in Chars
  BY <1>1, ElementOfSeq
<1>3. u \in Seq(Chars) /\ Len(u) = Len(s) - k
  BY <1>1, <1>2, SubSeqProperties
<1> HIDE DEF u
<1>4. Len(u) \in 0..MaxLen /\ Len(u) # 0
  BY <1>1, <1>3, ChatAssumption
<1>5. u \in [1..Len(u) -> Chars]
  BY <1>3
<1>6. u \in Texts
  BY <1>4, <1>5 DEF Texts, BoundedSeq, SeqOf
<1>7. u # <<>>
  BY <1>4
<1>8. QED
  BY <1>6, <1>7 DEF Pieces, u

\* Moving the head of a queue behind what was taken before keeps their join.
LEMMA PulledHead ==
  ASSUME NEW S, NEW taken \in Seq(S), NEW q \in Seq(S), q # <<>>
  PROVE  Append(taken, Head(q)) \o Tail(q) = taken \o q
OBVIOUS

LEMMA Regrouped ==
  \A s, t, u \in Seq(Chars) : (s \o t) \o u = s \o (t \o u)
BY ConcatAssociative

LEMMA EmptyText == <<>> \in Texts
<1>1. <<>> \in [1..0 -> Chars] /\ 0 \in 0..MaxLen
  BY ChatAssumption
<1>2. QED
  BY <1>1 DEF Texts, BoundedSeq, SeqOf

\* The pieces that were streamed are texts, and joined they are one.
LEMMA EmittedTexts ==
  ASSUME NEW s \in Seq(Pieces)
  PROVE  s \in Seq(Seq(Chars)) /\ FlattenSeq(s) \in Seq(Chars) /\ Len(FlattenSeq(s)) \in Nat
<1>1. \A i \in 1..Len(s) : s[i] \in Seq(Chars)
  <2> SUFFICES ASSUME NEW i \in 1..Len(s) PROVE s[i] \in Seq(Chars)
    OBVIOUS
  <2>1. s[i] \in Texts
    BY DEF Pieces
  <2> QED BY <2>1, TextIsSeq
<1>2. s \in Seq(Seq(Chars))
  BY <1>1
<1>3. FlattenSeq(s) \in Seq(Chars)
  BY <1>2, FlattenSeqType
<1> DEFINE f == FlattenSeq(s)
<1> HIDE DEF f
<1>4. f \in Seq(Chars)
  BY <1>3 DEF f
<1>5. Len(f) \in Nat
  BY <1>4
<1> QED BY <1>2, <1>4, <1>5 DEF f

LEMMA NothingStreamed == FlattenSeq(<<>>) = <<>>
<1>1. <<>> \in Seq(Seq(Chars)) /\ Len(<<>>) = 0
  OBVIOUS
<1> QED BY <1>1, FlattenSeqType

LEMMA StreamInvInit == ChatInit => StreamInv
<1> SUFFICES ASSUME ChatInit PROVE StreamInv
  OBVIOUS
<1>1. <<>> \in Texts
  BY EmptyText
<1>2. <<>> \in Seq(Pieces) /\ <<>> \o <<>> = <<>>
  BY EmptySeq, ConcatEmptySeq
<1>3. ChatTypeOK
  <2>1. handshake \in BOOLEAN /\ cancelled \in BOOLEAN /\ stopped \in BOOLEAN
    BY Zenon DEF ChatInit, Fresh
  <2>2. answer \in Texts /\ queue \in Seq(Pieces) /\ emitted \in Seq(Pieces)
        /\ delivered \in Seq(Pieces)
    BY <1>1, <1>2, Zenon DEF ChatInit, Fresh
  <2>3. attempt \in 1..2
    BY DEF ChatInit
  <2>4. diverged \in [streamed : Seq(Chars), adopted : Texts]
    <3>1. <<>> \in Seq(Chars)
      BY EmptySeq
    <3> QED BY <1>1, <3>1 DEF ChatInit, Fresh, NeverDiverged
  <2>5. QED
    BY <2>1, <2>2, <2>3, <2>4, Zenon DEF ChatInit, Fresh, ChatTypeOK
<1>4. NothingDropped
  BY <1>2 DEF ChatInit, Fresh, NothingDropped
<1>5. QED
  BY <1>3, <1>4 DEF ChatInit, Fresh, StreamInv

\* Handing over a piece keeps the pump exact.
LEMMA OnDeltaExact ==
  ASSUME StreamInv, NEW p \in Pieces, OnDelta(p)
  PROVE  /\ queue' \in Seq(Pieces) /\ emitted' \in Seq(Pieces) /\ delivered' \in Seq(Pieces)
         /\ caller' \in {"absent", "busy", "waiting", "done", "failed"}
         /\ delivered' \o queue' = emitted'
         /\ caller' # "waiting"
         /\ caller' = "done" => caller = "done"
         /\ streamEnd' = streamEnd /\ diverged' = diverged
<1>1. /\ queue \in Seq(Pieces) /\ emitted \in Seq(Pieces) /\ delivered \in Seq(Pieces)
      /\ delivered \o queue = emitted
      /\ caller = "waiting" => queue = <<>>
  BY DEF StreamInv, ChatTypeOK, NothingDropped
<1>2. Append(emitted, p) \in Seq(Pieces)
  BY <1>1, AppendProperties
<1>3. CASE caller = "waiting"
  <2>1. delivered = emitted
    BY <1>1, <1>3, ConcatEmptySeq
  <2>2. Append(emitted, p) \o <<>> = Append(emitted, p)
    BY <1>2, ConcatEmptySeq
  <2>3. QED
    BY <1>1, <1>2, <1>3, <2>1, <2>2 DEF OnDelta
<1>4. CASE caller # "waiting"
  <2>1. /\ Append(queue, p) \in Seq(Pieces) /\ <<p>> \in Seq(Pieces)
        /\ Append(queue, p) = queue \o <<p>> /\ Append(emitted, p) = emitted \o <<p>>
    BY <1>1, AppendProperties, AppendIsConcat
  <2>2. delivered \o Append(queue, p) = Append(emitted, p)
    BY <1>1, <2>1, ConcatAssociative
  <2>3. QED
    BY <1>1, <1>2, <1>4, <2>1, <2>2 DEF OnDelta, StreamInv, ChatTypeOK
<1>5. QED
  BY <1>3, <1>4

\* foldStreamText followed by the pump, on a live socket.
LEMMA FoldExact ==
  ASSUME StreamInv, NEW next \in Texts, Fold(next), caller # "done"
  PROVE  /\ answer' \in Texts /\ streamEnd' = streamEnd
         /\ queue' \in Seq(Pieces) /\ emitted' \in Seq(Pieces) /\ delivered' \in Seq(Pieces)
         /\ caller' \in {"absent", "busy", "waiting", "failed"}
         /\ delivered' \o queue' = emitted'
         /\ caller' = "waiting" => queue' = <<>> /\ caller = "waiting"
         /\ diverged' \in [streamed : Seq(Chars), adopted : Texts]
<1>1. /\ Len(next) \in Nat /\ Len(answer) \in Nat
      /\ answer \in Texts /\ queue \in Seq(Pieces) /\ emitted \in Seq(Pieces)
      /\ delivered \in Seq(Pieces) /\ diverged \in [streamed : Seq(Chars), adopted : Texts]
      /\ caller \in {"absent", "busy", "waiting", "failed"}
      /\ delivered \o queue = emitted
      /\ caller = "waiting" => queue = <<>>
  BY TextIsSeq, ChatAssumption DEF StreamInv, ChatTypeOK, NothingDropped
<1>2. CASE Len(next) > Len(answer) /\ IsPrefix(answer, next)
  <2>1. answer' = next /\ OnDelta(SubSeq(next, Len(answer) + 1, Len(next)))
    BY <1>1, <1>2 DEF Fold
  <2>2. SubSeq(next, Len(answer) + 1, Len(next)) \in Pieces
    BY <1>1, <1>2, SuffixIsPiece
  <2>3. QED
    BY <1>1, <2>1, <2>2, OnDeltaExact
<1>3. CASE ~(Len(next) > Len(answer) /\ IsPrefix(answer, next))
  <2>1. /\ UNCHANGED <<queue, streamEnd, caller, emitted, delivered>> /\ answer' \in {answer, next}
        /\ diverged' \in {diverged, [streamed |-> FlattenSeq(emitted), adopted |-> next]}
    BY <1>1, <1>3 DEF Fold, Diverge, pumpVars
  <2>2. FlattenSeq(emitted) \in Seq(Chars)
    BY <1>1, EmittedTexts
  <2>3. QED
    BY <1>1, <2>1, <2>2
<1>4. QED
  BY <1>2, <1>3

\* The end of a stream, normal or not, leaves the texts alone.
LEMMA EndExact ==
  ASSUME StreamInv, OnDone \/ OnError
  PROVE  /\ UNCHANGED <<answer, queue, emitted, delivered, diverged>>
         /\ streamEnd' \in {"done", "error"}
         /\ caller' \in {"absent", "busy", "done", "failed"}
         /\ caller' = "absent" <=> caller = "absent"
         /\ OnError => streamEnd' = "error" /\ (caller' = "done" => caller = "done")
         /\ caller' = "done" => queue = <<>>
         /\ streamEnd' = "error" => caller' # "done" \/ caller = "done"
  BY DEF StreamInv, ChatTypeOK, NothingDropped, OnDone, OnError

\* Every step keeps the invariant.
LEMMA StreamInvStep == StreamInv /\ [ChatNext]_chatVars => StreamInv'
<1> SUFFICES ASSUME StreamInv, [ChatNext]_chatVars PROVE StreamInv'
  OBVIOUS
<1> USE DEF StreamInv, ChatTypeOK, NothingDropped, pumpVars, socketVars
<1>1. CASE Connected
  BY <1>1 DEF Connected
<1>2. CASE ConnectFails
  BY <1>2, EndExact DEF ConnectFails, OnDone
<1>3. CASE HandshakeAccepted
  BY <1>3 DEF HandshakeAccepted
<1>4. CASE HandshakeRefused
  BY <1>4 DEF HandshakeRefused, Closing
<1>5. ASSUME NEW next \in Texts, Update(next)
      PROVE  StreamInv'
  <2>1. caller # "done" /\ streamEnd # "done" /\ ws # "none"
    BY <1>5 DEF Update
  <2>2. Fold(next) /\ UNCHANGED <<attempt, parked, cancelled, socketVars>>
    BY <1>5 DEF Update
  <2>3. QED
    BY <2>1, <2>2, FoldExact
<1>6. ASSUME NEW failed \in BOOLEAN, LastFrame(failed)
      PROVE  StreamInv'
  <2>1. CASE failed = TRUE
    BY <1>6, <2>1 DEF LastFrame, OnError, Closing
  <2>2. CASE failed = FALSE
    BY <1>6, <2>2 DEF LastFrame, Closing
  <2>3. QED
    BY <2>1, <2>2
<1>7. CASE SocketError
  <2>1. CASE handshake
    <3>1. /\ OnError /\ ws' = "closing" /\ ws \in {"open", "closing"}
          /\ UNCHANGED <<promise, attempt, parked, cancelled, handshake, stopped, watchdog, closers>>
      BY <1>7, <2>1 DEF SocketError
    <3>2. /\ UNCHANGED <<answer, queue, emitted, delivered, diverged>> /\ streamEnd' = "error"
          /\ caller' \in {"absent", "busy", "done", "failed"} /\ caller' # "done"
      BY <3>1, EndExact
    <3> QED BY <3>1, <3>2
  <2>2. CASE ~handshake
    BY <1>7, <2>2 DEF SocketError
  <2> QED BY <2>1, <2>2
<1>8. CASE ServerDrops \/ ClosedAsAsked
  <2>1. CASE ServerDrops
    BY <2>1, SMTT(30) DEF ServerDrops, CloseEvent, OnDone
  <2>2. CASE ClosedAsAsked
    BY <2>2, SMTT(30) DEF ClosedAsAsked, CloseEvent, OnDone
  <2> QED BY <1>8, <2>1, <2>2
<1>9. CASE BeginWarm
  BY <1>9 DEF BeginWarm
<1>10. CASE BeginCold
  BY <1>10 DEF BeginCold, Closing
<1>11. CASE Retry
  <2>1. /\ answer' = <<>> /\ queue' = <<>> /\ emitted' = <<>> /\ delivered' = <<>>
        /\ <<>> \in Texts /\ <<>> \in Seq(Pieces) /\ <<>> \o <<>> = <<>>
    BY <1>11, EmptyText, EmptySeq, ConcatEmptySeq DEF Retry
  <2>2. handshake' \in BOOLEAN /\ cancelled' \in BOOLEAN /\ stopped' \in BOOLEAN
    BY <1>11, Zenon DEF Retry
  <2>3. /\ attempt' = 2 /\ parked' = "none" /\ promise' = "unmade" /\ ws' = "none"
        /\ watchdog' = "off" /\ closers' = {} /\ streamEnd' = "open" /\ caller' = "absent"
    BY <1>11, Zenon DEF Retry
  <2>4. diverged' \in [streamed : Seq(Chars), adopted : Texts]
    <3>1. <<>> \in Seq(Chars)
      BY EmptySeq
    <3> QED BY <1>11, <3>1, EmptyText DEF Retry, NeverDiverged
  <2>5. QED
    BY <2>1, <2>2, <2>3, <2>4
<1>12. CASE Pull
  <2>0. queue \in Seq(Pieces) /\ delivered \in Seq(Pieces)
    BY DEF StreamInv, ChatTypeOK
  <2>1. CASE queue # <<>>
    <3>1. /\ Head(queue) \in Pieces /\ Tail(queue) \in Seq(Pieces)
          /\ Append(delivered, Head(queue)) \in Seq(Pieces)
      BY <2>1, HeadTailProperties, AppendProperties
    <3>2. Append(delivered, Head(queue)) \o Tail(queue) = delivered \o queue
      BY <2>1, <2>0, PulledHead
    <3>3. /\ delivered' = Append(delivered, Head(queue)) /\ queue' = Tail(queue) /\ caller' = "busy"
          /\ UNCHANGED <<emitted, answer, diverged, streamEnd, ws, promise>>
          /\ UNCHANGED <<attempt, parked, cancelled, handshake, stopped, watchdog, closers>>
          /\ promise = "resolved"
      BY <1>12, <2>1 DEF Pull
    <3>4. delivered' \in Seq(Pieces) /\ queue' \in Seq(Pieces) /\ delivered' \o queue' = emitted'
      BY <3>1, <3>2, <3>3
    <3>5. QED
      BY <3>3, <3>4
  <2>2. CASE queue = <<>>
    <3>1. /\ UNCHANGED <<queue, delivered, emitted, answer, diverged, streamEnd, ws, promise>>
          /\ UNCHANGED <<attempt, parked, cancelled, handshake, stopped, watchdog, closers>>
          /\ promise = "resolved"
      BY <1>12, <2>2 DEF Pull
    <3>2. caller' = CASE streamEnd = "error" -> "failed"
                      [] streamEnd = "done" -> "done"
                      [] OTHER -> "waiting"
      BY <1>12, <2>2 DEF Pull
    <3>3. ws # "none"
      BY <1>12 DEF Pull
    <3>4. QED
      BY <2>2, <3>1, <3>2, <3>3
  <2>3. QED
    BY <2>1, <2>2
<1>13. CASE WatchdogFires
  BY <1>13 DEF WatchdogFires
<1>14. ASSUME NEW x \in {"abort", "watchdog"}, CloserFires(x)
       PROVE  StreamInv'
  BY <1>14 DEF CloserFires, Closing
<1>15. CASE AbortTurn
  <2>1. handshake' \in BOOLEAN /\ cancelled' \in BOOLEAN /\ stopped' \in BOOLEAN
    BY <1>15, Zenon DEF AbortTurn
  <2>2. UNCHANGED <<attempt, parked, promise, watchdog, pumpVars>>
    BY <1>15 DEF AbortTurn
  <2>3. ws' \in {ws, Closing(ws)} /\ closers' \in {closers, closers \cup {"abort"}}
    BY <1>15 DEF AbortTurn
  <2>4. QED
    BY <2>1, <2>2, <2>3 DEF Closing
<1>16. CASE UNCHANGED chatVars
  BY <1>16 DEF chatVars
<1>17. QED
  BY <1>1, <1>2, <1>3, <1>4, <1>5, <1>6, <1>7, <1>8, <1>9, <1>10, <1>11, <1>12, <1>13,
     <1>14, <1>15, <1>16 DEF ChatNext, Server, Client

\* Nothing that reaches the socket's pump is lost on its way to the caller, and a
\* caller told that the stream is over has had all of it (session.ts 411-432).
THEOREM NothingIsDropped == ChatSpec => []NothingDropped
<1>1. StreamInv => NothingDropped
  BY DEF StreamInv
<1>2. QED
  BY <1>1, StreamInvInit, StreamInvStep, PTL DEF ChatSpec

\* What the answer gains is streamed, or the answer is replaced and both start anew.
LEMMA FoldOnce ==
  ASSUME StreamInv, StreamsOnce, NEW next \in Texts, Fold(next)
  PROVE  StreamsOnce'
<1>1. /\ Len(next) \in 0..MaxLen /\ Len(answer) \in Nat /\ next \in Seq(Chars) /\ answer \in Seq(Chars)
      /\ emitted \in Seq(Pieces) /\ diverged.streamed \in Seq(Chars)
      /\ diverged.adopted \in Seq(Chars)
  BY TextIsSeq, ChatAssumption DEF StreamInv, ChatTypeOK
<1>2. PICK grown \in Texts : answer = diverged.adopted \o grown
                            /\ FlattenSeq(emitted) = diverged.streamed \o grown
  BY DEF StreamsOnce
<1>3. grown \in Seq(Chars)
  BY <1>2, TextIsSeq
<1>4. CASE Len(next) > Len(answer) /\ IsPrefix(answer, next)
  <2> DEFINE piece == SubSeq(next, Len(answer) + 1, Len(next))
  <2>1. answer' = next /\ emitted' = Append(emitted, piece) /\ diverged' = diverged
    BY <1>1, <1>4 DEF Fold, OnDelta
  <2>2. piece \in Seq(Chars) /\ next = answer \o piece
    <3>1. \A i \in (Len(answer) + 1)..Len(next) : next[i] \in Chars
      BY <1>1, ElementOfSeq
    <3>2. piece \in Seq(Chars)
      BY <1>1, <3>1, SubSeqProperties
    <3>3. next = answer \o piece
      BY <1>1, <1>4 DEF IsPrefix
    <3> QED BY <3>2, <3>3
  <2> HIDE DEF piece
  <2>3. emitted \in Seq(Seq(Chars))
    BY <1>1, EmittedTexts
  <2>4. FlattenSeq(emitted') = FlattenSeq(emitted) \o piece
    BY <2>1, <2>2, <2>3, FlattenAppend
  <2>5. /\ answer' = diverged.adopted \o (grown \o piece)
        /\ FlattenSeq(emitted') = diverged.streamed \o (grown \o piece)
    <3> DEFINE a == diverged.adopted
               b == diverged.streamed
    <3>1. a \in Seq(Chars) /\ b \in Seq(Chars)
      BY <1>1
    <3>2. answer' = (a \o grown) \o piece /\ FlattenSeq(emitted') = (b \o grown) \o piece
      BY <1>2, <2>1, <2>2, <2>4, Zenon
    <3> HIDE DEF a, b
    <3>3. (a \o grown) \o piece = a \o (grown \o piece)
      BY <1>3, <2>2, <3>1, Regrouped
    <3>4. (b \o grown) \o piece = b \o (grown \o piece)
      BY <1>3, <2>2, <3>1, Regrouped
    <3>5. answer' = a \o (grown \o piece) /\ FlattenSeq(emitted') = b \o (grown \o piece)
      BY <3>2, <3>3, <3>4, Zenon
    <3> QED BY <3>5, Zenon DEF a, b
  <2>6. grown \o piece \in Texts
    <3> DEFINE more == grown \o piece
    <3>1. more \in Seq(Chars)
      BY <1>3, <2>2, ConcatProperties
    <3> HIDE DEF more
    <3>2. Len(next) = Len(diverged.adopted) + Len(more)
      BY <1>1, <2>1, <2>5, <3>1, ConcatProperties DEF more
    <3>3. Len(more) \in 0..MaxLen
      BY <1>1, <3>1, <3>2, ChatAssumption
    <3>4. more \in [1..Len(more) -> Chars]
      BY <3>1
    <3>5. more \in Texts
      BY <3>3, <3>4 DEF Texts, BoundedSeq, SeqOf
    <3> QED BY <3>5 DEF more
  <2> QED BY <2>1, <2>5, <2>6 DEF StreamsOnce
<1>5. CASE Len(next) <= Len(answer)
  <2>1. UNCHANGED <<answer, emitted, diverged>>
    BY <1>1, <1>5 DEF Fold, pumpVars
  <2> QED BY <2>1, Zenon DEF StreamsOnce
<1>6. CASE Len(next) > Len(answer) /\ ~IsPrefix(answer, next)
  <2>1. answer' = next /\ diverged' = [streamed |-> FlattenSeq(emitted), adopted |-> next]
        /\ emitted' = emitted
    BY <1>1, <1>6 DEF Fold, Diverge
  <2>2. FlattenSeq(emitted) \in Seq(Chars)
    BY <1>1, EmittedTexts
  <2> DEFINE all == FlattenSeq(emitted)
  <2>3. all \in Seq(Chars)
    BY <2>2
  <2> HIDE DEF all
  <2>4. next \o <<>> = next /\ all \o <<>> = all
    BY <1>1, <2>3, ConcatEmptySeq
  <2>5. FlattenSeq(emitted') = all /\ diverged'.streamed = all /\ diverged'.adopted = next
    BY <2>1 DEF all
  <2> QED BY <2>1, <2>4, <2>5, EmptyText DEF StreamsOnce
<1> QED BY <1>1, <1>4, <1>5, <1>6

\* Nothing was streamed and nothing answered.
LEMMA NothingYet ==
  ASSUME emitted = <<>>, answer = <<>>, diverged = NeverDiverged
  PROVE  StreamsOnce
<1>1. FlattenSeq(emitted) = <<>> \o <<>> /\ answer = <<>> \o <<>>
  BY NothingStreamed, ConcatEmptySeq, EmptySeq
<1> QED BY <1>1, EmptyText DEF StreamsOnce, NeverDiverged

LEMMA OnceStep == StreamInv /\ StreamsOnce /\ [ChatNext]_chatVars => StreamsOnce'
<1> SUFFICES ASSUME StreamInv, StreamsOnce, [ChatNext]_chatVars PROVE StreamsOnce'
  OBVIOUS
<1>1. ASSUME UNCHANGED <<emitted, answer, diverged>> PROVE StreamsOnce'
  BY <1>1 DEF StreamsOnce
<1>2. CASE \/ Connected \/ HandshakeAccepted \/ HandshakeRefused \/ BeginWarm \/ BeginCold \/ WatchdogFires
           \/ AbortTurn \/ Pull \/ ConnectFails \/ ServerDrops \/ ClosedAsAsked \/ SocketError
  <2>1. UNCHANGED <<emitted, answer, diverged>>
    BY <1>2 DEF Connected, HandshakeAccepted, HandshakeRefused, BeginWarm, BeginCold, WatchdogFires, AbortTurn,
                Pull, ConnectFails, ServerDrops, ClosedAsAsked, CloseEvent, SocketError, OnDone, OnError, pumpVars
  <2> QED BY <1>1, <2>1
<1>3. ASSUME NEW next \in Texts, Update(next) PROVE StreamsOnce'
  BY <1>3, FoldOnce DEF Update
<1>4. ASSUME NEW failed \in BOOLEAN, LastFrame(failed) PROVE StreamsOnce'
  <2>1. UNCHANGED <<emitted, answer, diverged>>
    BY <1>4 DEF LastFrame, OnError, pumpVars
  <2> QED BY <1>1, <2>1
<1>5. ASSUME NEW x \in {"abort", "watchdog"}, CloserFires(x) PROVE StreamsOnce'
  <2>1. UNCHANGED <<emitted, answer, diverged>>
    BY <1>5 DEF CloserFires, pumpVars
  <2> QED BY <1>1, <2>1
<1>6. CASE Retry
  <2>1. emitted' = <<>> /\ answer' = <<>> /\ diverged' = NeverDiverged
    BY <1>6 DEF Retry
  <2>2. FlattenSeq(<<>>) = <<>> \o <<>> /\ <<>> = <<>> \o <<>>
    BY NothingStreamed, ConcatEmptySeq, EmptySeq
  <2> QED BY <2>1, <2>2, EmptyText DEF StreamsOnce, NeverDiverged
<1>7. CASE UNCHANGED chatVars
  BY <1>1, <1>7 DEF chatVars, pumpVars
<1> QED BY <1>2, <1>3, <1>4, <1>5, <1>6, <1>7 DEF ChatNext, Server, Client

\* However snapshots and tokens mix, every text is streamed once: since the last
\* diverging snapshot the stream gained what the answer did (foldStreamText,
\* session.ts 134-154).
THEOREM NothingStreamsTwice == ChatSpec => []StreamsOnce
<1>1. ChatInit => StreamsOnce
  BY NothingYet DEF ChatInit, Fresh
<1> QED BY <1>1, OnceStep, StreamInvInit, StreamInvStep, PTL DEF ChatSpec

\* No step of an attempt turns an error into a normal end.
LEMMA ErrorStays ==
  ASSUME StreamInv, [ChatNext]_chatVars, streamEnd = "error", attempt' = attempt
  PROVE  streamEnd' = "error" /\ caller' # "done"
<1>1. caller # "done" /\ caller # "waiting" /\ attempt \in 1..2
  BY DEF StreamInv, ChatTypeOK
<1>2. ASSUME UNCHANGED <<streamEnd, caller>>
      PROVE  streamEnd' = "error" /\ caller' # "done"
  BY <1>1, <1>2
<1>3. CASE Connected \/ HandshakeAccepted \/ HandshakeRefused
  BY <1>2, <1>3 DEF Connected, HandshakeAccepted, HandshakeRefused, pumpVars
<1>4. CASE ConnectFails \/ ServerDrops \/ ClosedAsAsked
  BY <1>1, <1>4 DEF ConnectFails, ServerDrops, ClosedAsAsked, CloseEvent, OnDone
<1>5. ASSUME NEW next \in Texts, Update(next)
      PROVE  streamEnd' = "error" /\ caller' # "done"
  <2>1. Fold(next)
    BY <1>5 DEF Update
  <2>2. UNCHANGED <<streamEnd, caller>>
    BY <1>1, <2>1 DEF Fold, Diverge, OnDelta, pumpVars
  <2>3. QED
    BY <1>2, <2>2
<1>6. CASE \E failed \in BOOLEAN : LastFrame(failed)
  BY <1>1, <1>6 DEF LastFrame, OnError, pumpVars
<1>7. CASE SocketError
  BY <1>1, <1>7 DEF SocketError, OnError, pumpVars
<1>8. CASE BeginWarm \/ BeginCold \/ WatchdogFires \/ AbortTurn
  BY <1>2, <1>8 DEF BeginWarm, BeginCold, WatchdogFires, AbortTurn, pumpVars
<1>9. CASE Retry
  BY <1>9 DEF Retry
<1>10. CASE Pull
  BY <1>1, <1>10 DEF Pull
<1>11. CASE \E x \in {"abort", "watchdog"} : CloserFires(x)
  BY <1>2, <1>11 DEF CloserFires, pumpVars
<1>12. CASE UNCHANGED chatVars
  BY <1>2, <1>12 DEF chatVars, pumpVars
<1>13. QED
  BY <1>3, <1>4, <1>5, <1>6, <1>7, <1>8, <1>9, <1>10, <1>11, <1>12
     DEF ChatNext, Server, Client

\* A failed stream never looks complete to its caller (session.ts 433-449).
THEOREM ErrorsSurface == ChatSpec => ErrorSurfaces
<1>1. StreamInv /\ [ChatNext]_chatVars
        => [(streamEnd = "error" /\ attempt' = attempt)
              => streamEnd' = "error" /\ caller' # "done"]_chatVars
  BY ErrorStays
<1>2. QED
  BY <1>1, StreamInvInit, StreamInvStep, PTL DEF ChatSpec, ErrorSurfaces

\* Every variable keeps its type; in particular only pieces, never an empty delta
\* nor one longer than the longest text, are streamed (foldStreamText).
THEOREM ChatTypeCorrect == ChatSpec => []ChatTypeOK
<1>1. StreamInv => ChatTypeOK
  BY DEF StreamInv
<1>2. QED
  BY <1>1, StreamInvInit, StreamInvStep, PTL DEF ChatSpec

\* Why a cancelled turn is never sent: the promise is pending only before the
\* handshake, and until then an aborted turn's socket is on its way out.
CancelInv ==
  /\ promise \in {"unmade", "pending"} => ~handshake
  /\ promise = "pending" => ws # "none"
  /\ promise = "pending" /\ cancelled => ws \notin {"connecting", "open"}

LEMMA CancelInvInit == ChatInit => CancelInv
  BY DEF ChatInit, Fresh, CancelInv

LEMMA CancelInvStep == StreamInv /\ CancelInv /\ [ChatNext]_chatVars => CancelInv'
<1> SUFFICES ASSUME StreamInv, CancelInv, [ChatNext]_chatVars PROVE CancelInv'
  OBVIOUS
<1> USE DEF CancelInv, Closing
<1>1. CASE Connected \/ ConnectFails \/ HandshakeAccepted \/ HandshakeRefused
  <2>1. promise = "unmade" => ws = "none"
    BY DEF StreamInv
  <2> QED BY <1>1, <2>1 DEF Connected, ConnectFails, HandshakeAccepted, HandshakeRefused
<1>2. ASSUME NEW next \in Texts, Update(next)
      PROVE  CancelInv'
  BY <1>2 DEF Update, socketVars
<1>3. ASSUME NEW failed \in BOOLEAN, LastFrame(failed)
      PROVE  CancelInv'
  BY <1>3 DEF LastFrame
<1>4. CASE SocketError
  BY <1>4 DEF SocketError
<1>5. CASE ServerDrops \/ ClosedAsAsked
  BY <1>5 DEF ServerDrops, ClosedAsAsked, CloseEvent
<1>6. CASE BeginWarm \/ Retry
  BY <1>6 DEF BeginWarm, Retry
<1>7. CASE BeginCold
  BY <1>7 DEF BeginCold
<1>8. CASE Pull \/ WatchdogFires
  BY <1>8 DEF Pull, WatchdogFires, socketVars
<1>9. ASSUME NEW x \in {"abort", "watchdog"}, CloserFires(x)
      PROVE  CancelInv'
  BY <1>9 DEF CloserFires
<1>10. CASE AbortTurn
  BY <1>10 DEF AbortTurn, socketVars, StreamInv
<1>11. CASE UNCHANGED chatVars
  BY <1>11 DEF chatVars, socketVars
<1>12. QED
  BY <1>1, <1>2, <1>3, <1>4, <1>5, <1>6, <1>7, <1>8, <1>9, <1>10, <1>11
     DEF ChatNext, Server, Client

\* A turn cancelled before its chat frame is out never sends one (session.ts
\* 566-591).
THEOREM CancelledIsNotSent == ChatSpec => CancelledNotSent
<1>1. StreamInv /\ CancelInv /\ [ChatNext]_chatVars
        => [(promise = "pending" /\ promise' = "resolved" /\ ws = "open") => ~cancelled]_chatVars
  BY DEF CancelInv
<1>2. QED
  BY <1>1, StreamInvInit, StreamInvStep, CancelInvInit, CancelInvStep, PTL
     DEF ChatSpec, CancelledNotSent
-----------------------------------------------------------------------------
(* Replies and answers.                                                    *)

\* What MetaNeverLeaks asks of the calls of an answer.
OnlyDeclared(c) == c.search = 0 /\ c.task = 0 /\ c.bad = 0 /\ c.reply = 0 /\ c.real > 0

AnswerOK(p) ==
  /\ p.kind \in {"none", "text", "tools", "error"} /\ p.text \in Seq(Letters) /\ p.calls \in ReplyType
  /\ p.kind = "tools" => OnlyDeclared(p.calls)

LEMMA NoReplyType == NoReply \in ReplyType /\ Calls(NoReply) = 0
BY DEF NoReply, ReplyType, Calls

LEMMA CallsType ==
  ASSUME NEW r \in ReplyType
  PROVE  Calls(r) \in Nat /\ {r.search, r.task, r.real, r.bad, r.reply} \subseteq Nat
BY DEF ReplyType, Calls

LEMMA ErrorOK == ASSUME NEW d PROVE AnswerOK(Error(d)) /\ Error(d).kind = "error"
BY NoReplyType DEF AnswerOK, Error

LEMMA TextOK == ASSUME NEW t \in Seq(Letters) PROVE AnswerOK(Text(t))
BY NoReplyType DEF AnswerOK, Text

\* The registry passes calls of declared tools and nothing else.
LEMMA ValidatedOK ==
  ASSUME NEW r \in ReplyType, r.reply = 0, Calls(r) > 0, text \in Seq(Letters), streamed \in Seq(Letters)
  PROVE  AnswerOK(Validated(r))
<1>1. CASE r.bad + r.search + r.task > 0
  BY <1>1, ErrorOK DEF Validated
<1>2. CASE ~(r.bad + r.search + r.task > 0)
  <2>1. OnlyDeclared(r)
    <3>1. {r.search, r.task, r.real, r.bad} \subseteq Nat /\ r.search + r.task + r.real + r.bad > 0
      BY CallsType DEF Calls
    <3>2. r.bad = 0 /\ r.search = 0 /\ r.task = 0
      BY <1>2, <3>1
    <3> QED BY <3>1, <3>2 DEF OnlyDeclared
  <2>2. Validated(r) = Tools(r)
    BY <1>2 DEF Validated
  <2> QED BY <2>1, <2>2, CarriedType DEF AnswerOK, Tools
<1> QED BY <1>1, <1>2

\* One call per turn: the one that is kept is no "reply".
LEMMA OneOfOK ==
  ASSUME NEW r, NEW o \in OneOf(r)
  PROVE  o \in ReplyType /\ o.reply = 0 /\ Calls(o) > 0
<1>1. PICK f \in {"search", "task", "real", "bad"} : o = [NoReply EXCEPT ![f] = 1]
  BY DEF OneOf
<1>2. CASE f = "search"
  <2>1. o = [search |-> 1, task |-> 0, real |-> 0, bad |-> 0, reply |-> 0, long |-> FALSE, mood |-> "plain"]
    BY <1>1, <1>2 DEF NoReply
  <2> QED BY <2>1 DEF ReplyType, Calls
<1>3. CASE f = "task"
  <2>1. o = [search |-> 0, task |-> 1, real |-> 0, bad |-> 0, reply |-> 0, long |-> FALSE, mood |-> "plain"]
    BY <1>1, <1>3 DEF NoReply
  <2> QED BY <2>1 DEF ReplyType, Calls
<1>4. CASE f = "real"
  <2>1. o = [search |-> 0, task |-> 0, real |-> 1, bad |-> 0, reply |-> 0, long |-> FALSE, mood |-> "plain"]
    BY <1>1, <1>4 DEF NoReply
  <2> QED BY <2>1 DEF ReplyType, Calls
<1>5. CASE f = "bad"
  <2>1. o = [search |-> 0, task |-> 0, real |-> 0, bad |-> 1, reply |-> 0, long |-> FALSE, mood |-> "plain"]
    BY <1>1, <1>5 DEF NoReply
  <2> QED BY <2>1 DEF ReplyType, Calls
<1> QED BY <1>1, <1>2, <1>3, <1>4, <1>5

LEMMA OutcomesOK ==
  ASSUME reply \in ReplyType, text \in Seq(Letters), streamed \in Seq(Letters), NEW p \in Outcomes
  PROVE  AnswerOK(p)
<1>1. CASE Calls(reply) = 0 \/ IsProseDocument
  <2>1. p = Text(Trim(text))
    BY <1>1 DEF Outcomes
  <2> QED BY <2>1, TrimType, TextOK
<1>2. CASE ~(Calls(reply) = 0 \/ IsProseDocument) /\ reply.reply > 0 /\ Calls(reply) = reply.reply
  <2>1. p = Text(<<"q">>)
    BY <1>2 DEF Outcomes
  <2>2. <<"q">> \in Seq(Letters)
    <3>1. "q" \in Letters
      BY DEF Letters
    <3> QED BY <3>1
  <2> QED BY <2>1, <2>2, TextOK
<1>3. CASE ~(Calls(reply) = 0 \/ IsProseDocument) /\ ~(reply.reply > 0 /\ Calls(reply) = reply.reply)
  <2> DEFINE calls == [reply EXCEPT !.reply = 0]
  <2>1. calls \in ReplyType /\ calls.reply = 0 /\ Calls(calls) > 0
    <3>1. /\ {reply.search, reply.task, reply.real, reply.bad, reply.reply} \subseteq Nat
          /\ reply.search + reply.task + reply.real + reply.bad > 0
      <4>1. /\ reply.search \in Nat /\ reply.task \in Nat /\ reply.real \in Nat /\ reply.bad \in Nat
            /\ reply.reply \in Nat
            /\ Calls(reply) = reply.search + reply.task + reply.real + reply.bad + reply.reply
        BY CallsType DEF Calls
      <4>2. Calls(reply) # 0 /\ ~(reply.reply > 0 /\ Calls(reply) = reply.reply)
        BY <1>3
      <4>3. reply.search + reply.task + reply.real + reply.bad # 0
        <5>1. ASSUME reply.search + reply.task + reply.real + reply.bad = 0 PROVE FALSE
          <6>1. Calls(reply) = reply.reply
            BY <4>1, <5>1
          <6> QED BY <4>1, <4>2, <6>1
        <5> QED BY <5>1
      <4> QED BY <4>1, <4>3
    <3>2. /\ calls \in ReplyType /\ calls.reply = 0 /\ calls.search = reply.search /\ calls.task = reply.task
          /\ calls.real = reply.real /\ calls.bad = reply.bad
      BY DEF ReplyType
    <3> HIDE DEF calls
    <3> QED BY <3>1, <3>2 DEF Calls
  <2>2. PICK r \in (IF req.single /\ Calls(calls) > 1 THEN OneOf(calls) ELSE {calls}) : p = Validated(r)
    BY <1>3 DEF Outcomes
  <2> HIDE DEF calls
  <2>3. r \in ReplyType /\ r.reply = 0 /\ Calls(r) > 0
    BY <2>1, <2>2, OneOfOK
  <2> QED BY <2>2, <2>3, ValidatedOK
<1> QED BY <1>1, <1>2, <1>3

-----------------------------------------------------------------------------
(* The rounds a request has used.  A round of the search or of the task    *)
(* loop is counted by the code when it ends, and never if it fails; a      *)
(* failure leaves the loop, so the unused rest of its budget pays for it.  *)

Budget == 1 + SearchRounds + TaskRounds + ForceRetries

Under(p) == IF pc = "round" /\ phase = p THEN 1 ELSE 0
SearchCost == IF phase \in {"first", "search"} THEN searches + Under("search") ELSE SearchRounds
TaskCost == IF phase = "force" THEN TaskRounds ELSE tasks + Under("task")

BudgetInv ==
  /\ rounds \in Nat
  /\ pc = "idle" => rounds = 0 /\ depth = 0
  /\ pc \in {"round", "parsed", "subagent"} =>
       rounds <= (IF depth = 0 THEN 0 ELSE Budget) + 1 + SearchCost + TaskCost + forced
  /\ pc = "done" => rounds <= (IF depth = 0 THEN Budget ELSE Budget + Budget)

LoopInv ==
  /\ pc = "round" /\ phase = "search" => searches < SearchRounds
  /\ (pc = "round" /\ phase = "task") \/ pc = "subagent" => tasks < TaskRounds
  /\ pc = "subagent" => phase # "force" /\ job.left > 0
  /\ job \in [left : Nat, turn : 0..(SubTurns - 1), recovery : BOOLEAN]

(* What was forwarded is a prefix of the first turn's text that ends       *)
(* before its first fence; until the guard closes, the rest of what        *)
(* arrived is pending.                                                     *)
FenceInv ==
  /\ guard \in GuardType
  /\ req.tools /\ phase = "first" /\ pc = "round" =>
       /\ arrived <= Len(text) /\ Len(streamed) <= arrived
       /\ streamed = SubSeq(text, 1, Len(streamed))
       /\ Fence(text) = 0 \/ Len(streamed) < Fence(text)
       /\ guard.hit \/ guard.pending = SubSeq(text, Len(streamed) + 1, arrived)

RoundsInv == TypeOK /\ BudgetInv /\ LoopInv /\ FenceInv /\ AnswerOK(produced)
LEMMA Bounds ==
  /\ SearchRounds \in Nat /\ TaskRounds \in Nat /\ ForceRetries \in Nat /\ SubTurns \in Nat /\ SubTurns > 0
  /\ Budget \in Nat
BY RoundsAssumption DEF Budget

\* What a loop costs is in its budget, whatever its phase.
LEMMA CostBounds ==
  ASSUME TypeOK, LoopInv
  PROVE  /\ SearchCost \in Nat /\ SearchCost <= SearchRounds
         /\ TaskCost \in Nat /\ TaskCost <= TaskRounds
<1>1. searches \in 0..SearchRounds /\ tasks \in 0..TaskRounds
  BY DEF TypeOK
<1>2. Under("search") \in {0, 1} /\ Under("task") \in {0, 1}
  BY DEF Under
<1>3. Under("search") = 1 => searches < SearchRounds
  BY DEF Under, LoopInv
<1>4. Under("task") = 1 => tasks < TaskRounds
  BY DEF Under, LoopInv
<1>5. SearchCost \in Nat /\ SearchCost <= SearchRounds
  BY <1>1, <1>2, <1>3, Bounds DEF SearchCost
<1>6. TaskCost \in Nat /\ TaskCost <= TaskRounds
  BY <1>1, <1>2, <1>4, Bounds DEF TaskCost
<1> QED BY <1>5, <1>6

LEMMA CostBoundsNext == TypeOK' /\ LoopInv' => (TaskCost \in Nat /\ TaskCost <= TaskRounds)'
<1>1. TypeOK /\ LoopInv => TaskCost \in Nat /\ TaskCost <= TaskRounds
  BY CostBounds
<1> QED BY <1>1, PTL

LEMMA BudgetKept ==
  ASSUME TypeOK, LoopInv, BudgetInv
  PROVE  rounds \in Nat /\ rounds <= (IF depth = 0 THEN Budget ELSE Budget + Budget)
<1> DEFINE before == IF depth = 0 THEN 0 ELSE Budget
<1>1. rounds \in Nat /\ before \in Nat /\ forced \in Nat /\ forced <= ForceRetries
  BY Bounds DEF TypeOK, BudgetInv
<1>2. rounds <= before + Budget
  <2>1. CASE pc = "idle"
    BY <1>1, <2>1, Bounds DEF BudgetInv
  <2>2. CASE pc \in {"round", "parsed", "subagent"}
    <3>1. rounds <= before + 1 + SearchCost + TaskCost + forced
      BY <2>2 DEF BudgetInv
    <3> HIDE DEF before
    <3> QED BY <1>1, <3>1, CostBounds, Bounds DEF Budget
  <2>3. CASE pc = "done"
    BY <1>1, <2>3, Bounds DEF BudgetInv
  <2> QED BY <2>1, <2>2, <2>3 DEF TypeOK
<1>3. before + Budget = (IF depth = 0 THEN Budget ELSE Budget + Budget)
  BY Bounds
<1> QED BY <1>1, <1>2, <1>3

LEMMA ClosedType == Closed \in GuardType /\ Closed.pending = <<>> /\ Closed.hit = FALSE
BY DEF Closed, GuardType

LEMMA NoJobType ==
  /\ NoJob \in [left : Nat, turn : 0..(SubTurns - 1), recovery : BOOLEAN]
  /\ NoJob.left = 0
BY Bounds DEF NoJob

LEMMA InitRounds == Init => RoundsInv
<1> SUFFICES ASSUME Init PROVE RoundsInv
  OBVIOUS
<1>1. TypeOK
  <2>1. promoted \cup deferred \subseteq Range(Catalog)
    BY RoundsAssumption DEF Init
  <2>2. produced.kind = "none" /\ produced.calls = NoReply
    BY DEF Init, NoAnswer
  <2>3. guard.pending \in Seq(Letters) /\ guard.hit \in BOOLEAN
    BY ClosedType DEF Init, GuardType
  <2>4. text \in Seq(Letters) /\ streamed \in Seq(Letters) /\ sent \in Seq(Letters)
    BY DEF Init
  <2>5. {reply, kept, produced.calls} \subseteq ReplyType
    BY <2>2, NoReplyType DEF Init
  <2>6. job.left \in Nat /\ job.turn \in 0..(SubTurns - 1)
    BY NoJobType DEF Init
  <2>7. /\ req \in Requests /\ pc = "idle" /\ phase = "first" /\ depth = 0 /\ aborted \in BOOLEAN /\ arrived = 0
        /\ searches = 0 /\ tasks = 0 /\ forced = 0
    BY DEF Init
  <2> QED BY <2>1, <2>2, <2>3, <2>4, <2>5, <2>6, <2>7, Bounds DEF TypeOK
<1>2. BudgetInv
  BY DEF Init, BudgetInv
<1>3. LoopInv
  BY NoJobType DEF Init, LoopInv
<1>4. FenceInv
  BY ClosedType DEF Init, FenceInv
<1>5. AnswerOK(produced)
  BY NoReplyType DEF Init, AnswerOK, NoAnswer
<1> QED BY <1>1, <1>2, <1>3, <1>4, <1>5 DEF RoundsInv

\* The locals of a fresh produce(): nothing has streamed yet.
LEMMA StartFence ==
  ASSUME Start0, TypeOK, UNCHANGED req
  PROVE  FenceInv' /\ LoopInv' /\ text' \in Seq(Letters)
<1>1. text' \in Seq(Letters)
  BY RoundsAssumption DEF Start0
<1>2. FenceInv'
  <2>1. Len(<<>>) = 0 /\ Len(text') \in Nat /\ SubSeq(text', 1, 0) = <<>>
    BY <1>1
  <2>2. Fence(text') = 0 \/ 0 < Fence(text')
    BY <1>1, FenceIsFirst
  <2>3. /\ pc' = "round" /\ phase' = "first" /\ arrived' = 0 /\ guard' = Closed /\ streamed' = <<>>
        /\ 0 + 1 = 1
    BY DEF Start0
  <2> QED BY <2>1, <2>2, <2>3, ClosedType DEF FenceInv
<1>3. LoopInv'
  BY NoJobType DEF Start0, LoopInv
<1> QED BY <1>1, <1>2, <1>3

LEMMA BeginKeeps == RoundsInv /\ Begin => RoundsInv'
<1> SUFFICES ASSUME RoundsInv, Begin PROVE RoundsInv'
  OBVIOUS
<1> USE DEF RoundsInv
<1>0. FenceInv' /\ LoopInv' /\ text' \in Seq(Letters)
  BY StartFence DEF Begin
<1>1. TypeOK'
  <2>1. promoted' \cup deferred' \subseteq Range(Catalog)
    BY DEF Begin, Start0, Deferred, TypeOK
  <2> QED BY <1>0, <2>1, Bounds, NoReplyType, ClosedType, NoJobType DEF Begin, Start0, TypeOK, GuardType
<1>2. BudgetInv'
  BY Bounds DEF Begin, Start0, BudgetInv, SearchCost, TaskCost, Under
<1>3. AnswerOK(produced)'
  BY DEF Begin
<1> QED BY <1>0, <1>1, <1>2, <1>3

LEMMA FailoverKeeps == RoundsInv /\ Failover => RoundsInv'
<1> SUFFICES ASSUME RoundsInv, Failover PROVE RoundsInv'
  OBVIOUS
<1> USE DEF RoundsInv
<1>0. FenceInv' /\ LoopInv' /\ text' \in Seq(Letters)
  BY StartFence DEF Failover
<1>1. TypeOK'
  <2>1. promoted' \cup deferred' \subseteq Range(Catalog)
    BY RoundsAssumption DEF Failover, Start0, Deferred
  <2> QED BY <1>0, <2>1, Bounds, NoReplyType, ClosedType, NoJobType DEF Failover, Start0, TypeOK, GuardType
<1>2. BudgetInv'
  <2>1. rounds \in Nat /\ rounds <= Budget
    BY BudgetKept DEF Failover
  <2>2. SearchCost' = 0 /\ TaskCost' = 0
    BY DEF Failover, Start0, SearchCost, TaskCost, Under
  <2> QED BY <2>1, <2>2, Bounds DEF Failover, Start0, BudgetInv
<1>3. AnswerOK(produced)'
  BY DEF Failover
<1> QED BY <1>0, <1>1, <1>2, <1>3
\* The guard lets go of what begins no fence, and of nothing else.
LEMMA ArrivesKeeps == ASSUME RoundsInv, NEW n \in 1..Len(text), Arrives(n) PROVE RoundsInv'
<1> USE DEF RoundsInv
<1> DEFINE delta == SubSeq(text, arrived + 1, arrived + n)
           step == IF req.tools THEN Forward(guard, delta) ELSE [guard |-> guard, out |-> delta]
<1>0. /\ pc = "round" /\ phase = "first" /\ arrived + n <= Len(text) /\ arrived' = arrived + n
      /\ guard' = step.guard /\ streamed' = streamed \o step.out
      /\ (sent' = sent \o step.out \/ sent' = sent)
      /\ UNCHANGED <<req, pc, phase, depth, aborted, promoted, deferred, text, reply, kept, countVars, produced,
                     rounds>>
  BY DEF Arrives
<1>1. /\ text \in Seq(Letters) /\ Len(text) \in Nat /\ n \in Nat /\ arrived \in Nat /\ req.tools \in BOOLEAN
      /\ streamed \in Seq(Letters) /\ sent \in Seq(Letters) /\ guard \in GuardType
  <2>1. text \in Seq(Letters) /\ arrived \in Nat /\ streamed \in Seq(Letters) /\ sent \in Seq(Letters)
    BY DEF TypeOK
  <2>2. req \in RequestType /\ guard \in GuardType
    BY RoundsAssumption DEF TypeOK, FenceInv
  <2>3. req.tools \in BOOLEAN
    BY <2>2 DEF RequestType
  <2> QED BY <2>1, <2>2, <2>3, LenProperties
<1>2. delta \in Seq(Letters)
  BY <1>0, <1>1, SubText
<1>3. step.guard \in GuardType /\ step.out \in Seq(Letters)
  <2>1. CASE req.tools
    BY <1>1, <1>2, <2>1, ForwardSplits
  <2>2. CASE ~req.tools
    BY <1>1, <1>2, <2>2
  <2> QED BY <2>1, <2>2, <1>1
<1> HIDE DEF delta
<1>4. streamed' \in Seq(Letters) /\ sent' \in Seq(Letters) /\ guard' \in GuardType
  <2> HIDE DEF step
  <2>1. streamed \o step.out \in Seq(Letters) /\ sent \o step.out \in Seq(Letters)
    BY <1>1, <1>3, ConcatProperties
  <2> QED BY <1>0, <1>1, <1>3, <2>1
<1>5. TypeOK'
  <2>1. guard'.pending \in Seq(Letters) /\ guard'.hit \in BOOLEAN
    BY <1>4 DEF GuardType
  <2>2. arrived' \in Nat
    BY <1>0, <1>1
  <2> HIDE DEF step
  <2> QED BY <1>0, <1>4, <2>1, <2>2 DEF TypeOK, countVars
<1>6. BudgetInv' /\ LoopInv' /\ AnswerOK(produced)'
  <2> HIDE DEF step
  <2> QED BY <1>0 DEF BudgetInv, LoopInv, SearchCost, TaskCost, Under, countVars
<1>7. FenceInv'
  <2>1. CASE ~req.tools
    BY <1>0, <1>4, <2>1 DEF FenceInv
  <2>2. CASE req.tools
    <3> DEFINE s == Len(streamed)
    <3>1. /\ s <= arrived /\ s \in Nat /\ streamed = SubSeq(text, 1, s)
          /\ Fence(text) = 0 \/ s < Fence(text)
          /\ guard.hit \/ guard.pending = SubSeq(text, s + 1, arrived)
      BY <1>0, <1>1, <2>2 DEF FenceInv
    <3>2. step = Forward(guard, delta)
      BY <2>2
    <3> HIDE DEF step, s
    <3>3. CASE guard.hit
      <4>1. guard' = guard /\ streamed' = streamed \o <<>>
        BY <1>0, <1>1, <1>2, <3>2, <3>3, ForwardSplits
      <4>2. streamed' = streamed
        BY <1>1, <4>1, ConcatEmptySeq
      <4>3. arrived' <= Len(text') /\ Len(streamed') <= arrived'
        BY <1>0, <1>1, <3>1, <4>2 DEF s
      <4> QED BY <1>0, <1>4, <3>1, <3>3, <4>1, <4>2, <4>3 DEF FenceInv, s
    <3>4. CASE ~guard.hit
      <4>1. PICK m \in 0..(arrived + n - s) :
              /\ step.out = SubSeq(text, s + 1, s + m)
              /\ step.guard.pending = SubSeq(text, s + m + 1, arrived + n)
              /\ Fence(text) = 0 \/ s + m < Fence(text)
        BY <1>0, <1>1, <3>1, <3>2, <3>4, ForwardInText DEF delta
      <4>2. m \in Nat /\ s + m <= arrived + n /\ s + m \in Nat
        BY <1>1, <3>1, <4>1
      <4>3. streamed' = SubSeq(text, 1, s) \o SubSeq(text, s + 1, s + m)
        BY <1>0, <3>1, <4>1
      <4>4. streamed' = SubSeq(text, 1, s + m)
        <5>1. 1 <= s + 1 /\ s <= s + m /\ s + m <= Len(text)
          BY <1>0, <1>1, <3>1, <4>2
        <5>2. SubSeq(text, 1, s) \o SubSeq(text, s + 1, s + m) = SubSeq(text, 1, s + m)
          BY <1>1, <3>1, <4>2, <5>1, PartsJoin
        <5> QED BY <4>3, <5>2
      <4>5. Len(streamed') = s + m
        BY <1>0, <1>1, <4>2, <4>4, SubText
      <4>6. guard'.pending = SubSeq(text', Len(streamed') + 1, arrived')
        BY <1>0, <4>1, <4>5
      <4>7. arrived' <= Len(text') /\ Len(streamed') <= arrived'
        BY <1>0, <4>2, <4>5
      <4> QED BY <1>0, <1>4, <4>1, <4>4, <4>5, <4>6, <4>7 DEF FenceInv
    <3> QED BY <3>3, <3>4
  <2> QED BY <1>1, <2>1, <2>2
<1> QED BY <1>5, <1>6, <1>7

\* A round that ends is paid for by the counter of its loop.
LEMMA RoundEndsKeeps == RoundsInv /\ RoundEnds => RoundsInv'
<1> SUFFICES ASSUME RoundsInv, RoundEnds PROVE RoundsInv'
  OBVIOUS
<1> USE DEF RoundsInv
<1>1. TypeOK'
  <2>1. text' \in Seq(Letters)
    BY RoundsAssumption DEF RoundEnds, TypeOK
  <2>2. reply' \in ReplyType /\ kept' \in ReplyType
    BY RoundsAssumption, NoReplyType DEF RoundEnds
  <2>3. guard'.pending \in Seq(Letters) /\ guard'.hit \in BOOLEAN
    BY ClosedType DEF RoundEnds, GuardType
  <2>4. searches' \in 0..SearchRounds /\ tasks' \in 0..TaskRounds
    <3>1. searches \in 0..SearchRounds /\ tasks \in 0..TaskRounds
      BY DEF TypeOK
    <3>2. searches' = (IF phase = "search" THEN searches + 1 ELSE searches) /\ (phase = "search" => searches < SearchRounds)
      BY DEF RoundEnds, LoopInv
    <3>3. tasks' = (IF phase = "task" THEN tasks + 1 ELSE tasks) /\ (phase = "task" => tasks < TaskRounds)
      BY DEF RoundEnds, LoopInv
    <3>4. searches' \in 0..SearchRounds
      BY <3>1, <3>2, Bounds
    <3>5. tasks' \in 0..TaskRounds
      BY <3>1, <3>3, Bounds
    <3> QED BY <3>4, <3>5
  <2> QED BY <2>1, <2>2, <2>3, <2>4 DEF RoundEnds, TypeOK
<1>2. BudgetInv'
  BY Bounds DEF RoundEnds, TypeOK, BudgetInv, SearchCost, TaskCost, Under
<1>3. LoopInv'
  BY DEF RoundEnds, LoopInv
<1>4. FenceInv'
  BY ClosedType DEF RoundEnds, FenceInv
<1>5. AnswerOK(produced)'
  BY DEF RoundEnds
<1> QED BY <1>1, <1>2, <1>3, <1>4, <1>5

\* What the next round of any loop leaves in place.
LEMMA NextRoundFence ==
  ASSUME RoundsInv, NEW p \in {"search", "task", "force"}, NEW fallback \in ReplyType, NextRound(p, fallback)
  PROVE  /\ FenceInv' /\ AnswerOK(produced)' /\ kept' \in ReplyType /\ rounds' \in Nat
         /\ {text, streamed, sent, guard.pending}' \subseteq Seq(Letters) /\ guard'.hit \in BOOLEAN
         /\ {reply, kept, produced.calls}' \subseteq ReplyType
BY DEF NextRound, RoundsInv, FenceInv, TypeOK, AnswerOK, BudgetInv, streamVars

LEMMA ToolSearchKeeps == RoundsInv /\ ToolSearch => RoundsInv'
<1> SUFFICES ASSUME RoundsInv, ToolSearch PROVE RoundsInv'
  OBVIOUS
<1> USE DEF RoundsInv
<1>1. [reply EXCEPT !.search = 0] \in ReplyType
  BY DEF TypeOK, ReplyType
<1>2. NextRound("search", [reply EXCEPT !.search = 0])
  BY DEF ToolSearch
<1>3. /\ pc = "parsed" /\ phase \in {"first", "search"} /\ searches < SearchRounds
      /\ pc' = "round" /\ phase' = "search" /\ rounds' = rounds + 1
      /\ UNCHANGED <<req, depth, aborted, deferred, arrived, countVars>>
  BY DEF ToolSearch, Searching, NextRound, streamVars
<1>4. promoted' \cup deferred' \subseteq Range(Catalog)
  BY DEF ToolSearch, Matches, TypeOK
<1> DEFINE fallback == [reply EXCEPT !.search = 0]
<1> HIDE DEF fallback
<1>5. /\ FenceInv' /\ AnswerOK(produced)' /\ rounds' \in Nat
      /\ {text, streamed, sent, guard.pending}' \subseteq Seq(Letters) /\ guard'.hit \in BOOLEAN
      /\ {reply, kept, produced.calls}' \subseteq ReplyType
  BY <1>1, <1>2, NextRoundFence DEF fallback
<1>6. TypeOK'
  BY <1>3, <1>4, <1>5 DEF TypeOK, countVars, AnswerOK
<1>7. BudgetInv'
  <2>1. rounds <= (IF depth = 0 THEN 0 ELSE Budget) + 1 + searches + tasks + forced
    BY <1>3, Bounds DEF TypeOK, BudgetInv, SearchCost, TaskCost, Under
  <2>2. SearchCost' = searches + 1 /\ TaskCost' = tasks
    BY <1>3, Bounds DEF TypeOK, SearchCost, TaskCost, Under, countVars
  <2>3. /\ rounds' \in Nat /\ rounds' = rounds + 1 /\ pc' = "round" /\ depth' = depth /\ forced' = forced
        /\ {searches, tasks, forced} \subseteq Nat /\ rounds \in Nat
    BY <1>3, <1>5, Bounds DEF TypeOK, BudgetInv, countVars
  <2>4. rounds' <= (IF depth = 0 THEN 0 ELSE Budget) + 1 + (searches + 1) + tasks + forced
    BY <2>1, <2>3, Bounds
  <2> QED BY <2>2, <2>3, <2>4 DEF BudgetInv
<1>8. LoopInv'
  BY <1>3 DEF LoopInv, countVars
<1> QED BY <1>5, <1>6, <1>7, <1>8

LEMMA DelegateKeeps == RoundsInv /\ Delegate => RoundsInv'
<1> SUFFICES ASSUME RoundsInv, Delegate PROVE RoundsInv'
  OBVIOUS
<1> USE DEF RoundsInv
<1>1. /\ pc = "parsed" /\ phase # "force" /\ tasks < TaskRounds /\ reply.task > 0
      /\ pc' = "subagent" /\ job' = [left |-> reply.task, turn |-> 0, recovery |-> FALSE]
      /\ UNCHANGED <<req, phase, depth, aborted, promoted, deferred, text, streamVars, reply, kept, searches,
                     tasks, forced, produced, view, rounds>>
  BY DEF Delegate, Delegating
<1>2. reply.task \in Nat
  BY DEF TypeOK, ReplyType
<1>3. job' \in [left : Nat, turn : 0..(SubTurns - 1), recovery : BOOLEAN] /\ job'.left > 0
  BY <1>1, <1>2, Bounds
<1>4. TypeOK'
  BY <1>1, <1>3 DEF TypeOK, streamVars
<1>5. BudgetInv' /\ LoopInv'
  BY <1>1, <1>3, Bounds DEF TypeOK, BudgetInv, LoopInv, SearchCost, TaskCost, Under
<1>6. FenceInv' /\ AnswerOK(produced)'
  BY <1>1 DEF FenceInv, streamVars
<1> QED BY <1>4, <1>5, <1>6

\* A sub-agent that is over makes way for the next, or for one round.
LEMMA JobOverKeeps ==
  ASSUME RoundsInv, pc = "subagent", JobOver, UNCHANGED <<promoted, deferred, searches, tasks, forced>>
  PROVE  RoundsInv'
<1> USE DEF RoundsInv
<1>0. /\ job.left \in Nat /\ job.left > 0 /\ tasks < TaskRounds /\ phase # "force"
      /\ job \in [left : Nat, turn : 0..(SubTurns - 1), recovery : BOOLEAN]
  BY DEF LoopInv
<1>1. CASE job.left > 1
  <2>1. /\ job' = [left |-> job.left - 1, turn |-> 0, recovery |-> FALSE]
        /\ UNCHANGED <<req, pc, phase, depth, aborted, text, streamVars, reply, kept, produced, view, rounds>>
    BY <1>1 DEF JobOver
  <2>2. job' \in [left : Nat, turn : 0..(SubTurns - 1), recovery : BOOLEAN] /\ job'.left > 0
    BY <1>0, <1>1, <2>1, Bounds
  <2>3. TypeOK'
    BY <2>1, <2>2 DEF TypeOK, streamVars
  <2>4. BudgetInv' /\ LoopInv'
    BY <2>1, <2>2 DEF BudgetInv, LoopInv, SearchCost, TaskCost, Under
  <2>5. FenceInv' /\ AnswerOK(produced)'
    BY <2>1 DEF FenceInv, streamVars
  <2> QED BY <2>3, <2>4, <2>5
<1>2. CASE ~(job.left > 1)
  <2> DEFINE fallback == [reply EXCEPT !.task = 0]
  <2>1. fallback \in ReplyType
    BY DEF TypeOK, ReplyType
  <2>2. job' = NoJob /\ NextRound("task", fallback)
    BY <1>2 DEF JobOver
  <2> HIDE DEF fallback
  <2>3. /\ FenceInv' /\ AnswerOK(produced)' /\ rounds' \in Nat
        /\ {text, streamed, sent, guard.pending}' \subseteq Seq(Letters) /\ guard'.hit \in BOOLEAN
        /\ {reply, kept, produced.calls}' \subseteq ReplyType
    BY <2>1, <2>2, NextRoundFence
  <2>4. pc' = "round" /\ phase' = "task" /\ rounds' = rounds + 1 /\ UNCHANGED <<req, depth, aborted, arrived>>
    BY <2>2 DEF NextRound, streamVars
  <2>5. TypeOK'
    BY <2>2, <2>3, <2>4, NoJobType DEF TypeOK, AnswerOK
  <2>6. BudgetInv' /\ LoopInv'
    BY <1>0, <2>2, <2>3, <2>4, Bounds, NoJobType
       DEF TypeOK, BudgetInv, LoopInv, SearchCost, TaskCost, Under
  <2> QED BY <2>3, <2>5, <2>6
<1> QED BY <1>0, <1>1, <1>2

LEMMA SubTurnKeeps == ASSUME RoundsInv, NEW says, SubTurn(says) PROVE RoundsInv'
<1> USE DEF RoundsInv
<1> DEFINE again == \/ says = "tools"
                    \/ says = "refusal" /\ job.turn < SubTurns - 1 /\ ~job.recovery
           refused == says = "refusal"
<1>0. /\ job \in [left : Nat, turn : 0..(SubTurns - 1), recovery : BOOLEAN]
      /\ job.left > 0 /\ pc = "subagent" /\ refused \in BOOLEAN
      /\ UNCHANGED <<promoted, deferred, searches, tasks, forced>>
  BY DEF LoopInv, SubTurn
<1>1. CASE again /\ job.turn < SubTurns - 1
  <2>1. /\ job' = [job EXCEPT !.turn = job.turn + 1, !.recovery = refused]
        /\ UNCHANGED <<req, pc, phase, depth, aborted, text, streamVars, reply, kept, produced, view, rounds>>
    BY <1>1 DEF SubTurn
  <2> HIDE DEF refused, again
  <2>2. job.turn + 1 \in 0..(SubTurns - 1)
    BY <1>0, <1>1, Bounds
  <2>3. job' \in [left : Nat, turn : 0..(SubTurns - 1), recovery : BOOLEAN] /\ job'.left > 0
    BY <1>0, <2>1, <2>2
  <2>4. TypeOK'
    BY <1>0, <2>1, <2>3 DEF TypeOK, streamVars
  <2>5. BudgetInv' /\ LoopInv'
    BY <1>0, <2>1, <2>3 DEF BudgetInv, LoopInv, SearchCost, TaskCost, Under
  <2>6. FenceInv' /\ AnswerOK(produced)'
    BY <2>1 DEF FenceInv, streamVars
  <2> QED BY <2>4, <2>5, <2>6
<1>2. CASE ~(again /\ job.turn < SubTurns - 1)
  <2>1. JobOver
    BY <1>2 DEF SubTurn
  <2> QED BY <1>0, <2>1, JobOverKeeps
<1> QED BY <1>1, <1>2

LEMMA SubCancelledKeeps == RoundsInv /\ SubCancelled => RoundsInv'
BY JobOverKeeps DEF SubCancelled

LEMMA OrientKeeps == RoundsInv /\ Orient => RoundsInv'
<1> SUFFICES ASSUME RoundsInv, Orient PROVE RoundsInv'
  OBVIOUS
<1> USE DEF RoundsInv
<1>1. /\ reply' \in Orientations
      /\ UNCHANGED <<req, pc, phase, depth, aborted, promoted, deferred, text, streamVars, kept, countVars,
                     produced, view, rounds>>
  BY DEF Orient
<1>2. Orientations \subseteq ReplyType
  BY NoReplyType DEF Orientations, ReplyType
<1>3. TypeOK'
  BY <1>1, <1>2 DEF TypeOK, streamVars, countVars
<1>4. BudgetInv' /\ LoopInv' /\ FenceInv' /\ AnswerOK(produced)'
  BY <1>1 DEF BudgetInv, LoopInv, SearchCost, TaskCost, Under, FenceInv, streamVars, countVars
<1> QED BY <1>3, <1>4

LEMMA ForceKeeps == RoundsInv /\ ForceCall => RoundsInv'
<1> SUFFICES ASSUME RoundsInv, ForceCall PROVE RoundsInv'
  OBVIOUS
<1> USE DEF RoundsInv
<1>1. /\ pc = "parsed" /\ forced < ForceRetries /\ forced' = forced + 1
      /\ NextRound("force", NoReply) /\ UNCHANGED <<promoted, deferred, searches, tasks, job>>
  BY DEF ForceCall, Forcing
<1>2. pc' = "round" /\ phase' = "force" /\ rounds' = rounds + 1 /\ UNCHANGED <<req, depth, aborted, arrived>>
  BY <1>1 DEF NextRound, streamVars
<1>3. /\ FenceInv' /\ AnswerOK(produced)' /\ rounds' \in Nat
      /\ {text, streamed, sent, guard.pending}' \subseteq Seq(Letters) /\ guard'.hit \in BOOLEAN
      /\ {reply, kept, produced.calls}' \subseteq ReplyType
  BY <1>1, NoReplyType, NextRoundFence
<1>4. forced' \in 0..ForceRetries
  BY <1>1, Bounds DEF TypeOK
<1>5. TypeOK'
  BY <1>1, <1>2, <1>3, <1>4 DEF TypeOK, AnswerOK
<1>6. BudgetInv'
  <2>1. SearchCost <= SearchRounds /\ TaskCost <= TaskRounds /\ SearchCost \in Nat /\ TaskCost \in Nat
    BY CostBounds
  <2>2. SearchCost' = SearchRounds /\ TaskCost' = TaskRounds
    BY <1>2 DEF SearchCost, TaskCost
  <2>3. rounds <= (IF depth = 0 THEN 0 ELSE Budget) + 1 + SearchCost + TaskCost + forced
    BY <1>1 DEF BudgetInv
  <2> HIDE DEF SearchCost, TaskCost
  <2> QED BY <1>1, <1>2, <1>3, <2>1, <2>2, <2>3, Bounds DEF TypeOK, BudgetInv
<1>7. LoopInv'
  BY <1>1, <1>2 DEF LoopInv
<1> QED BY <1>3, <1>5, <1>6, <1>7

\* A round that fails with calls to fall back on leaves its loop: what the
\* loop had left pays for the round.
LEMMA FallBackKeeps == RoundsInv /\ FallBack => RoundsInv'
<1> SUFFICES ASSUME RoundsInv, FallBack PROVE RoundsInv'
  OBVIOUS
<1> USE DEF RoundsInv
<1>1. /\ pc = "round" /\ phase \in {"search", "task"} /\ pc' = "parsed"
      /\ phase' = IF phase = "search" THEN "task" ELSE "force"
      /\ UNCHANGED <<req, depth, aborted, promoted, deferred, text, streamVars, kept, countVars, produced, view,
                     rounds>>
  BY DEF FallBack
<1>2. TypeOK'
  <2>1. reply' \in ReplyType
    BY DEF FallBack, TypeOK, ReplyType
  <2> QED BY <1>1, <2>1 DEF TypeOK, streamVars, countVars
<1>3. BudgetInv'
  <2>1. CASE phase = "search"
    BY <1>1, <2>1, Bounds DEF TypeOK, BudgetInv, LoopInv, SearchCost, TaskCost, Under, countVars
  <2>2. CASE phase = "task"
    BY <1>1, <2>2, Bounds DEF TypeOK, BudgetInv, LoopInv, SearchCost, TaskCost, Under, countVars
  <2> QED BY <1>1, <2>1, <2>2
<1>4. LoopInv'
  BY <1>1 DEF LoopInv, countVars
<1>5. FenceInv' /\ AnswerOK(produced)'
  BY <1>1 DEF FenceInv, streamVars
<1> QED BY <1>2, <1>3, <1>4, <1>5

\* However produce() ends, its rounds are within the budget of its model.
LEMMA FinishKeeps ==
  ASSUME RoundsInv, pc \in {"round", "parsed", "subagent"}, NEW p, AnswerOK(p), Finish(p)
  PROVE  RoundsInv'
<1> USE DEF RoundsInv
<1>1. /\ pc' = "done" /\ produced' = p /\ phase' = "first" /\ text' = <<>> /\ reply' = NoReply /\ kept' = NoReply
      /\ searches' = 0 /\ tasks' = 0 /\ forced' = 0 /\ job' = NoJob
      /\ arrived' = 0 /\ guard' = Closed /\ streamed' = <<>>
      /\ UNCHANGED <<req, depth, aborted, promoted, deferred, sent, rounds>>
  BY DEF Finish
<1>2. TypeOK'
  <2>1. guard'.pending \in Seq(Letters) /\ guard'.hit \in BOOLEAN
    BY <1>1, ClosedType DEF GuardType
  <2>2. text' \in Seq(Letters) /\ streamed' \in Seq(Letters)
    BY <1>1
  <2>3. {reply, kept, produced.calls}' \subseteq ReplyType /\ produced'.kind \in {"none", "text", "tools", "error"}
    BY <1>1, NoReplyType DEF AnswerOK
  <2>4. job'.left \in Nat /\ job'.turn \in 0..(SubTurns - 1)
    BY <1>1, NoJobType
  <2> QED BY <1>1, <2>1, <2>2, <2>3, <2>4, Bounds DEF TypeOK
<1>3. BudgetInv'
  BY <1>1, BudgetKept DEF BudgetInv
<1>4. LoopInv'
  BY <1>1, NoJobType DEF LoopInv
<1>5. FenceInv'
  BY <1>1, ClosedType DEF FenceInv
<1>6. AnswerOK(produced)'
  BY <1>1 DEF AnswerOK
<1> QED BY <1>2, <1>3, <1>4, <1>5, <1>6

LEMMA AnswerKeeps == RoundsInv /\ Answer => RoundsInv'
<1> SUFFICES ASSUME RoundsInv, Answer PROVE RoundsInv'
  OBVIOUS
<1>1. PICK p \in Outcomes : Finish(p)
  BY DEF Answer
<1>2. pc = "parsed" /\ reply \in ReplyType /\ text \in Seq(Letters) /\ streamed \in Seq(Letters)
  BY DEF Answer, RoundsInv, TypeOK
<1> QED BY <1>1, <1>2, OutcomesOK, FinishKeeps

LEMMA RoundFailsKeeps == ASSUME RoundsInv, NEW d, RoundFails(d) PROVE RoundsInv'
<1>1. pc = "round" /\ Finish(Error(d))
  BY DEF RoundFails, Failed
<1> QED BY <1>1, ErrorOK, FinishKeeps

LEMMA AbortKeeps == RoundsInv /\ Abort => RoundsInv'
<1> SUFFICES ASSUME RoundsInv, Abort PROVE RoundsInv'
  OBVIOUS
<1> USE DEF RoundsInv
<1>1. /\ aborted' \in BOOLEAN
      /\ UNCHANGED <<req, pc, phase, depth, promoted, deferred, text, streamVars, reply, kept, countVars, produced,
                     rounds>>
  BY DEF Abort
<1>2. TypeOK'
  BY <1>1 DEF TypeOK, streamVars, countVars
<1>3. BudgetInv' /\ LoopInv' /\ FenceInv' /\ AnswerOK(produced)'
  BY <1>1 DEF BudgetInv, LoopInv, SearchCost, TaskCost, Under, FenceInv, streamVars, countVars
<1> QED BY <1>2, <1>3

LEMMA RoundsStep == RoundsInv /\ [Next]_vars => RoundsInv'
<1> SUFFICES ASSUME RoundsInv, [Next]_vars PROVE RoundsInv'
  OBVIOUS
<1>1. CASE UNCHANGED vars
  BY <1>1 DEF RoundsInv, vars, TypeOK, BudgetInv, LoopInv, SearchCost, TaskCost, Under, FenceInv, streamVars,
              countVars
<1>2. CASE Done
  BY <1>1, <1>2 DEF Done
<1>3. CASE \E n \in 1..Len(text) : Arrives(n)
  BY <1>3, ArrivesKeeps
<1>4. CASE \E says \in {"tools", "refusal", "report"} : SubTurn(says)
  BY <1>4, SubTurnKeeps
<1>5. CASE \E d \in BOOLEAN : RoundFails(d)
  BY <1>5, RoundFailsKeeps
<1>6. CASE \/ Begin \/ RoundEnds \/ ToolSearch \/ Delegate \/ SubCancelled \/ Orient \/ ForceCall \/ Answer
           \/ FallBack \/ Failover \/ Abort
  BY <1>6, BeginKeeps, RoundEndsKeeps, ToolSearchKeeps, DelegateKeeps, SubCancelledKeeps, OrientKeeps, ForceKeeps,
     AnswerKeeps, FallBackKeeps, FailoverKeeps, AbortKeeps
<1> QED BY <1>1, <1>2, <1>3, <1>4, <1>5, <1>6 DEF Next

THEOREM RoundsInvariant == Spec => []RoundsInv
<1>1. Init => RoundsInv
  BY InitRounds
<1>2. RoundsInv /\ [Next]_vars => RoundsInv'
  BY RoundsStep
<1> QED BY <1>1, <1>2, PTL DEF Spec

-----------------------------------------------------------------------------
(* What sub-agents cost.  A task loop that is open has taken up at most one *)
(* reply's Task calls more than its counter says, and the ones of a job    *)
(* that still wait are paid for in advance, as are the turns a running     *)
(* sub-agent has left.                                                     *)

Waiting == IF pc = "subagent" THEN job.left - 1 ELSE 0
TurnsLeft == IF pc = "subagent" THEN SubTurns - job.turn ELSE 0
Loops ==
  TaskRounds * depth + (IF pc = "done" THEN TaskRounds ELSE IF pc = "subagent" THEN tasks + 1 ELSE TaskCost)

SubInv ==
  /\ agents \in Nat /\ turns \in Nat
  /\ pc = "idle" => agents = 0 /\ depth = 0
  /\ reply.task <= MostTasks /\ kept.task <= MostTasks
  /\ agents + Waiting <= MostTasks * Loops
  /\ turns + TurnsLeft <= SubTurns * agents

LEMMA Timesplus == \A m, a \in Nat : m * (a + 1) = m * a + m /\ m * a \in Nat
OBVIOUS

LEMMA TimesMonotone == ASSUME NEW m \in Nat, NEW a \in Nat, NEW b \in Nat, a <= b PROVE m * a <= m * b
<1> DEFINE d == b - a
<1>1. d \in Nat /\ b = a + d
  OBVIOUS
<1> HIDE DEF d
<1>2. m * b = m * a + m * d
  BY <1>1
<1>3. m * d \in Nat /\ m * a \in Nat
  BY <1>1
<1> QED BY <1>2, <1>3

LEMMA SubBounds ==
  /\ MostTasks \in Nat /\ TaskRounds \in Nat /\ SubTurns \in Nat /\ SubTurns > 0
  /\ \A r \in Replies : r.task <= MostTasks
  /\ NoReply.task = 0
BY RoundsAssumption DEF NoReply

\* How much of the task loops' budget is spent.
LEMMA LoopsType ==
  ASSUME TypeOK, LoopInv
  PROVE  Loops \in Nat /\ Loops <= TaskRounds * (depth + 1)
<1>1. depth \in Nat /\ TaskRounds * depth \in Nat /\ TaskRounds * (depth + 1) = TaskRounds * depth + TaskRounds
  <2>1. depth \in Nat
    BY DEF TypeOK
  <2> QED BY <2>1, SubBounds, Timesplus
<1>2. tasks \in Nat /\ (pc = "subagent" => tasks + 1 <= TaskRounds)
  BY SubBounds DEF TypeOK, LoopInv
<1>3. TaskCost \in Nat /\ TaskCost <= TaskRounds
  BY CostBounds
<1> HIDE DEF TaskCost
<1>4. PICK spent \in Nat : spent <= TaskRounds /\ Loops = TaskRounds * depth + spent
  BY <1>2, <1>3, SubBounds DEF Loops
<1> QED BY <1>1, <1>4, SubBounds

LEMMA LoopsTypeNext == TypeOK' /\ LoopInv' => (Loops \in Nat)'
<1>1. TypeOK /\ LoopInv => Loops \in Nat
  BY LoopsType
<1> QED BY <1>1, PTL

\* A step that is no sub-agent's, takes up no task and gives no budget back.
LEMMA SubStays ==
  ASSUME RoundsInv, RoundsInv', SubInv, UNCHANGED subVars, pc # "subagent", pc' # "subagent",
         pc' = "idle" => pc = "idle" /\ UNCHANGED depth,
         reply'.task <= MostTasks, kept'.task <= MostTasks, Loops <= Loops'
  PROVE  SubInv'
<1>1. Loops \in Nat /\ Loops' \in Nat
  BY LoopsType, LoopsTypeNext DEF RoundsInv
<1>2. MostTasks * Loops <= MostTasks * Loops' /\ MostTasks * Loops \in Nat /\ MostTasks * Loops' \in Nat
  BY <1>1, SubBounds, TimesMonotone, Timesplus
<1>3. agents \in Nat /\ turns \in Nat /\ agents' = agents /\ turns' = turns
  BY DEF SubInv, subVars
<1>4. agents <= MostTasks * Loops /\ turns <= SubTurns * agents
  BY <1>3 DEF SubInv, Waiting, TurnsLeft
<1>5. agents' + Waiting' <= MostTasks * Loops' /\ turns' + TurnsLeft' <= SubTurns * agents'
  BY <1>2, <1>3, <1>4 DEF Waiting, TurnsLeft
<1>6. pc' = "idle" => agents' = 0 /\ depth' = 0
  BY <1>3 DEF SubInv
<1> QED BY <1>3, <1>5, <1>6 DEF SubInv

LEMMA DelegateCosts == ASSUME RoundsInv, RoundsInv', SubInv, Delegate PROVE SubInv'
<1>1. /\ pc = "parsed" /\ phase # "force" /\ pc' = "subagent" /\ reply.task > 0
      /\ job' = [left |-> reply.task, turn |-> 0, recovery |-> FALSE] /\ agents' = agents + 1
      /\ UNCHANGED <<phase, depth, reply, kept, tasks, turns>>
  BY DEF Delegate, Delegating
<1>2. /\ agents \in Nat /\ turns \in Nat /\ agents <= MostTasks * Loops /\ turns <= SubTurns * agents
      /\ reply.task \in Nat /\ reply.task <= MostTasks /\ kept.task <= MostTasks
  BY <1>1 DEF SubInv, Waiting, TurnsLeft, RoundsInv, TypeOK, ReplyType
<1>3. Loops \in Nat /\ Loops' = Loops + 1
  <2>1. tasks \in Nat /\ depth \in Nat /\ TaskRounds * depth \in Nat
    BY SubBounds, Timesplus DEF RoundsInv, TypeOK
  <2>2. Loops = TaskRounds * depth + tasks /\ Loops' = TaskRounds * depth + (tasks + 1)
    BY <1>1, <2>1 DEF Loops, TaskCost, Under
  <2> QED BY <2>1, <2>2
<1>4. MostTasks * Loops' = MostTasks * Loops + MostTasks /\ MostTasks * Loops \in Nat
  BY <1>3, SubBounds, Timesplus
<1>5. SubTurns * agents' = SubTurns * agents + SubTurns /\ SubTurns * agents \in Nat
  BY <1>1, <1>2, SubBounds, Timesplus
<1>6. agents' + Waiting' <= MostTasks * Loops'
  <2>1. Waiting' = reply.task - 1
    BY <1>1 DEF Waiting
  <2> QED BY <1>1, <1>2, <1>4, <2>1, SubBounds
<1>7. turns' + TurnsLeft' <= SubTurns * agents'
  <2>1. TurnsLeft' = SubTurns
    BY <1>1, SubBounds DEF TurnsLeft
  <2> QED BY <1>1, <1>2, <1>5, <2>1, SubBounds
<1> QED BY <1>1, <1>2, <1>6, <1>7 DEF SubInv

\* A sub-agent that is over has had at most SubTurns turns, the last one included.
LEMMA JobOverCosts ==
  ASSUME RoundsInv, RoundsInv', SubInv, pc = "subagent", JobOver, UNCHANGED tasks,
         turns' \in {turns, turns + 1}
  PROVE  SubInv'
<1>1. /\ job.left \in Nat /\ job.left > 0 /\ job.turn \in Nat /\ job.turn < SubTurns /\ phase # "force"
      /\ tasks \in Nat /\ depth \in Nat /\ reply \in ReplyType
  BY SubBounds DEF RoundsInv, LoopInv, TypeOK
<1>2. /\ agents \in Nat /\ turns \in Nat /\ agents + (job.left - 1) <= MostTasks * Loops
      /\ turns + (SubTurns - job.turn) <= SubTurns * agents
      /\ reply.task <= MostTasks /\ kept.task <= MostTasks
  BY DEF SubInv, Waiting, TurnsLeft
<1>3. turns' \in Nat /\ turns' <= SubTurns * agents /\ SubTurns * agents \in Nat
  <2>1. SubTurns * agents \in Nat
    BY <1>2, SubBounds, Timesplus
  <2> QED BY <1>1, <1>2, <2>1, SubBounds
<1>4. Loops \in Nat /\ MostTasks * Loops \in Nat
  BY SubBounds, LoopsType, Timesplus DEF RoundsInv
<1>5. CASE job.left > 1
  <2>1. /\ job' = [left |-> job.left - 1, turn |-> 0, recovery |-> FALSE] /\ agents' = agents + 1
        /\ UNCHANGED <<pc, phase, depth, reply, kept>>
    BY <1>5 DEF JobOver
  <2>2. Loops' = Loops
    BY <2>1 DEF Loops
  <2>3. Waiting' = job.left - 2 /\ TurnsLeft' = SubTurns
    BY <1>1, <2>1, SubBounds DEF Waiting, TurnsLeft
  <2>4. agents' + Waiting' <= MostTasks * Loops'
    BY <1>1, <1>2, <1>4, <2>1, <2>2, <2>3
  <2>5. SubTurns * agents' = SubTurns * agents + SubTurns
    BY <1>2, <2>1, SubBounds, Timesplus
  <2>6. turns' + TurnsLeft' <= SubTurns * agents'
    BY <1>3, <2>3, <2>5, SubBounds
  <2> QED BY <1>2, <1>3, <2>1, <2>4, <2>6 DEF SubInv
<1>6. CASE ~(job.left > 1)
  <2>1. /\ agents' = agents /\ NextRound("task", [reply EXCEPT !.task = 0])
    BY <1>6 DEF JobOver
  <2>2. pc' = "round" /\ phase' = "task" /\ UNCHANGED <<depth, reply>> /\ kept' = [reply EXCEPT !.task = 0]
    BY <2>1 DEF NextRound
  <2>3. kept'.task <= MostTasks
    BY <1>1, <2>2, SubBounds DEF ReplyType
  <2>4. Loops' = Loops
    BY <1>1, <2>2 DEF Loops, TaskCost, Under
  <2>5. Waiting' = 0 /\ TurnsLeft' = 0 /\ job.left = 1
    BY <1>1, <1>6, <2>2 DEF Waiting, TurnsLeft
  <2>6. agents' + Waiting' <= MostTasks * Loops' /\ turns' + TurnsLeft' <= SubTurns * agents'
    BY <1>2, <1>3, <1>4, <2>1, <2>4, <2>5
  <2> QED BY <1>2, <1>3, <2>1, <2>2, <2>3, <2>6 DEF SubInv
<1> QED BY <1>1, <1>5, <1>6

LEMMA SubTurnCosts == ASSUME RoundsInv, RoundsInv', SubInv, NEW says, SubTurn(says) PROVE SubInv'
<1> DEFINE again == \/ says = "tools"
                    \/ says = "refusal" /\ job.turn < SubTurns - 1 /\ ~job.recovery
           refused == says = "refusal"
<1>0. /\ pc = "subagent" /\ turns' = turns + 1 /\ UNCHANGED tasks
      /\ job \in [left : Nat, turn : 0..(SubTurns - 1), recovery : BOOLEAN]
  BY DEF SubTurn, RoundsInv, LoopInv
<1>1. CASE again /\ job.turn < SubTurns - 1
  <2>1. /\ job' = [job EXCEPT !.turn = job.turn + 1, !.recovery = refused]
        /\ UNCHANGED <<pc, phase, depth, reply, kept, agents>>
    BY <1>1 DEF SubTurn
  <2> HIDE DEF again, refused
  <2>2. job'.left = job.left /\ job'.turn = job.turn + 1 /\ job.turn \in Nat
    BY <1>0, <2>1, SubBounds
  <2>3. Loops' = Loops
    BY <1>0, <2>1 DEF Loops
  <2>4. Waiting' = Waiting /\ TurnsLeft' = SubTurns - (job.turn + 1) /\ TurnsLeft = SubTurns - job.turn
    BY <1>0, <2>1, <2>2 DEF Waiting, TurnsLeft
  <2>5. agents \in Nat /\ turns \in Nat /\ SubTurns * agents \in Nat
        /\ turns + TurnsLeft <= SubTurns * agents /\ agents + Waiting <= MostTasks * Loops
    BY SubBounds, Timesplus DEF SubInv
  <2>6. turns' + TurnsLeft' <= SubTurns * agents'
    BY <1>0, <2>1, <2>2, <2>4, <2>5, SubBounds
  <2>7. agents' + Waiting' <= MostTasks * Loops'
    BY <2>1, <2>3, <2>4, <2>5
  <2> QED BY <1>0, <2>1, <2>5, <2>6, <2>7 DEF SubInv
<1>2. CASE ~(again /\ job.turn < SubTurns - 1)
  <2>1. JobOver
    BY <1>2 DEF SubTurn
  <2> QED BY <1>0, <2>1, JobOverCosts
<1> QED BY <1>1, <1>2

\* The other steps leave the counters alone, and what the task loop may still
\* spend does not grow.
LEMMA OthersCost ==
  ASSUME RoundsInv, RoundsInv', SubInv,
         \/ Begin \/ (\E n \in 1..Len(text) : Arrives(n)) \/ RoundEnds \/ ToolSearch \/ Orient \/ ForceCall
         \/ Answer \/ FallBack \/ (\E d \in BOOLEAN : RoundFails(d)) \/ Failover
  PROVE  SubInv'
<1>1. /\ tasks \in Nat /\ tasks <= TaskRounds /\ depth \in 0..1 /\ TaskRounds * depth \in Nat
      /\ TaskRounds * 0 = 0 /\ TaskRounds * 1 = TaskRounds
      /\ reply.task <= MostTasks /\ kept.task <= MostTasks /\ reply \in ReplyType /\ kept \in ReplyType
  <2>1. tasks \in Nat /\ tasks <= TaskRounds /\ depth \in 0..1 /\ reply \in ReplyType /\ kept \in ReplyType
    BY SubBounds DEF RoundsInv, TypeOK
  <2>2. TaskRounds * depth \in Nat /\ TaskRounds * 0 = 0 /\ TaskRounds * 1 = TaskRounds
    BY <2>1, SubBounds, Timesplus
  <2> QED BY <2>1, <2>2 DEF SubInv
<1>2. TaskCost \in Nat /\ TaskCost <= TaskRounds /\ TaskCost' \in Nat
  BY CostBounds, CostBoundsNext DEF RoundsInv
<1>3. CASE Begin
  <2>1. /\ pc = "idle" /\ pc' = "round" /\ phase' = "first" /\ tasks' = 0 /\ UNCHANGED <<depth, subVars>>
        /\ reply' = NoReply /\ kept' = NoReply /\ depth = 0 /\ agents = 0
    BY <1>3 DEF Begin, Start0, SubInv
  <2>2. agents' = 0 /\ turns' = turns /\ Loops' \in Nat /\ turns \in Nat /\ turns <= SubTurns * agents
    BY <2>1, LoopsTypeNext DEF subVars, RoundsInv, SubInv, TurnsLeft
  <2>3. MostTasks * Loops' \in Nat
    BY <2>2, SubBounds, Timesplus
  <2>4. Waiting' = 0 /\ TurnsLeft' = 0
    BY <2>1 DEF Waiting, TurnsLeft
  <2>5. agents' + Waiting' <= MostTasks * Loops' /\ turns' + TurnsLeft' <= SubTurns * agents'
    <3>1. agents' = agents
      BY <2>1, <2>2
    <3> QED BY <2>2, <2>3, <2>4, <3>1
  <2>6. reply'.task <= MostTasks /\ kept'.task <= MostTasks
    BY <2>1, SubBounds
  <2> QED BY <2>1, <2>2, <2>5, <2>6 DEF SubInv
<1>4. CASE \E n \in 1..Len(text) : Arrives(n)
  <2>1. pc = "round" /\ UNCHANGED <<pc, phase, depth, tasks, reply, kept, subVars>>
    BY <1>4 DEF Arrives, countVars
  <2>2. Loops' = Loops /\ Loops \in Nat
    BY <2>1, LoopsType DEF Loops, TaskCost, Under, RoundsInv
  <2> QED BY <1>1, <2>1, <2>2, SubStays
<1>5. CASE RoundEnds
  <2>1. /\ pc = "round" /\ pc' = "parsed" /\ UNCHANGED <<phase, depth, subVars>> /\ kept' = NoReply
        /\ reply' \in Replies /\ tasks' = (IF phase = "task" THEN tasks + 1 ELSE tasks)
    BY <1>5 DEF RoundEnds
  <2>2. TaskCost' = TaskCost
    BY <1>1, <2>1 DEF TaskCost, Under
  <2>3. Loops' = Loops /\ Loops \in Nat
    BY <2>1, <2>2, LoopsType DEF Loops, RoundsInv
  <2> QED BY <2>1, <2>3, SubBounds, SubStays
<1>6. CASE ToolSearch
  <2>1. /\ pc = "parsed" /\ phase \in {"first", "search"} /\ pc' = "round" /\ phase' = "search"
        /\ UNCHANGED <<depth, tasks, reply, subVars>> /\ kept' = [reply EXCEPT !.search = 0]
    BY <1>6 DEF ToolSearch, Searching, NextRound, countVars
  <2>2. kept'.task = reply.task
    BY <1>1, <2>1 DEF ReplyType
  <2>3. Loops' = Loops /\ Loops \in Nat
    BY <2>1, LoopsType DEF Loops, TaskCost, Under, RoundsInv
  <2> QED BY <1>1, <2>1, <2>2, <2>3, SubStays
<1>7. CASE Orient
  <2>1. /\ pc = "parsed" /\ UNCHANGED <<pc, phase, depth, tasks, kept, subVars>> /\ reply' \in Orientations
    BY <1>7 DEF Orient, Forcing, countVars
  <2>2. reply'.task = 0
    BY <2>1 DEF Orientations, NoReply
  <2>3. Loops' = Loops /\ Loops \in Nat
    BY <2>1, LoopsType DEF Loops, TaskCost, Under, RoundsInv
  <2> QED BY <1>1, <2>1, <2>2, <2>3, SubBounds, SubStays
<1>8. CASE ForceCall
  <2>1. /\ pc = "parsed" /\ pc' = "round" /\ phase' = "force" /\ UNCHANGED <<depth, tasks, reply, subVars>>
        /\ kept' = NoReply
    BY <1>8 DEF ForceCall, Forcing, NextRound
  <2>2. Loops = TaskRounds * depth + TaskCost /\ Loops' = TaskRounds * depth + TaskRounds
    BY <2>1 DEF Loops, TaskCost, Under
  <2> QED BY <1>1, <1>2, <2>1, <2>2, SubBounds, SubStays
<1>9. CASE Answer \/ (\E d \in BOOLEAN : RoundFails(d))
  <2>1. PICK p : Finish(p)
    BY <1>9 DEF Answer, RoundFails
  <2>2. pc \in {"parsed", "round"}
    BY <1>9 DEF Answer, RoundFails, Failed
  <2>3. pc' = "done" /\ reply' = NoReply /\ kept' = NoReply /\ UNCHANGED <<depth, subVars>>
    BY <2>1 DEF Finish
  <2>4. Loops = TaskRounds * depth + TaskCost /\ Loops' = TaskRounds * depth + TaskRounds
    BY <2>2, <2>3 DEF Loops
  <2> QED BY <1>1, <1>2, <2>2, <2>3, <2>4, SubBounds, SubStays
<1>10. CASE FallBack
  <2>1. /\ pc = "round" /\ phase \in {"search", "task"} /\ pc' = "parsed" /\ UNCHANGED <<depth, tasks, kept, subVars>>
        /\ phase' = (IF phase = "search" THEN "task" ELSE "force")
        /\ reply' = [kept EXCEPT !.long = FALSE, !.mood = "plain"]
    BY <1>10 DEF FallBack, countVars
  <2>2. reply'.task = kept.task
    BY <1>1, <2>1 DEF ReplyType
  <2>3. TaskCost <= TaskCost'
    <3>1. CASE phase = "search"
      BY <1>1, <2>1, <3>1 DEF TaskCost, Under
    <3>2. CASE phase = "task"
      BY <1>2, <2>1, <3>2 DEF TaskCost
    <3> QED BY <2>1, <3>1, <3>2
  <2>4. Loops = TaskRounds * depth + TaskCost /\ Loops' = TaskRounds * depth + TaskCost'
    BY <2>1 DEF Loops
  <2> QED BY <1>1, <1>2, <2>1, <2>2, <2>3, <2>4, SubStays
<1>11. CASE Failover
  <2>1. /\ pc = "round" /\ pc' = "round" /\ phase' = "first" /\ tasks' = 0 /\ depth = 0 /\ depth' = 1
        /\ reply' = NoReply /\ kept' = NoReply /\ UNCHANGED subVars
    BY <1>11 DEF Failover, Failed, Start0
  <2>2. Loops = TaskRounds * 0 + TaskCost /\ Loops' = TaskRounds * 1 + 0
    BY <2>1 DEF Loops, TaskCost, Under
  <2> QED BY <1>1, <1>2, <2>1, <2>2, SubBounds, SubStays
<1> QED BY <1>3, <1>4, <1>5, <1>6, <1>7, <1>8, <1>9, <1>10, <1>11

LEMMA SubStep == RoundsInv /\ RoundsInv' /\ SubInv /\ [Next]_vars => SubInv'
<1> SUFFICES ASSUME RoundsInv, RoundsInv', SubInv, [Next]_vars PROVE SubInv'
  OBVIOUS
<1>1. CASE UNCHANGED vars \/ Done
  <2>1. UNCHANGED <<pc, phase, depth, tasks, reply, kept, job, agents, turns>>
    BY <1>1 DEF vars, Done, countVars, subVars
  <2> QED BY <2>1 DEF SubInv, Waiting, TurnsLeft, Loops, TaskCost, Under
<1>2. CASE Abort
  <2>1. UNCHANGED <<pc, phase, depth, tasks, reply, kept, job, agents, turns>>
    BY <1>2 DEF Abort, countVars, subVars
  <2> QED BY <2>1 DEF SubInv, Waiting, TurnsLeft, Loops, TaskCost, Under
<1>3. CASE Delegate
  BY <1>3, DelegateCosts
<1>4. CASE \E says \in {"tools", "refusal", "report"} : SubTurn(says)
  BY <1>4, SubTurnCosts
<1>5. CASE SubCancelled
  <2>1. pc = "subagent" /\ JobOver /\ UNCHANGED <<tasks, turns>>
    BY <1>5 DEF SubCancelled
  <2> QED BY <2>1, JobOverCosts
<1>6. CASE \/ Begin \/ (\E n \in 1..Len(text) : Arrives(n)) \/ RoundEnds \/ ToolSearch \/ Orient \/ ForceCall
           \/ Answer \/ FallBack \/ (\E d \in BOOLEAN : RoundFails(d)) \/ Failover
  BY <1>6, OthersCost
<1> QED BY <1>1, <1>2, <1>3, <1>4, <1>5, <1>6 DEF Next

LEMMA InitSub == Init => SubInv
<1> SUFFICES ASSUME Init PROVE SubInv
  OBVIOUS
<1>1. /\ pc = "idle" /\ depth = 0 /\ agents = 0 /\ turns = 0 /\ reply = NoReply /\ kept = NoReply
  BY DEF Init
<1>2. Loops \in Nat
  BY InitRounds, LoopsType DEF RoundsInv
<1>3. MostTasks * Loops \in Nat /\ SubTurns * 0 = 0
  BY <1>2, SubBounds, Timesplus
<1>4. Waiting = 0 /\ TurnsLeft = 0
  BY <1>1 DEF Waiting, TurnsLeft
<1> QED BY <1>1, <1>3, <1>4, SubBounds DEF SubInv

\* What one request costs whatever M365 writes: of its own rounds at most one first
\* turn, the search rounds, the task rounds and the forced retries, for each of at
\* most two models; of sub-agents at most as many as a reply may have Task calls, for
\* each of those task rounds; of turns at most SubTurns for each sub-agent.
THEOREM RoundsAreBounded == Spec => []RoundBudget
<1>1. RoundsInv /\ SubInv => RoundBudget
  <2> SUFFICES ASSUME RoundsInv, SubInv PROVE RoundBudget
    OBVIOUS
  <2>1. TypeOK
    BY DEF RoundsInv
  <2>2. rounds <= (depth + 1) * (1 + SearchRounds + TaskRounds + ForceRetries)
    <3>1. rounds <= (IF depth = 0 THEN Budget ELSE Budget + Budget)
      BY BudgetKept DEF RoundsInv
    <3>2. (depth + 1) * Budget = (IF depth = 0 THEN Budget ELSE Budget + Budget)
      <4>1. CASE depth = 0
        BY <4>1, Bounds
      <4>2. CASE depth = 1
        BY <4>2, Bounds
      <4> QED BY <2>1, <4>1, <4>2 DEF TypeOK
    <3> QED BY <3>1, <3>2 DEF Budget
  <2>3. Waiting \in Nat /\ TurnsLeft \in Nat
    BY SubBounds DEF RoundsInv, LoopInv, Waiting, TurnsLeft
  <2>4. agents <= MostTasks * (TaskRounds * (depth + 1))
    <3> DEFINE most == TaskRounds * (depth + 1)
    <3>1. Loops \in Nat /\ Loops <= most
      BY LoopsType DEF RoundsInv
    <3>2. most \in Nat
      <4>1. depth + 1 \in Nat
        BY <2>1 DEF TypeOK
      <4> QED BY <4>1, SubBounds, Timesplus
    <3> HIDE DEF most
    <3>3. MostTasks * Loops <= MostTasks * most /\ MostTasks * Loops \in Nat /\ MostTasks * most \in Nat
      BY <3>1, <3>2, SubBounds, TimesMonotone, Timesplus
    <3>4. agents \in Nat /\ agents + Waiting <= MostTasks * Loops
      BY DEF SubInv
    <3>5. agents <= MostTasks * most
      BY <2>3, <3>3, <3>4
    <3> QED BY <3>5 DEF most
  <2>5. turns <= SubTurns * agents /\ agents \in Nat /\ turns \in Nat
    <3>1. agents \in Nat /\ turns \in Nat /\ turns + TurnsLeft <= SubTurns * agents
      BY DEF SubInv
    <3>2. SubTurns * agents \in Nat
      BY <3>1, SubBounds, Timesplus
    <3> QED BY <2>3, <3>1, <3>2
  <2> QED BY <2>1, <2>2, <2>4, <2>5 DEF RoundBudget
<1> QED BY <1>1, InitSub, SubStep, InitRounds, RoundsStep, PTL DEF Spec

\* The client is only asked to run declared tools that passed the registry.
THEOREM MetaToolsStayInside == Spec => []MetaNeverLeaks
<1>1. RoundsInv => MetaNeverLeaks
  BY DEF RoundsInv, AnswerOK, OnlyDeclared, MetaNeverLeaks
<1> QED BY <1>1, RoundsInvariant, PTL

\* Nothing of a tool call is forwarded, wherever the deltas are cut, and what
\* is held back is exactly what is missing.
THEOREM ProseIsGuarded == Spec => []GuardedProse
<1>1. RoundsInv => GuardedProse
  <2> SUFFICES ASSUME RoundsInv, req.tools, phase = "first", pc = "round"
               PROVE  /\ IsPrefix(streamed, IF Fence(text) = 0 THEN text ELSE SubSeq(text, 1, Fence(text) - 1))
                      /\ guard.hit \/ streamed \o guard.pending = SubSeq(text, 1, arrived)
    BY DEF GuardedProse
  <2> DEFINE s == Len(streamed)
             prose == IF Fence(text) = 0 THEN text ELSE SubSeq(text, 1, Fence(text) - 1)
  <2>1. /\ text \in Seq(Letters) /\ streamed \in Seq(Letters) /\ arrived \in Nat /\ Len(text) \in Nat
        /\ arrived <= Len(text) /\ s <= arrived /\ s \in Nat
        /\ streamed = SubSeq(text, 1, s)
        /\ Fence(text) = 0 \/ s < Fence(text)
        /\ guard.hit \/ guard.pending = SubSeq(text, s + 1, arrived)
    BY DEF RoundsInv, TypeOK, FenceInv
  <2> HIDE DEF s
  <2>2. SubSeq(streamed, 1, s) = streamed
    BY <2>1, SubSeqFull DEF s
  <2>3. s <= Len(prose) /\ SubSeq(prose, 1, s) = SubSeq(text, 1, s)
    <3>1. CASE Fence(text) = 0
      BY <2>1, <3>1
    <3>2. CASE Fence(text) # 0
      <4>1. Fence(text) \in 1..Len(text) /\ Fence(text) - 1 \in Nat /\ s <= Fence(text) - 1
        BY <2>1, <3>2, FenceIsFirst
      <4>2. Len(prose) = Fence(text) - 1
        BY <2>1, <3>2, <4>1, SubText
      <4>3. SubSeq(prose, 1, s) = SubSeq(text, 1 + 1 - 1, 1 + s - 1)
        <5>1. 1 \in Nat \ {0} /\ 1 <= (Fence(text) - 1) + 1 /\ Fence(text) - 1 <= Len(text) /\ 1 <= s + 1
              /\ s <= (Fence(text) - 1) - 1 + 1
          BY <2>1, <4>1
        <5> QED BY <2>1, <3>2, <4>1, <5>1, PartOfPart
      <4> QED BY <2>1, <4>1, <4>2, <4>3
    <3> QED BY <3>1, <3>2
  <2>4. IsPrefix(streamed, prose)
    BY <2>1, <2>2, <2>3 DEF IsPrefix, s
  <2>5. ~guard.hit => streamed \o guard.pending = SubSeq(text, 1, arrived)
    <3>1. SubSeq(text, 1, s) \o SubSeq(text, s + 1, arrived) = SubSeq(text, 1, arrived)
      BY <2>1, PartsJoin
    <3> QED BY <2>1, <3>1
  <2> QED BY <2>4, <2>5
<1> QED BY <1>1, RoundsInvariant, PTL
-----------------------------------------------------------------------------
(* The stream the client gets.                                             *)

LEMMA RenderedSound ==
  ASSUME ViewSound(view), sent \in Seq(Letters), NEW p, AnswerOK(p), p.kind # "none", Rendered(p)
  PROVE  ViewSound(view') /\ view'.open = NoBlock
<1>1. PICK thinking \in BOOLEAN :
        view' = CASE p.kind = "text" -> RenderText(view, sent, ApplyStopSequences(p.text, req.stops), thinking)
                  [] p.kind = "tools" -> RenderTools(view, sent, p.text, Calls(p.calls), thinking)
                  [] p.kind = "error" -> RenderError(view, p.disengaged)
  BY DEF Rendered
<1>2. /\ p.kind \in {"text", "tools", "error"} /\ p.text \in Seq(Letters) /\ Calls(p.calls) \in Nat
      /\ ApplyStopSequences(p.text, req.stops) \in Seq(Letters)
  BY CallsType, StopType DEF AnswerOK
<1>3. CASE p.kind = "text"
  <2>1. view' = RenderText(view, sent, ApplyStopSequences(p.text, req.stops), thinking)
    BY <1>1, <1>3
  <2> QED BY <1>2, <2>1, RenderTextSound
<1>4. CASE p.kind = "tools"
  <2>1. view' = RenderTools(view, sent, p.text, Calls(p.calls), thinking)
    BY <1>1, <1>4
  <2> QED BY <1>2, <2>1, RenderToolsSound
<1>5. CASE p.kind = "error"
  <2>1. view' = RenderError(view, p.disengaged)
    BY <1>1, <1>5
  <2> QED BY <2>1, RenderErrorSound
<1> QED BY <1>2, <1>3, <1>4, <1>5

ViewInv == ViewSound(view) /\ (pc = "done" => view.open = NoBlock)

LEMMA OutcomeKinds == ASSUME NEW p \in Outcomes PROVE p.kind # "none"
<1>1. \A r : Validated(r).kind # "none"
  BY DEF Validated, Error, Tools
<1>2. \A t : Text(t).kind # "none"
  BY DEF Text
<1> QED BY <1>1, <1>2 DEF Outcomes

LEMMA FinishView ==
  ASSUME RoundsInv, ViewInv, NEW p, AnswerOK(p), p.kind # "none", Finish(p)
  PROVE  ViewInv'
<1>1. Rendered(p) /\ sent \in Seq(Letters)
  BY DEF Finish, RoundsInv, TypeOK
<1> QED BY <1>1, RenderedSound DEF ViewInv

LEMMA ViewStep == RoundsInv /\ ViewInv /\ [Next]_vars => ViewInv'
<1> SUFFICES ASSUME RoundsInv, ViewInv, [Next]_vars PROVE ViewInv'
  OBVIOUS
<1>1. ASSUME NEW n \in 1..Len(text), Arrives(n) PROVE ViewInv'
  <2> DEFINE delta == SubSeq(text, arrived + 1, arrived + n)
             step == IF req.tools THEN Forward(guard, delta) ELSE [guard |-> guard, out |-> delta]
  <2>1. pc' = "round" /\ arrived + n <= Len(text) /\ (view' = view \/ view' = TextDelta(view, step.out))
    BY <1>1 DEF Arrives
  <2>2. text \in Seq(Letters) /\ arrived \in Nat /\ n \in Nat /\ guard \in GuardType
    BY DEF RoundsInv, TypeOK, FenceInv
  <2>3. delta \in Seq(Letters)
    BY <2>1, <2>2, SubText
  <2> HIDE DEF delta
  <2>4. step.out \in Seq(Letters)
    <3>1. CASE req.tools
      BY <2>2, <2>3, <3>1, ForwardSplits
    <3>2. CASE ~req.tools
      BY <2>3, <3>2
    <3> QED BY <3>1, <3>2
  <2> HIDE DEF step
  <2> QED BY <2>1, <2>4, TextDeltaSound DEF ViewInv
<1>2. ASSUME Answer PROVE ViewInv'
  <2>1. PICK p \in Outcomes : Finish(p)
    BY <1>2 DEF Answer
  <2>2. AnswerOK(p) /\ p.kind # "none"
    BY OutcomesOK, OutcomeKinds DEF RoundsInv, TypeOK
  <2> QED BY <2>1, <2>2, FinishView
<1>3. ASSUME NEW d, RoundFails(d) PROVE ViewInv'
  BY <1>3, ErrorOK, FinishView DEF RoundFails
<1>4. ASSUME UNCHANGED view, pc' # "done" PROVE ViewInv'
  BY <1>4 DEF ViewInv
<1>5. ASSUME NEW says, SubTurn(says) PROVE ViewInv'
  <2>1. UNCHANGED view /\ pc' # "done"
    BY <1>5 DEF SubTurn, JobOver, NextRound
  <2> QED BY <1>4, <2>1
<1>6. CASE \/ Begin \/ RoundEnds \/ ToolSearch \/ Delegate \/ SubCancelled \/ Orient \/ ForceCall
           \/ FallBack \/ Failover \/ Abort
  <2>1. UNCHANGED view /\ pc' # "done"
    BY <1>6 DEF Begin, Start0, RoundEnds, ToolSearch, Delegate, Delegating, SubCancelled, JobOver, NextRound, Orient,
                Forcing, ForceCall, FallBack, Failover, Abort
  <2> QED BY <1>4, <2>1
<1>7. CASE Done \/ UNCHANGED vars
  BY <1>7 DEF Done, vars, ViewInv
<1> QED BY <1>1, <1>2, <1>3, <1>5, <1>6, <1>7 DEF Next

\* The blocks of a streamed message are well formed at any moment and all
\* closed at the end, for every text, every number of calls and every order of
\* rounds before them.
THEOREM BlocksAreSound == Spec => []BlocksSound
<1>1. Init => ViewInv
  BY NoEventsSound DEF Init, ViewInv
<1>2. RoundsInv /\ ViewInv /\ [Next]_vars => ViewInv'
  BY ViewStep
<1>3. ViewInv => BlocksSound
  <2> SUFFICES ASSUME ViewInv PROVE BlocksSound
    OBVIOUS
  <2> DEFINE es == view.events
  <2>1. es \in Seq(EventType) /\ DOMAIN es = 1..Len(es) /\ Sound(es, view.next, Opens(view))
    BY DEF ViewInv, ViewSound, Sound
  <2>2. WellNested(view)
    <3> SUFFICES ASSUME NEW i \in 1..Len(es)
                 PROVE  IF es[i].event = "start"
                        THEN es[i].block = Cardinality({j \in 1..(i - 1) : es[j].event = "start"})
                        ELSE /\ {j \in 1..(i - 1) : es[j].event = "start" /\ es[j].block = es[i].block} # {}
                             /\ {j \in 1..(i - 1) : es[j].event = "stop" /\ es[j].block = es[i].block} = {}
      BY <2>1 DEF WellNested
    <3>1. NestedAt(es, i)
      BY <2>1 DEF Sound
    <3> QED BY <3>1 DEF NestedAt, Started
  <2>3. ASSUME pc = "done" PROVE AllClosed(view)
    <3> SUFFICES ASSUME NEW i \in 1..Len(es), es[i].event = "start"
                 PROVE  \E j \in 1..Len(es) : es[j].event = "stop" /\ es[j].block = es[i].block
      BY <2>1 DEF AllClosed
    <3>1. Opens(view) = {}
      BY <2>3 DEF ViewInv, Opens
    <3>2. es[i].block \in Nat
      <4>1. es[i] \in EventType
        BY <2>1
      <4> QED BY <4>1 DEF EventType
    <3>3. Starts(es, es[i].block)
      BY DEF Starts
    <3>4. Stops(es, es[i].block)
      BY <2>1, <3>1, <3>2, <3>3 DEF Sound
    <3> QED BY <3>4 DEF Stops
  <2> QED BY <2>2, <2>3 DEF BlocksSound
<1> QED BY <1>1, <1>2, <1>3, RoundsInvariant, PTL DEF Spec

\* Until the renderer writes the end, the client has read what was sent.
ReadInv ==
  /\ pc # "done" => TextOf(view) = sent
  /\ pc = "done" => Delivered

LEMMA FinishReads ==
  ASSUME RoundsInv, ViewInv, TextOf(view) = sent, NEW p, AnswerOK(p), p.kind # "none", Finish(p)
  PROVE  Delivered'
<1>1. Rendered(p) /\ sent \in Seq(Letters) /\ sent' = sent /\ req' = req /\ produced' = p /\ ViewSound(view)
  BY DEF Finish, RoundsInv, TypeOK, ViewInv
<1>2. PICK thinking \in BOOLEAN :
        view' = CASE p.kind = "text" -> RenderText(view, sent, ApplyStopSequences(p.text, req.stops), thinking)
                  [] p.kind = "tools" -> RenderTools(view, sent, p.text, Calls(p.calls), thinking)
                  [] p.kind = "error" -> RenderError(view, p.disengaged)
  BY <1>1 DEF Rendered
<1>3. /\ p.kind \in {"text", "tools", "error"} /\ p.text \in Seq(Letters) /\ Calls(p.calls) \in Nat
      /\ ApplyStopSequences(p.text, req.stops) \in Seq(Letters)
  BY CallsType, StopType DEF AnswerOK
<1> DEFINE final == ApplyStopSequences(p.text, IF p.kind = "text" THEN req.stops ELSE {})
           read == TextOf(view')
<1>4. IsPrefix(sent, read) /\ (p.kind \in {"text", "tools"} => HasPart(read, final))
  <2>1. CASE p.kind = "text"
    <3>1. view' = RenderText(view, sent, final, thinking) /\ final \in Seq(Letters)
      BY <1>2, <1>3, <2>1
    <3> HIDE DEF final
    <3> QED BY <1>1, <3>1, RenderTextReads DEF Delivers
  <2>2. CASE p.kind = "tools"
    <3>1. view' = RenderTools(view, sent, p.text, Calls(p.calls), thinking)
      BY <1>2, <2>2
    <3>2. final = p.text
      BY <1>3, <2>2, NoStops
    <3> HIDE DEF final
    <3>3. Delivers(sent, read, p.text)
      BY <1>1, <1>3, <3>1, RenderToolsReads
    <3> HIDE DEF read
    <3> QED BY <3>2, <3>3 DEF Delivers
  <2>3. CASE p.kind = "error"
    <3>1. view' = RenderError(view, p.disengaged)
      BY <1>2, <2>3
    <3> QED BY <1>1, <2>3, <3>1, RenderErrorReads
  <2> QED BY <1>3, <2>1, <2>2, <2>3
<1> HIDE DEF final, read
<1>5. TextOf(view)' = read
  BY DEF read, TextOf
<1> QED BY <1>1, <1>4, <1>5 DEF Delivered, HasPart, final

LEMMA ReadStep == RoundsInv /\ ViewInv /\ ReadInv /\ [Next]_vars => ReadInv'
<1> SUFFICES ASSUME RoundsInv, ViewInv, ReadInv, [Next]_vars PROVE ReadInv'
  OBVIOUS
<1>0. ASSUME UNCHANGED view PROVE TextOf(view)' = TextOf(view)
  BY <1>0 DEF TextOf
<1>1. ASSUME NEW n \in 1..Len(text), Arrives(n) PROVE ReadInv'
  <2> DEFINE delta == SubSeq(text, arrived + 1, arrived + n)
             step == IF req.tools THEN Forward(guard, delta) ELSE [guard |-> guard, out |-> delta]
  <2>1. /\ pc = "round" /\ pc' = "round" /\ arrived + n <= Len(text)
        /\ \/ UNCHANGED <<sent, view>>
           \/ sent' = sent \o step.out /\ view' = TextDelta(view, step.out)
    BY <1>1 DEF Arrives
  <2>2. text \in Seq(Letters) /\ arrived \in Nat /\ n \in Nat /\ guard \in GuardType
    BY DEF RoundsInv, TypeOK, FenceInv
  <2>3. delta \in Seq(Letters)
    BY <2>1, <2>2, SubText
  <2> HIDE DEF delta
  <2>4. step.out \in Seq(Letters)
    <3>1. CASE req.tools
      BY <2>2, <2>3, <3>1, ForwardSplits
    <3>2. CASE ~req.tools
      BY <2>3, <3>2
    <3> QED BY <3>1, <3>2
  <2> HIDE DEF step
  <2>5. TextOf(view) = sent /\ ViewSound(view)
    BY <2>1 DEF ReadInv, ViewInv
  <2>6. CASE UNCHANGED <<sent, view>>
    BY <1>0, <2>1, <2>5, <2>6 DEF ReadInv
  <2>7. CASE sent' = sent \o step.out /\ view' = TextDelta(view, step.out)
    <3>1. TextOf(view') = sent'
      BY <2>4, <2>5, <2>7, TextDeltaReads
    <3>2. TextOf(view)' = TextOf(view')
      BY DEF TextOf
    <3> QED BY <2>1, <3>1, <3>2 DEF ReadInv
  <2> QED BY <2>1, <2>6, <2>7
<1>2. ASSUME Answer PROVE ReadInv'
  <2>1. PICK p \in Outcomes : Finish(p)
    BY <1>2 DEF Answer
  <2>2. AnswerOK(p) /\ p.kind # "none" /\ pc # "done" /\ pc' = "done"
    BY <1>2, <2>1, OutcomesOK, OutcomeKinds DEF RoundsInv, TypeOK, Answer, Finish
  <2> QED BY <2>1, <2>2, FinishReads DEF ReadInv
<1>3. ASSUME NEW d, RoundFails(d) PROVE ReadInv'
  <2>1. AnswerOK(Error(d)) /\ Error(d).kind # "none" /\ pc # "done" /\ pc' = "done" /\ Finish(Error(d))
    BY <1>3, ErrorOK DEF RoundFails, Failed, Finish
  <2> QED BY <2>1, FinishReads DEF ReadInv
<1>4. ASSUME UNCHANGED <<view, sent>>, pc # "done", pc' # "done" PROVE ReadInv'
  BY <1>0, <1>4 DEF ReadInv
<1>5. ASSUME NEW says, SubTurn(says) PROVE ReadInv'
  <2>1. UNCHANGED <<view, sent>> /\ pc # "done" /\ pc' # "done"
    BY <1>5 DEF SubTurn, JobOver, NextRound, streamVars
  <2> QED BY <1>4, <2>1
<1>6. CASE \/ Begin \/ RoundEnds \/ ToolSearch \/ Delegate \/ SubCancelled \/ Orient \/ ForceCall
           \/ FallBack \/ Failover \/ Abort
  <2>1. UNCHANGED <<view, sent>> /\ pc # "done" /\ pc' # "done"
    BY <1>6 DEF Begin, Start0, RoundEnds, ToolSearch, Searching, Delegate, Delegating, SubCancelled, JobOver, NextRound,
                Orient, Forcing, ForceCall, FallBack, Failed, Failover, Abort, streamVars
  <2> QED BY <1>4, <2>1
<1>7. CASE Done \/ UNCHANGED vars
  BY <1>7 DEF Done, vars, streamVars, ReadInv, Delivered, TextOf
<1> QED BY <1>1, <1>2, <1>3, <1>5, <1>6, <1>7 DEF Next

\* What the client has read is never taken back, and in the end it contains the
\* whole answer, whichever round or model the answer is from.
THEOREM AnswerIsDelivered == Spec => []Delivered
<1>1. Init => ViewInv /\ ReadInv
  BY NoEventsSound, NothingRead, ReadsAre DEF Init, ViewInv, ReadInv, NoEvents
<1>2. RoundsInv /\ ViewInv /\ [Next]_vars => ViewInv'
  BY ViewStep
<1>3. RoundsInv /\ ViewInv /\ ReadInv /\ [Next]_vars => ReadInv'
  BY ReadStep
<1>4. RoundsInv /\ ReadInv => Delivered
  BY PrefixReflexive DEF ReadInv, Delivered, RoundsInv, TypeOK
<1> QED BY <1>1, <1>2, <1>3, <1>4, RoundsInvariant, PTL DEF Spec

-----------------------------------------------------------------------------
(* The tools M365 is shown. *)

\* The values that DedupeByName goes through.
DedupeRun(f, s) ==
  f[0] = <<>> /\ \A i \in 1..Len(s) : f[i] = IF Contains(f[i - 1], s[i]) THEN f[i - 1] ELSE Append(f[i - 1], s[i])

LEMMA DedupeRuns ==
  ASSUME NEW E, NEW s \in Seq(E)
  PROVE  \E f \in [0..Len(s) -> Seq(E)] :
           DedupeByName(s) = f[Len(s)] /\ DedupeRun(f, s)
<1> DEFINE Step(i, x) == IF Contains(x, s[i]) THEN x ELSE Append(x, s[i])
           Runs(f) == f = [i \in 0..Len(s) |-> IF i = 0 THEN <<>> ELSE IF Contains(f[i - 1], s[i]) THEN f[i - 1] ELSE Append(f[i - 1], s[i])]
           F == CHOOSE f : Runs(f)
<1>0. Len(s) \in Nat /\ <<>> \in Seq(E)
  OBVIOUS
<1>1. DedupeByName(s) = F[Len(s)]
  BY DEF DedupeByName
<1>2. \A i \in 1..Len(s), x \in Seq(E) : Step(i, x) \in Seq(E)
  <2>1. \A i \in 1..Len(s) : s[i] \in E
    BY ElementOfSeq
  <2> QED BY <2>1, AppendProperties
<1>3. PICK f \in [0..Len(s) -> Seq(E)] : f[0] = <<>> /\ \A i \in 1..Len(s) : f[i] = Step(i, f[i - 1])
  <2> DEFINE G == [p \in (1..Len(s)) \X Seq(E) |-> Step(p[1], p[2])]
  <2> HIDE DEF Step
  <2>1. \A i \in 1..Len(s), x \in Seq(E) : G[<<i, x>>] = Step(i, x)
    OBVIOUS
  <2> HIDE DEF G
  <2>2. \A i \in 1..Len(s), x \in Seq(E) : G[<<i, x>>] \in Seq(E)
    BY <1>2, <2>1
  <2>3. PICK f \in [0..Len(s) -> Seq(E)] : RunOf(f, Len(s), <<>>, G)
    BY <1>0, <2>2, Iterates
  <2>4. \A i \in 1..Len(s) : i - 1 \in 0..Len(s)
    BY <1>0
  <2>5. f[0] = <<>> /\ \A i \in 1..Len(s) : f[i] = G[<<i, f[i - 1]>>]
    BY <2>3 DEF RunOf
  <2>6. \A i \in 1..Len(s) : f[i - 1] \in Seq(E)
    BY <2>3, <2>4, Zenon
  <2>7. \A i \in 1..Len(s) : f[i] = Step(i, f[i - 1])
    <3> TAKE i \in 1..Len(s)
    <3>1. G[<<i, f[i - 1]>>] = Step(i, f[i - 1])
      BY <2>1, <2>6, Zenon
    <3> QED BY <2>5, <3>1, Zenon
  <2> QED BY <2>3, <2>5, <2>7, Zenon
<1>4. Runs(f)
  <2>1. \A i \in 0..Len(s) : f[i] = IF i = 0 THEN <<>> ELSE IF Contains(f[i - 1], s[i]) THEN f[i - 1] ELSE Append(f[i - 1], s[i])
    <3> HIDE DEF F
    <3> TAKE i \in 0..Len(s)
    <3>1. CASE i = 0
      BY <3>1, <1>3
    <3>2. CASE i # 0
      <4>1. i \in 1..Len(s)
        BY <1>0, <3>2
      <4> QED BY <4>1, <3>2, <1>3, Zenon
    <3> QED BY <3>1, <3>2
  <2> QED BY <2>1, <1>3, Zenon
<1>5. Runs(F)
  <2> HIDE DEF Runs
  <2> QED BY <1>4
<1>6. F[0] = <<>> /\ F = [i \in 0..Len(s) |-> F[i]] /\ \A i \in 1..Len(s) : F[i] = Step(i, F[i - 1])
  <2> HIDE DEF F
  <2>1. \A i \in 0..Len(s) : F[i] = IF i = 0 THEN <<>> ELSE IF Contains(F[i - 1], s[i]) THEN F[i - 1] ELSE Append(F[i - 1], s[i])
    BY <1>5, Zenon
  <2>2. F = [i \in 0..Len(s) |-> F[i]]
    BY <1>5, <2>1, Zenon
  <2>3. \A i \in 1..Len(s) : i \in 0..Len(s) /\ i # 0
    BY <1>0
  <2>4. 0 \in 0..Len(s)
    BY <1>0
  <2> QED BY <2>1, <2>2, <2>3, <2>4, Zenon
<1> HIDE DEF F, Runs
<1>7. F \in [0..Len(s) -> Seq(E)]
  <2> HIDE DEF Step
  <2>1. \A i \in 1..Len(s) : F[i - 1] \in Seq(E) => F[i] \in Seq(E)
    BY <1>2, <1>6
  <2> QED BY <1>0, <1>6, <2>1, RunStays, Zenon
<1> QED BY <1>1, <1>6, <1>7 DEF DedupeRun

\* The sequences that MovedToFront goes through.
MovedRun(f, list, front) ==
  f[0] = list /\ \A i \in 1..Len(list) : f[i] = IF f[i - 1][Len(list) + 1 - i] \in front THEN <<f[i - 1][Len(list) + 1 - i]>> \o RemoveAt(f[i - 1], Len(list) + 1 - i) ELSE f[i - 1]

LEMMA MovedRuns ==
  ASSUME NEW E, NEW list \in Seq(E), NEW front
  PROVE  \E f \in [0..Len(list) -> {t \in Seq(E) : Len(t) = Len(list)}] :
           MovedToFront(list, front) = f[Len(list)] /\ MovedRun(f, list, front)
<1> DEFINE Step(i, x) == IF x[Len(list) + 1 - i] \in front THEN <<x[Len(list) + 1 - i]>> \o RemoveAt(x, Len(list) + 1 - i) ELSE x
           Runs(f) == f = [i \in 0..Len(list) |-> IF i = 0 THEN list ELSE IF f[i - 1][Len(list) + 1 - i] \in front THEN <<f[i - 1][Len(list) + 1 - i]>> \o RemoveAt(f[i - 1], Len(list) + 1 - i) ELSE f[i - 1]]
           F == CHOOSE f : Runs(f)
<1>0. Len(list) \in Nat /\ list \in {t \in Seq(E) : Len(t) = Len(list)}
  OBVIOUS
<1>1. MovedToFront(list, front) = F[Len(list)]
  BY DEF MovedToFront
<1>2. \A i \in 1..Len(list), x \in {t \in Seq(E) : Len(t) = Len(list)} : Step(i, x) \in {t \in Seq(E) : Len(t) = Len(list)}
  <2> TAKE i \in 1..Len(list), x \in {t \in Seq(E) : Len(t) = Len(list)}
  <2> DEFINE k == Len(list) + 1 - i
             a == SubSeq(x, 1, k - 1)
             b == SubSeq(x, k + 1, Len(x))
  <2>1. k \in 1..Len(x) /\ Len(x) = Len(list) /\ Len(x) \in Nat /\ x[k] \in E /\ x \in Seq(E)
    OBVIOUS
  <2>2. a \in Seq(E) /\ b \in Seq(E) /\ Len(a) = k - 1 /\ Len(b) = Len(x) - k
    BY <2>1
  <2>3. <<x[k]>> \in Seq(E) /\ Len(<<x[k]>>) = 1
    BY <2>1
  <2>4. RemoveAt(x, k) = a \o b
    BY DEF RemoveAt
  <2> HIDE DEF k, a, b
  <2>5. a \o b \in Seq(E) /\ Len(a \o b) = Len(x) - 1
    BY <2>1, <2>2, ConcatProperties
  <2>6. <<x[k]>> \o RemoveAt(x, k) \in Seq(E) /\ Len(<<x[k]>> \o RemoveAt(x, k)) = Len(list)
    BY <2>1, <2>3, <2>4, <2>5, ConcatProperties
  <2>7. Step(i, x) = IF x[k] \in front THEN <<x[k]>> \o RemoveAt(x, k) ELSE x
    BY DEF k
  <2> HIDE DEF Step
  <2> QED BY <2>6, <2>7
<1>3. PICK f \in [0..Len(list) -> {t \in Seq(E) : Len(t) = Len(list)}] : f[0] = list /\ \A i \in 1..Len(list) : f[i] = Step(i, f[i - 1])
  <2> DEFINE G == [p \in (1..Len(list)) \X {t \in Seq(E) : Len(t) = Len(list)} |-> Step(p[1], p[2])]
  <2> HIDE DEF Step
  <2>1. \A i \in 1..Len(list), x \in {t \in Seq(E) : Len(t) = Len(list)} : G[<<i, x>>] = Step(i, x)
    OBVIOUS
  <2> HIDE DEF G
  <2>2. \A i \in 1..Len(list), x \in {t \in Seq(E) : Len(t) = Len(list)} : G[<<i, x>>] \in {t \in Seq(E) : Len(t) = Len(list)}
    BY <1>2, <2>1
  <2>3. PICK f \in [0..Len(list) -> {t \in Seq(E) : Len(t) = Len(list)}] : RunOf(f, Len(list), list, G)
    BY <1>0, <2>2, Iterates
  <2>4. \A i \in 1..Len(list) : i - 1 \in 0..Len(list)
    BY <1>0
  <2>5. f[0] = list /\ \A i \in 1..Len(list) : f[i] = G[<<i, f[i - 1]>>]
    BY <2>3 DEF RunOf
  <2>6. \A i \in 1..Len(list) : f[i - 1] \in {t \in Seq(E) : Len(t) = Len(list)}
    BY <2>3, <2>4, Zenon
  <2>7. \A i \in 1..Len(list) : f[i] = Step(i, f[i - 1])
    <3> TAKE i \in 1..Len(list)
    <3>1. G[<<i, f[i - 1]>>] = Step(i, f[i - 1])
      BY <2>1, <2>6, Zenon
    <3> QED BY <2>5, <3>1, Zenon
  <2> QED BY <2>3, <2>5, <2>7, Zenon
<1>4. Runs(f)
  <2>1. \A i \in 0..Len(list) : f[i] = IF i = 0 THEN list ELSE IF f[i - 1][Len(list) + 1 - i] \in front THEN <<f[i - 1][Len(list) + 1 - i]>> \o RemoveAt(f[i - 1], Len(list) + 1 - i) ELSE f[i - 1]
    <3> HIDE DEF F
    <3> TAKE i \in 0..Len(list)
    <3>1. CASE i = 0
      BY <3>1, <1>3
    <3>2. CASE i # 0
      <4>1. i \in 1..Len(list)
        BY <1>0, <3>2
      <4> QED BY <4>1, <3>2, <1>3, Zenon
    <3> QED BY <3>1, <3>2
  <2> QED BY <2>1, <1>3, Zenon
<1>5. Runs(F)
  <2> HIDE DEF Runs
  <2> QED BY <1>4
<1>6. F[0] = list /\ F = [i \in 0..Len(list) |-> F[i]] /\ \A i \in 1..Len(list) : F[i] = Step(i, F[i - 1])
  <2> HIDE DEF F
  <2>1. \A i \in 0..Len(list) : F[i] = IF i = 0 THEN list ELSE IF F[i - 1][Len(list) + 1 - i] \in front THEN <<F[i - 1][Len(list) + 1 - i]>> \o RemoveAt(F[i - 1], Len(list) + 1 - i) ELSE F[i - 1]
    BY <1>5, Zenon
  <2>2. F = [i \in 0..Len(list) |-> F[i]]
    BY <1>5, <2>1, Zenon
  <2>3. \A i \in 1..Len(list) : i \in 0..Len(list) /\ i # 0
    BY <1>0
  <2>4. 0 \in 0..Len(list)
    BY <1>0
  <2> QED BY <2>1, <2>2, <2>3, <2>4, Zenon
<1> HIDE DEF F, Runs
<1>7. F \in [0..Len(list) -> {t \in Seq(E) : Len(t) = Len(list)}]
  <2> HIDE DEF Step
  <2>1. \A i \in 1..Len(list) : F[i - 1] \in {t \in Seq(E) : Len(t) = Len(list)} => F[i] \in {t \in Seq(E) : Len(t) = Len(list)}
    BY <1>2, <1>6
  <2> QED BY <1>0, <1>6, <2>1, RunStays, Zenon
<1> QED BY <1>1, <1>6, <1>7 DEF MovedRun

\* What DedupeByName keeps of a sequence: every name once, in the order of
\* their first places, so also the first that is in S.
LEMMA DedupeSound ==
  ASSUME NEW E, NEW s \in Seq(E)
  PROVE  /\ DedupeByName(s) \in Seq(E) /\ Len(DedupeByName(s)) <= Len(s)
         /\ Range(DedupeByName(s)) = Range(s) /\ IsInjective(DedupeByName(s))
         /\ \A S : \A i \in 1..Len(s) : IsFirst(s, S, i) =>
              \E k \in 1..Len(DedupeByName(s)) : IsFirst(DedupeByName(s), S, k) /\ DedupeByName(s)[k] = s[i]
<1>1. PICK f \in [0..Len(s) -> Seq(E)] :
        DedupeByName(s) = f[Len(s)] /\ DedupeRun(f, s)
  BY DedupeRuns
<1> DEFINE n == Len(s)
           Firsts(k) == \A S : \A i \in 1..k : IsFirst(s, S, i) =>
                          \E m \in 1..Len(f[k]) : IsFirst(f[k], S, m) /\ f[k][m] = s[i]
           Inv(k) == /\ f[k] \in Seq(E) /\ Len(f[k]) <= k
                     /\ \A x : x \in Range(f[k]) <=> \E j \in 1..k : x = s[j]
                     /\ IsInjective(f[k])
                     /\ Firsts(k)
           T == {k \in Nat : k <= n => Inv(k)}
<1>2. n \in Nat /\ DOMAIN s = 1..n /\ \A i \in 1..n : s[i] \in E
  BY ElementOfSeq
<1>3. 0 \in T
  BY <1>1 DEF Range, IsInjective, DedupeRun
<1>4. ASSUME NEW k \in Nat, k \in T PROVE k + 1 \in T
  <2> SUFFICES ASSUME k + 1 <= n PROVE Inv(k + 1)
    OBVIOUS
  <2> DEFINE t == f[k]
             e == s[k + 1]
  <2>1. k + 1 \in 1..n /\ Inv(k) /\ (k + 1) - 1 = k /\ e \in E
    BY <1>2, <1>4
  <2>2. f[k + 1] = IF Contains(t, e) THEN t ELSE Append(t, e)
    BY <1>1, <2>1 DEF DedupeRun
  <2>3. \A j \in 1..(k + 1) : j \in 1..k \/ j = k + 1
    OBVIOUS
  <2>4. \A j \in 1..k : j \in 1..(k + 1) /\ j \in 1..n
    BY <2>1, <1>2
  <2>5. k + 1 \in 1..(k + 1)
    OBVIOUS
  <2>6. /\ t \in Seq(E) /\ Len(t) <= k /\ Len(t) \in Nat
        /\ \A x : x \in Range(t) <=> \E j \in 1..k : x = s[j]
        /\ IsInjective(t)
        /\ \A S : \A i \in 1..k : IsFirst(s, S, i) =>
             \E m \in 1..Len(t) : IsFirst(t, S, m) /\ t[m] = s[i]
    BY <2>1
  <2>7. Contains(t, e) <=> e \in Range(t)
    <3>1. DOMAIN t = 1..Len(t)
      BY <2>6
    <3>2. Range(t) = {t[i] : i \in 1..Len(t)}
      BY <3>1 DEF Range
    <3> HIDE DEF t, e
    <3> QED BY <3>2 DEF Contains
  <2>8. ASSUME NEW S, IsFirst(s, S, k + 1) PROVE e \in S /\ e \notin Range(t) /\ \A j \in 1..Len(t) : t[j] \notin S
    <3>1. e \in S /\ \A j \in 1..k : s[j] \notin S
      BY <2>1, <2>8 DEF IsFirst
    <3>2. \A x \in Range(t) : x \notin S
      BY <2>6, <3>1
    <3>3. \A j \in 1..Len(t) : t[j] \in Range(t)
      BY <2>6 DEF Range
    <3> QED BY <3>1, <3>2, <3>3
  <2> HIDE DEF t, Inv, n, Firsts
  <2>9. CASE e \in Range(t)
    <3>1. f[k + 1] = t
      BY <2>2, <2>7, <2>9
    <3>2. \A x : (\E j \in 1..k : x = s[j]) <=> \E j \in 1..(k + 1) : x = s[j]
      BY <2>3, <2>4, <2>6, <2>9
    <3>3. Firsts(k + 1)
      BY <2>3, <2>6, <2>8, <2>9, <3>1 DEF Firsts
    <3>4. \A x : x \in Range(t) <=> \E j \in 1..(k + 1) : x = s[j]
      BY <2>6, <3>2, Zenon
    <3>5. Len(t) <= k + 1
      BY <2>6
    <3> HIDE DEF e
    <3> QED BY <2>6, <3>1, <3>3, <3>4, <3>5, Zenon DEF Inv
  <2>10. CASE e \notin Range(t)
    <3> DEFINE u == Append(t, e)
    <3>1. /\ u \in Seq(E) /\ Len(u) = Len(t) + 1
          /\ \A j \in 1..Len(t) : u[j] = t[j]
          /\ u[Len(t) + 1] = e
          /\ Range(u) = Range(t) \cup {e}
          /\ IsInjective(t) /\ e \notin Range(t) => IsInjective(u)
      BY <2>1, <2>6, AppendIs
    <3> HIDE DEF u
    <3>2. \A x : x \in Range(u) <=> \E j \in 1..(k + 1) : x = s[j]
      BY <2>3, <2>4, <2>5, <2>6, <3>1
    <3>3. f[k + 1] = u /\ Len(u) <= k + 1
      BY <2>2, <2>6, <2>7, <2>10, <3>1 DEF u
    <3>4. ASSUME NEW S, NEW i \in 1..(k + 1), IsFirst(s, S, i)
          PROVE  \E m \in 1..Len(u) : IsFirst(u, S, m) /\ u[m] = s[i]
      <4>1. CASE i \in 1..k
        <5>1. PICK m \in 1..Len(t) : IsFirst(t, S, m) /\ t[m] = s[i]
          BY <2>6, <3>4, <4>1
        <5>2. m \in 1..Len(u) /\ \A j \in 1..m : j \in 1..Len(t)
          BY <2>6, <3>1, <5>1
        <5>3. IsFirst(u, S, m)
          <6>1. m \in Nat /\ t[m] \in S /\ \A j \in 1..(m - 1) : t[j] \notin S
            BY <2>6, <5>1 DEF IsFirst
          <6>2. u[m] \in S
            BY <3>1, <5>1, <6>1
          <6>3. \A j \in 1..(m - 1) : j \in 1..Len(t)
            BY <5>2, <6>1
          <6>4. \A j \in 1..(m - 1) : u[j] \notin S
            BY <3>1, <6>1, <6>3
          <6> QED BY <5>2, <6>2, <6>4 DEF IsFirst
        <5> QED BY <3>1, <5>1, <5>2, <5>3
      <4>2. CASE i = k + 1
        <5>1. e \in S /\ \A j \in 1..Len(t) : t[j] \notin S
          BY <2>8, <3>4, <4>2
        <5>2. Len(t) + 1 \in 1..Len(u) /\ (Len(t) + 1) - 1 = Len(t)
          BY <2>6, <3>1
        <5>3. IsFirst(u, S, Len(t) + 1)
          BY <3>1, <5>1, <5>2 DEF IsFirst
        <5> QED BY <3>1, <4>2, <5>2, <5>3
      <4> QED BY <2>3, <4>1, <4>2
    <3>5. Firsts(k + 1)
      BY <3>3, <3>4 DEF Firsts
    <3> HIDE DEF e
    <3> QED BY <2>6, <2>10, <3>1, <3>2, <3>3, <3>5 DEF Inv
  <2> QED BY <2>9, <2>10
<1>5. Inv(n)
  <2>1. \A k \in Nat : k \in T
    <3> HIDE DEF T
    <3> QED BY <1>3, <1>4, Induction
  <2>2. n \in T
    BY <1>2, <2>1
  <2> HIDE DEF Inv
  <2> QED BY <1>2, <2>2
<1>6. Range(f[n]) = Range(s)
  <2>1. \A x : x \in Range(f[n]) <=> \E j \in 1..n : x = s[j]
    BY <1>5
  <2>2. \A x : x \in Range(s) <=> \E j \in 1..n : x = s[j]
    BY <1>2 DEF Range
  <2> HIDE DEF n, Inv
  <2> QED BY <2>1, <2>2
<1> QED BY <1>1, <1>5, <1>6

\* The first of the elements kept that is in T is the first that is in both.
LEMMA OnlyFirst ==
  ASSUME NEW E, NEW s \in Seq(E), NEW S, NEW T, NEW i, IsFirst(s, S \cap T, i)
  PROVE  \E m \in 1..Len(Only(s, S)) : IsFirst(Only(s, S), T, m) /\ Only(s, S)[m] = s[i]
<1>1. PICK f \in [0..Len(s) -> Seq(E)] :
        Only(s, S) = f[Len(s)] /\ OnlyRun(f, s, S)
  BY OnlyRuns
<1> DEFINE n == Len(s)
           Inv(k) == /\ f[k] \in Seq(E)
                     /\ k < i => \A j \in 1..Len(f[k]) : f[k][j] \notin T
                     /\ i <= k => \E m \in 1..Len(f[k]) : IsFirst(f[k], T, m) /\ f[k][m] = s[i]
           K == {k \in Nat : k <= n => Inv(k)}
<1>2. /\ n \in Nat /\ i \in 1..n /\ i \in Nat /\ s[i] \in S /\ s[i] \in T
      /\ \A j \in 1..n : s[j] \in E
      /\ \A j \in 1..(i - 1) : s[j] \notin S \cap T
  BY ElementOfSeq DEF IsFirst
<1>3. 0 \in K
  <2>1. f[0] = <<>>
    BY <1>1 DEF OnlyRun
  <2> QED BY <1>2, <2>1
<1>4. ASSUME NEW k \in Nat, k \in K PROVE k + 1 \in K
  <2> SUFFICES ASSUME k + 1 <= n PROVE Inv(k + 1)
    OBVIOUS
  <2> DEFINE t == f[k]
             e == s[k + 1]
  <2>1. k + 1 \in 1..n /\ Inv(k) /\ (k + 1) - 1 = k /\ e \in E
    BY <1>2, <1>4
  <2>2. f[k + 1] = IF e \in S THEN Append(t, e) ELSE t
    BY <1>1, <2>1 DEF OnlyRun
  <2>3. /\ t \in Seq(E) /\ Len(t) \in Nat
        /\ k < i => \A j \in 1..Len(t) : t[j] \notin T
        /\ i <= k => \E m \in 1..Len(t) : IsFirst(t, T, m) /\ t[m] = s[i]
    BY <2>1
  <2>4. i <= k \/ k + 1 = i \/ (k + 1 < i /\ k < i /\ k + 1 \in 1..(i - 1))
    BY <1>2
  <2>5. k + 1 = i => k < i /\ ~(k + 1 < i)
    BY <1>2
  <2>6. i <= k => i <= k + 1 /\ ~(k + 1 < i)
    BY <1>2
  <2>7. k + 1 < i => ~(i <= k + 1)
    BY <1>2
  <2> HIDE DEF t, Inv, n
  <2>8. CASE e \notin S
    <3>1. f[k + 1] = t /\ k + 1 # i
      BY <1>2, <2>2, <2>8
    <3> QED BY <2>3, <2>4, <2>6, <2>7, <3>1 DEF Inv
  <2>9. CASE e \in S
    <3> DEFINE u == Append(t, e)
    <3>1. /\ u \in Seq(E) /\ Len(u) = Len(t) + 1
          /\ \A j \in 1..Len(t) : u[j] = t[j]
          /\ u[Len(t) + 1] = e
      BY <2>1, <2>3, AppendIs
    <3>2. f[k + 1] = u
      BY <2>2, <2>9
    <3> HIDE DEF u
    <3>3. \A j \in 1..Len(u) : j \in 1..Len(t) \/ j = Len(t) + 1
      BY <2>3, <3>1
    <3>4. CASE i <= k
      <4>1. PICK m \in 1..Len(t) : IsFirst(t, T, m) /\ t[m] = s[i]
        BY <2>3, <3>4
      <4>2. m \in 1..Len(u) /\ u[m] = s[i] /\ \A j \in 1..(m - 1) : j \in 1..Len(t)
        BY <2>3, <3>1, <4>1
      <4>3. u[m] \in T /\ \A j \in 1..(m - 1) : u[j] \notin T
        BY <3>1, <4>1, <4>2 DEF IsFirst
      <4>4. IsFirst(u, T, m)
        BY <4>2, <4>3 DEF IsFirst
      <4> QED BY <2>6, <3>1, <3>2, <3>4, <4>2, <4>4 DEF Inv
    <3>5. CASE k + 1 = i
      <4>1. \A j \in 1..Len(t) : u[j] \notin T
        BY <2>3, <2>5, <3>1, <3>5
      <4>2. Len(t) + 1 \in 1..Len(u) /\ (Len(t) + 1) - 1 = Len(t) /\ u[Len(t) + 1] = s[i]
        BY <2>3, <3>1, <3>5
      <4>3. IsFirst(u, T, Len(t) + 1)
        BY <1>2, <4>1, <4>2 DEF IsFirst
      <4> QED BY <2>5, <3>1, <3>2, <3>5, <4>2, <4>3 DEF Inv
    <3>6. CASE k + 1 < i /\ k < i /\ k + 1 \in 1..(i - 1)
      <4>1. e \notin T
        BY <1>2, <2>9, <3>6
      <4>2. \A j \in 1..Len(u) : u[j] \notin T
        BY <2>3, <3>1, <3>3, <3>6, <4>1
      <4> QED BY <2>7, <3>1, <3>2, <3>6, <4>2 DEF Inv
    <3> QED BY <2>4, <3>4, <3>5, <3>6
  <2> QED BY <2>8, <2>9
<1>5. Inv(n)
  <2>1. \A k \in Nat : k \in K
    <3> HIDE DEF K
    <3> QED BY <1>3, <1>4, Induction
  <2>2. n \in K
    BY <1>2, <2>1
  <2> HIDE DEF Inv
  <2> QED BY <1>2, <2>2
<1>6. i <= n
  BY <1>2
<1> QED BY <1>1, <1>5, <1>6

\* Distinct names are all kept.
LEMMA DedupeSame ==
  ASSUME NEW E, NEW s \in Seq(E), IsInjective(s)
  PROVE  DedupeByName(s) = s
<1>1. PICK f \in [0..Len(s) -> Seq(E)] :
        DedupeByName(s) = f[Len(s)] /\ DedupeRun(f, s)
  BY DedupeRuns
<1> DEFINE n == Len(s)
           Inv(k) == f[k] \in Seq(E) /\ Len(f[k]) = k /\ \A j \in 1..k : f[k][j] = s[j]
           T == {k \in Nat : k <= n => Inv(k)}
<1>2. n \in Nat /\ DOMAIN s = 1..n /\ \A i \in 1..n : s[i] \in E
  BY ElementOfSeq
<1>3. 0 \in T
  BY <1>1 DEF DedupeRun
<1>4. ASSUME NEW k \in Nat, k \in T PROVE k + 1 \in T
  <2> SUFFICES ASSUME k + 1 <= n PROVE Inv(k + 1)
    OBVIOUS
  <2> DEFINE t == f[k]
             e == s[k + 1]
             u == Append(t, e)
  <2>1. k + 1 \in 1..n /\ Inv(k) /\ (k + 1) - 1 = k /\ e \in E
    BY <1>2, <1>4
  <2>2. t \in Seq(E) /\ Len(t) = k /\ \A j \in 1..k : t[j] = s[j] /\ j \in 1..n /\ j # k + 1
    BY <1>2, <2>1
  <2>3. f[k + 1] = IF Contains(t, e) THEN t ELSE u
    BY <1>1, <2>1 DEF DedupeRun
  <2>4. ~Contains(t, e)
    <3>1. \A j \in 1..k : s[j] # e
      BY <1>2, <2>1, <2>2 DEF IsInjective
    <3> QED BY <2>2, <3>1 DEF Contains
  <2>5. /\ u \in Seq(E) /\ Len(u) = Len(t) + 1
        /\ \A j \in 1..Len(t) : u[j] = t[j]
        /\ u[Len(t) + 1] = e
    BY <2>1, <2>2, AppendIs
  <2> HIDE DEF t, u
  <2>6. \A j \in 1..(k + 1) : j \in 1..k \/ j = k + 1
    OBVIOUS
  <2> QED BY <2>2, <2>3, <2>4, <2>5, <2>6
<1>5. Inv(n)
  <2>1. \A k \in Nat : k \in T
    <3> HIDE DEF T
    <3> QED BY <1>3, <1>4, Induction
  <2>2. n \in T
    BY <1>2, <2>1
  <2> HIDE DEF Inv
  <2> QED BY <1>2, <2>2
<1>6. f[n] = s
  <2> HIDE DEF n
  <2>1. f[n] \in Seq(E) /\ Len(f[n]) = Len(s) /\ \A j \in 1..Len(s) : f[n][j] = s[j]
    BY <1>5 DEF n
  <2> QED BY <2>1, SeqEqual
<1> QED BY <1>1, <1>6

\* An element of a sequence is moved to its front.
LEMMA ToFront ==
  ASSUME NEW E, NEW x \in Seq(E), NEW k \in 1..Len(x)
  PROVE  LET y == <<x[k]>> \o RemoveAt(x, k) IN
         y \in Seq(E) /\ Len(y) = Len(x) /\ Range(y) = Range(x) /\ y[1] = x[k]
<1> DEFINE a == SubSeq(x, 1, k - 1)
           b == SubSeq(x, k + 1, Len(x))
           c == <<x[k]>>
<1>1. /\ x[k] \in E /\ Len(x) \in Nat /\ k \in Nat \ {0} /\ k <= Len(x) /\ k - 1 \in Nat
      /\ k - 1 <= Len(x) /\ k + 1 \in Nat \ {0} /\ DOMAIN x = 1..Len(x)
  BY ElementOfSeq
<1>2. /\ a \in Seq(E) /\ Len(a) = (IF 1 <= k - 1 THEN (k - 1) - 1 + 1 ELSE 0)
      /\ \A e : e \in Range(a) <=> \E i \in 1..(k - 1) : e = x[i]
  <2> DEFINE p == k - 1
  <2>1. 1 \in Nat \ {0} /\ p \in Nat /\ p <= Len(x)
    BY <1>1
  <2> HIDE DEF p
  <2>2. /\ SubSeq(x, 1, p) \in Seq(E) /\ Len(SubSeq(x, 1, p)) = (IF 1 <= p THEN p - 1 + 1 ELSE 0)
        /\ \A e : e \in Range(SubSeq(x, 1, p)) <=> \E i \in 1..p : e = x[i]
    BY <2>1, PartIs, SMTT(30)
  <2> QED BY <2>2 DEF p
<1>3. /\ b \in Seq(E) /\ Len(b) = (IF k + 1 <= Len(x) THEN Len(x) - (k + 1) + 1 ELSE 0)
      /\ \A e : e \in Range(b) <=> \E i \in (k + 1)..Len(x) : e = x[i]
  <2> DEFINE p == k + 1
             n == Len(x)
  <2>1. p \in Nat \ {0} /\ n \in Nat /\ n <= Len(x)
    BY <1>1
  <2> HIDE DEF p, n
  <2>2. /\ SubSeq(x, p, n) \in Seq(E) /\ Len(SubSeq(x, p, n)) = (IF p <= n THEN n - p + 1 ELSE 0)
        /\ \A e : e \in Range(SubSeq(x, p, n)) <=> \E i \in p..n : e = x[i]
    BY <2>1, PartIs
  <2> QED BY <2>2 DEF p, n
<1>4. c \in Seq(E) /\ Len(c) = 1 /\ c[1] = x[k] /\ Range(c) = {x[k]}
  BY <1>1 DEF Range
<1>5. RemoveAt(x, k) = a \o b
  BY DEF RemoveAt
<1> HIDE DEF a, b, c
<1>6. a \o b \in Seq(E) /\ Len(a \o b) = Len(x) - 1 /\ Range(a \o b) = Range(a) \cup Range(b)
  <2>1. Len(a) = IF 1 <= k - 1 THEN (k - 1) - 1 + 1 ELSE 0
    BY <1>2, Zenon
  <2>2. Len(b) = IF k + 1 <= Len(x) THEN Len(x) - (k + 1) + 1 ELSE 0
    BY <1>3, Zenon
  <2>3. Len(a) + Len(b) = Len(x) - 1
    <3> DEFINE la == Len(a)
               lb == Len(b)
               lx == Len(x)
    <3>1. k \in 1..lx /\ lx \in Nat
      BY <1>1
    <3>2. la = (IF 1 <= k - 1 THEN (k - 1) - 1 + 1 ELSE 0) /\ lb = IF k + 1 <= lx THEN lx - (k + 1) + 1 ELSE 0
      BY <2>1, <2>2
    <3> HIDE DEF la, lb, lx
    <3>3. la + lb = lx - 1
      BY <3>1, <3>2
    <3> QED BY <3>3 DEF la, lb, lx
  <2>4. a \o b \in Seq(E) /\ Len(a \o b) = Len(a) + Len(b) /\ Range(a \o b) = Range(a) \cup Range(b)
    <3>1. a \in Seq(E) /\ b \in Seq(E)
      BY <1>2, <1>3, Zenon
    <3> QED BY <3>1, ConcatIs
  <2> QED BY <2>3, <2>4
<1> DEFINE r == a \o b
           y == c \o r
<1> HIDE DEF r
<1>7. y \in Seq(E) /\ Len(y) = Len(c) + Len(r) /\ Range(y) = Range(c) \cup Range(r) /\ y[1] = c[1]
  <2>1. r \in Seq(E)
    BY <1>6 DEF r
  <2>2. 1 \in 1..Len(c)
    BY <1>4
  <2>3. c \o r \in Seq(E) /\ Len(c \o r) = Len(c) + Len(r) /\ Range(c \o r) = Range(c) \cup Range(r)
        /\ \A i \in 1..Len(c) : (c \o r)[i] = c[i]
    <3>1. c \in Seq(E)
      BY <1>4, Zenon
    <3> QED BY <2>1, <3>1, ConcatIs
  <2> QED BY <2>2, <2>3, Zenon
<1>8. Range(y) = Range(x)
  <2>1. \A e : e \in Range(y) <=> e = x[k] \/ (\E i \in 1..(k - 1) : e = x[i]) \/ (\E i \in (k + 1)..Len(x) : e = x[i])
    BY <1>2, <1>3, <1>4, <1>6, <1>7 DEF r
  <2>2. \A e : e \in Range(x) <=> \E i \in 1..Len(x) : e = x[i]
    BY <1>1 DEF Range
  <2>3. \A i \in 1..Len(x) : i = k \/ i \in 1..(k - 1) \/ i \in (k + 1)..Len(x)
    BY <1>1
  <2>4. \A i : i \in 1..(k - 1) \/ i \in (k + 1)..Len(x) => i \in 1..Len(x)
    BY <1>1
  <2> HIDE DEF y
  <2> QED BY <2>1, <2>2, <2>3, <2>4
<1>9. y = <<x[k]>> \o RemoveAt(x, k)
  BY <1>5 DEF r, c
<1>10. Len(y) = Len(x)
  BY <1>1, <1>4, <1>6, <1>7 DEF r
<1> HIDE DEF y
<1> QED BY <1>4, <1>7, <1>8, <1>9, <1>10

\* The move loses and adds nothing, and if anything is promoted, something
\* promoted comes first.
LEMMA MovedSound ==
  ASSUME NEW E, NEW list \in Seq(E), NEW front
  PROVE  LET moved == MovedToFront(list, front) IN
         /\ moved \in Seq(E) /\ Len(moved) = Len(list) /\ Range(moved) = Range(list)
         /\ front \cap Range(list) # {} => IsFirst(moved, front, 1)
<1>1. PICK f \in [0..Len(list) -> {t \in Seq(E) : Len(t) = Len(list)}] :
        MovedToFront(list, front) = f[Len(list)] /\ MovedRun(f, list, front)
  BY MovedRuns
<1> DEFINE n == Len(list)
           Inv(k) == /\ f[k] \in Seq(E) /\ Len(f[k]) = n /\ Range(f[k]) = Range(list)
                     /\ (n > 0 /\ f[k][1] \in front) \/ (f[k] = list /\ \A j \in (n + 1 - k)..n : list[j] \notin front)
           T == {k \in Nat : k <= n => Inv(k)}
<1>2. n \in Nat /\ DOMAIN list = 1..n
  OBVIOUS
<1>3. 0 \in T
  BY <1>1, <1>2 DEF MovedRun
<1>4. ASSUME NEW k \in Nat, k \in T PROVE k + 1 \in T
  <2> SUFFICES ASSUME k + 1 <= n PROVE Inv(k + 1)
    OBVIOUS
  <2> DEFINE t == f[k]
             p == n + 1 - (k + 1)
  <2>1. k + 1 \in 1..n /\ Inv(k) /\ (k + 1) - 1 = k /\ p \in 1..n /\ n > 0
    BY <1>2, <1>4
  <2>2. f[k + 1] = IF t[p] \in front THEN <<t[p]>> \o RemoveAt(t, p) ELSE t
    BY <1>1, <2>1 DEF MovedRun
  <2>3. /\ t \in Seq(E) /\ Len(t) = n /\ Range(t) = Range(list)
        /\ t[1] \in front \/ (t = list /\ \A j \in (n + 1 - k)..n : list[j] \notin front)
    BY <2>1
  <2> HIDE DEF t, n, Inv
  <2>4. \A j \in (n + 1 - (k + 1))..n : j = p \/ j \in (n + 1 - k)..n
    BY <1>2, <2>1
  <2> HIDE DEF p
  <2>5. CASE t[p] \in front
    <3> DEFINE y == <<t[p]>> \o RemoveAt(t, p)
    <3>1. y \in Seq(E) /\ Len(y) = Len(t) /\ Range(y) = Range(t) /\ y[1] = t[p]
      BY <2>1, <2>3, ToFront
    <3>2. f[k + 1] = y
      BY <2>2, <2>5
    <3> HIDE DEF y
    <3> QED BY <2>1, <2>3, <2>5, <3>1, <3>2 DEF Inv
  <2>6. CASE t[p] \notin front
    <3>1. f[k + 1] = t
      BY <2>2, <2>6
    <3>2. t = list /\ (\A j \in (n + 1 - k)..n : list[j] \notin front)
            => \A j \in (n + 1 - (k + 1))..n : list[j] \notin front
      BY <2>4, <2>6
    <3> QED BY <2>1, <2>3, <3>1, <3>2 DEF Inv
  <2> QED BY <2>5, <2>6
<1>5. Inv(n)
  <2>1. \A k \in Nat : k \in T
    <3> HIDE DEF T
    <3> QED BY <1>3, <1>4, Induction
  <2>2. n \in T
    BY <1>2, <2>1
  <2> HIDE DEF Inv
  <2> QED BY <1>2, <2>2
<1>6. ASSUME front \cap Range(list) # {} PROVE n > 0 /\ f[n][1] \in front
  <2>1. PICK j \in 1..n : list[j] \in front
    BY <1>2, <1>6 DEF Range
  <2>2. j \in (n + 1 - n)..n
    BY <1>2
  <2> QED BY <1>5, <2>1, <2>2
<1>7. n > 0 /\ f[n][1] \in front => IsFirst(f[n], front, 1)
  BY <1>2, <1>5 DEF IsFirst
<1> QED BY <1>1, <1>5, <1>6, <1>7

\* What the move does to each place: those before k shift by one.
LEMMA ToFrontAt ==
  ASSUME NEW E, NEW x \in Seq(E), NEW k \in 1..Len(x)
  PROVE  LET y == <<x[k]>> \o RemoveAt(x, k) IN
         /\ y \in Seq(E) /\ Len(y) = Len(x) /\ y[1] = x[k]
         /\ \A j \in 2..k : y[j] = x[j - 1]
         /\ \A j \in (k + 1)..Len(x) : y[j] = x[j]
         /\ IsInjective(x) => IsInjective(y)
<1> DEFINE n == Len(x)
           a == SubSeq(x, 1, k - 1)
           b == SubSeq(x, k + 1, n)
           r == a \o b
           c == <<x[k]>>
           y == c \o r
<1>1. n \in Nat /\ k \in 1..n /\ DOMAIN x = 1..n /\ x[k] \in E
  BY ElementOfSeq
<1>2. a \in Seq(E) /\ Len(a) = k - 1 /\ \A j \in 1..(k - 1) : a[j] = x[j]
  OBVIOUS
<1>3. b \in Seq(E) /\ Len(b) = n - k /\ \A j \in 1..(n - k) : b[j] = x[k + j]
  <2> DEFINE p == k + 1
  <2>1. p \in Nat \ {0} /\ n \in Nat /\ n <= Len(x)
    BY <1>1
  <2> HIDE DEF p
  <2>2. /\ SubSeq(x, p, n) \in Seq(E) /\ Len(SubSeq(x, p, n)) = (IF p <= n THEN n - p + 1 ELSE 0)
        /\ \A i \in 1..Len(SubSeq(x, p, n)) : SubSeq(x, p, n)[i] = x[p + i - 1]
    BY <2>1, PartIs
  <2>3. /\ b \in Seq(E) /\ Len(b) = (IF k + 1 <= n THEN n - (k + 1) + 1 ELSE 0)
        /\ \A i \in 1..Len(b) : b[i] = x[(k + 1) + i - 1]
    BY <2>2 DEF p
  <2> HIDE DEF b, n
  <2>4. Len(b) = n - k
    BY <1>1, <2>3
  <2>5. \A j \in 1..(n - k) : (k + 1) + j - 1 = k + j
    BY <1>1
  <2> QED BY <2>3, <2>4, <2>5
<1>4. c \in Seq(E) /\ Len(c) = 1 /\ c[1] = x[k]
  BY <1>1
<1>5. RemoveAt(x, k) = r
  BY DEF RemoveAt
<1> HIDE DEF a, b, c, n
<1>6. /\ r \in Seq(E) /\ Len(r) = Len(a) + Len(b)
      /\ \A i \in 1..Len(a) : r[i] = a[i]
      /\ \A i \in 1..Len(b) : r[Len(a) + i] = b[i]
  <2>1. a \in Seq(E) /\ b \in Seq(E)
    BY <1>2, <1>3, Zenon
  <2> QED BY <2>1, ConcatIs
<1> HIDE DEF r
<1>7. /\ y \in Seq(E) /\ Len(y) = Len(c) + Len(r)
      /\ \A i \in 1..Len(c) : y[i] = c[i]
      /\ \A i \in 1..Len(r) : y[Len(c) + i] = r[i]
  <2>1. c \in Seq(E) /\ r \in Seq(E)
    BY <1>4, <1>6, Zenon
  <2> QED BY <2>1, ConcatIs
<1> HIDE DEF y
<1>8. Len(y) = n /\ y[1] = x[k]
  BY <1>1, <1>2, <1>3, <1>4, <1>6, <1>7
<1>9. ASSUME NEW j \in 2..k PROVE y[j] = x[j - 1]
  <2>1. j - 1 \in 1..Len(r) /\ j - 1 \in 1..Len(a) /\ 1 + (j - 1) = j /\ j - 1 \in 1..(k - 1)
    BY <1>1, <1>2, <1>3, <1>6
  <2>2. y[j] = r[j - 1]
    <3>1. y[1 + (j - 1)] = r[j - 1]
      BY <1>4, <1>7, <2>1
    <3> QED BY <2>1, <3>1
  <2>3. r[j - 1] = a[j - 1] /\ a[j - 1] = x[j - 1]
    BY <1>2, <1>6, <2>1
  <2> QED BY <2>2, <2>3
<1>10. ASSUME NEW j \in (k + 1)..n PROVE y[j] = x[j]
  <2>1. j - 1 \in 1..Len(r) /\ 1 + (j - 1) = j /\ j - k \in 1..Len(b) /\ Len(a) + (j - k) = j - 1
        /\ j - k \in 1..(n - k) /\ k + (j - k) = j
    BY <1>1, <1>2, <1>3, <1>6
  <2>2. y[j] = r[j - 1]
    BY <1>4, <1>7, <2>1
  <2>3. r[j - 1] = b[j - k]
    BY <1>6, <2>1
  <2> QED BY <1>3, <2>1, <2>2, <2>3
<1>11. ASSUME IsInjective(x) PROVE IsInjective(y)
  <2> DEFINE old(j) == IF j = 1 THEN k ELSE IF j <= k THEN j - 1 ELSE j
  <2>1. \A j \in 1..n : old(j) \in 1..n
    BY <1>1
  <2>2. \A i, j \in 1..n : old(i) = old(j) => i = j
    BY <1>1
  <2>3. \A j \in 1..n : y[j] = x[old(j)]
    <3> TAKE j \in 1..n
    <3>1. CASE j = 1
      BY <1>8, <3>1
    <3>2. CASE j # 1 /\ j <= k
      <4>1. j \in 2..k
        BY <1>1, <3>2
      <4> QED BY <1>9, <3>2, <4>1
    <3>3. CASE j # 1 /\ ~(j <= k)
      <4>1. j \in (k + 1)..n
        BY <1>1, <3>3
      <4> QED BY <1>10, <3>3, <4>1
    <3> QED BY <3>1, <3>2, <3>3
  <2>4. DOMAIN y = 1..n
    BY <1>7, <1>8
  <2> HIDE DEF old
  <2>5. ASSUME NEW i \in 1..n, NEW j \in 1..n, y[i] = y[j] PROVE i = j
    BY <1>1, <1>11, <2>1, <2>2, <2>3, <2>5 DEF IsInjective
  <2> QED BY <2>4, <2>5 DEF IsInjective
<1> QED BY <1>5, <1>7, <1>8, <1>9, <1>10, <1>11 DEF n, y, c

\* What the loop leaves is the same tools, and begins with promoted ones: among
\* them those that are not followed by a promoted tool.  The t tools that have
\* been moved stand in front of the ones the loop has still to reach, which have
\* shifted by t.
LEMMA MovedFirst ==
  ASSUME NEW E, NEW list \in Seq(E), IsInjective(list), NEW front
  PROVE  LET moved == MovedToFront(list, front) IN
         /\ IsInjective(moved)
         /\ \E t \in 0..Len(list) :
              /\ \A j \in 1..t : moved[j] \in front
              /\ \A i \in 1..Len(list) : list[i] \in front /\ (i = Len(list) \/ list[i + 1] \notin front)
                   => \E j \in 1..t : moved[j] = list[i]
<1>1. PICK f \in [0..Len(list) -> {s \in Seq(E) : Len(s) = Len(list)}] :
        MovedToFront(list, front) = f[Len(list)] /\ MovedRun(f, list, front)
  BY MovedRuns
<1> DEFINE n == Len(list)
           reached(i) == list[i] \in front /\ (i = n \/ list[i + 1] \notin front)
           Ahead(x, k, t) ==
             /\ \A j \in 1..t : x[j] \in front
             /\ \A j \in 1..(n - k - t) : x[t + j] = list[j]
             /\ \A i \in 1..n : i > n - k - t /\ reached(i) => \E j \in 1..t : x[j] = list[i]
           Inv(k) == IsInjective(f[k]) /\ \E t \in 0..k : Ahead(f[k], k, t)
           T == {k \in Nat : k <= n => Inv(k)}
<1>2. n \in Nat /\ DOMAIN list = 1..n
  OBVIOUS
<1>3. 0 \in T
  <2>1. f[0] = list
    BY <1>1 DEF MovedRun
  <2>2. n - 0 - 0 = n /\ 0 \in 0..0 /\ \A j \in 1..n : 0 + j = j /\ ~(j > n)
    BY <1>2
  <2> HIDE DEF n, reached
  <2>3. Ahead(list, 0, 0)
    BY <2>2
  <2> HIDE DEF Ahead
  <2> QED BY <2>1, <2>2, <2>3
<1>4. ASSUME NEW k \in Nat, k \in T PROVE k + 1 \in T
  <2> SUFFICES ASSUME k + 1 <= n PROVE Inv(k + 1)
    OBVIOUS
  <2> DEFINE x == f[k]
             p == n + 1 - (k + 1)
             y == <<x[p]>> \o RemoveAt(x, p)
  <2>1. k + 1 \in 1..n /\ Inv(k) /\ (k + 1) - 1 = k /\ p \in 1..n /\ p = n - k
    <3>1. k + 1 \in 1..n /\ k <= n /\ (k + 1) - 1 = k /\ p \in 1..n /\ p = n - k
      <4>1. n \in Nat
        BY <1>2
      <4> HIDE DEF n, T
      <4> QED BY <4>1
    <3> HIDE DEF Inv
    <3>2. Inv(k)
      BY <1>4, <3>1
    <3> QED BY <3>1, <3>2, Zenon
  <2>2. f[k + 1] = IF x[p] \in front THEN y ELSE x
    BY <1>1, <2>1 DEF MovedRun
  <2>3. x \in Seq(E) /\ Len(x) = n /\ IsInjective(x)
    BY <1>1, <2>1
  <2>4. PICK t \in 0..k : Ahead(x, k, t)
    BY <2>1
  <2> HIDE DEF x
  <2>5. /\ y \in Seq(E) /\ Len(y) = Len(x) /\ y[1] = x[p]
        /\ \A j \in 2..p : y[j] = x[j - 1]
        /\ \A j \in (p + 1)..Len(x) : y[j] = x[j]
        /\ IsInjective(x) => IsInjective(y)
    <3>1. p \in 1..Len(x)
      BY <2>1, <2>3
    <3> HIDE DEF p
    <3> QED BY <2>3, <3>1, ToFrontAt
  <2> HIDE DEF y, n, reached
  <2>6. /\ \A j \in 1..t : x[j] \in front
        /\ \A j \in 1..(n - k - t) : x[t + j] = list[j]
        /\ \A i \in 1..n : i > n - k - t /\ reached(i) => \E j \in 1..t : x[j] = list[i]
    BY <2>4
  <2>7. p \in Nat /\ p = n - k /\ t \in Nat /\ k \in Nat /\ n \in Nat /\ p >= 1
    BY <1>2, <2>1
  <2> HIDE DEF p
  <2>8. CASE x[p] \notin front
    <3>1. p > t
      BY <2>6, <2>7, <2>8
    <3>2. x[p] = list[p - t]
      <4>1. p - t \in 1..(n - k - t) /\ t + (p - t) = p
        BY <2>7, <3>1
      <4> QED BY <2>6, <4>1
    <3>3. ~reached(p - t)
      BY <2>8, <3>2 DEF reached
    <3>4. \A j \in 1..(n - (k + 1) - t) : j \in 1..(n - k - t)
      BY <2>7
    <3>5. \A i \in 1..n : i > n - (k + 1) - t => i = p - t \/ i > n - k - t
      BY <2>7
    <3>6. Ahead(x, k + 1, t)
      BY <2>6, <3>3, <3>4, <3>5
    <3>7. t \in 0..(k + 1) /\ f[k + 1] = x
      BY <2>2, <2>7, <2>8
    <3> HIDE DEF Ahead
    <3> QED BY <2>3, <3>6, <3>7
  <2>9. CASE x[p] \in front /\ p > t
    <3>1. \A j \in 1..(t + 1) : y[j] \in front
      <4> TAKE j \in 1..(t + 1)
      <4>1. CASE j = 1
        BY <2>5, <2>9, <4>1
      <4>2. CASE j # 1
        <5>1. j \in 2..p /\ j - 1 \in 1..t
          BY <2>7, <2>9, <4>2
        <5> QED BY <2>5, <2>6, <5>1
      <4> QED BY <4>1, <4>2
    <3>2. ASSUME NEW j \in 1..(n - (k + 1) - (t + 1)) PROVE y[(t + 1) + j] = list[j]
      <4>1. (t + 1) + j \in 2..p /\ ((t + 1) + j) - 1 = t + j /\ j \in 1..(n - k - t)
        BY <2>7, <2>9
      <4> QED BY <2>5, <2>6, <4>1
    <3>3. x[p] = list[p - t] /\ p - t \in 1..n
      <4>1. p - t \in 1..(n - k - t) /\ t + (p - t) = p /\ p - t \in 1..n
        BY <2>7, <2>9
      <4> QED BY <2>6, <4>1
    <3>4. ASSUME NEW i \in 1..n, i > n - (k + 1) - (t + 1), reached(i)
          PROVE  \E j \in 1..(t + 1) : y[j] = list[i]
      <4>1. i = p - t \/ i > n - k - t \/ i = (p - t) - 1
        BY <2>7, <3>4
      <4>2. CASE i = p - t
        <5>1. 1 \in 1..(t + 1)
          BY <2>7
        <5> QED BY <2>5, <3>3, <4>2, <5>1
      <4>3. CASE i > n - k - t
        <5>1. PICK j \in 1..t : x[j] = list[i]
          BY <2>6, <3>4, <4>3
        <5>2. j + 1 \in 1..(t + 1) /\ j + 1 \in 2..p /\ (j + 1) - 1 = j
          BY <2>7, <2>9
        <5> QED BY <2>5, <5>1, <5>2
      <4>4. CASE i = (p - t) - 1
        <5>1. i + 1 = p - t /\ i # n
          BY <2>7, <3>3, <4>4
        <5> QED BY <2>9, <3>3, <3>4, <5>1 DEF reached
      <4> QED BY <4>1, <4>2, <4>3, <4>4
    <3>5. Ahead(y, k + 1, t + 1)
      BY <3>1, <3>2, <3>4
    <3>6. t + 1 \in 0..(k + 1) /\ f[k + 1] = y
      BY <2>2, <2>7, <2>9
    <3> HIDE DEF Ahead
    <3> QED BY <2>3, <2>5, <3>5, <3>6
  <2>10. CASE x[p] \in front /\ p <= t
    <3>1. \A j \in 1..t : y[j] \in front
      <4> TAKE j \in 1..t
      <4>1. CASE j = 1
        BY <2>5, <2>10, <4>1
      <4>2. CASE j \in 2..p
        <5>1. j - 1 \in 1..t
          BY <4>2
        <5> QED BY <2>5, <2>6, <4>2, <5>1
      <4>3. CASE j \in (p + 1)..Len(x)
        BY <2>5, <2>6, <4>3
      <4>4. j <= n
        BY <2>7
      <4> QED BY <2>3, <2>7, <4>1, <4>2, <4>3, <4>4
    <3>2. ~\E j \in 1..(n - (k + 1) - t) : TRUE
      BY <2>7, <2>10
    <3>3. ASSUME NEW i \in 1..n, reached(i) PROVE \E j \in 1..t : y[j] = list[i]
      <4>1. i > n - k - t
        BY <2>7, <2>10
      <4>2. PICK j \in 1..t : x[j] = list[i]
        BY <2>6, <3>3, <4>1
      <4>3. CASE j < p
        <5>1. j + 1 \in 1..t /\ j + 1 \in 2..p /\ (j + 1) - 1 = j
          BY <2>7, <2>10, <4>3
        <5> QED BY <2>5, <4>2, <5>1
      <4>4. CASE j = p
        <5>1. 1 \in 1..t
          BY <2>7, <2>10
        <5> QED BY <2>5, <4>2, <4>4, <5>1
      <4>5. CASE j > p
        <5>1. j \in (p + 1)..Len(x)
          BY <2>3, <2>7, <4>5
        <5> QED BY <2>5, <4>2, <5>1
      <4> QED BY <2>7, <4>3, <4>4, <4>5
    <3>4. Ahead(y, k + 1, t)
      BY <3>1, <3>2, <3>3
    <3>5. t \in 0..(k + 1) /\ f[k + 1] = y
      BY <2>2, <2>7, <2>10
    <3> HIDE DEF Ahead
    <3> QED BY <2>3, <2>5, <3>4, <3>5
  <2> QED BY <2>7, <2>8, <2>9, <2>10
<1>5. Inv(n)
  <2>1. \A k \in Nat : k \in T
    <3> HIDE DEF T
    <3> QED BY <1>3, <1>4, Induction
  <2>2. n \in T
    BY <1>2, <2>1
  <2> HIDE DEF Inv
  <2> QED BY <1>2, <2>2
<1>6. PICK t \in 0..n : Ahead(f[n], n, t)
  BY <1>5
<1>7. \A i \in 1..n : i > n - n - t
  BY <1>2
<1>8. IsInjective(f[n])
  BY <1>5
<1>9. /\ \A j \in 1..t : f[n][j] \in front
      /\ \A i \in 1..n : reached(i) => \E j \in 1..t : f[n][j] = list[i]
  BY <1>6, <1>7
<1>10. MovedToFront(list, front) = f[n]
  BY <1>1
<1> DEFINE moved == f[n]
<1> HIDE DEF moved, Inv, T, Ahead
<1>11. /\ IsInjective(moved)
       /\ \A j \in 1..t : moved[j] \in front
       /\ \A i \in 1..Len(list) : list[i] \in front /\ (i = Len(list) \/ list[i + 1] \notin front)
            => \E j \in 1..t : moved[j] = list[i]
       /\ MovedToFront(list, front) = moved
  BY <1>8, <1>9, <1>10 DEF moved
<1> QED BY <1>11

\* The cap keeps the first of the tools; it is exceeded by promoted tools only.
LEMMA CappedSound ==
  ASSUME NEW E, NEW list \in Seq(E), IsInjective(list), NEW front, IsFiniteSet(front)
  PROVE  LET capped == Capped(list, front) IN
         /\ capped \in Seq(E) /\ IsInjective(capped) /\ Range(capped) \subseteq Range(list)
         /\ Len(capped) <= MaxVisible \/ Len(capped) <= Cardinality(front)
         /\ Len(list) > 0 => Len(capped) > 0 /\ capped[1] = list[1]
         /\ \A i \in 1..Len(list) : i <= MaxVisible => i \in 1..Len(capped) /\ capped[i] = list[i]
<1> DEFINE n == Len(list)
           rest == SubSeq(list, MaxVisible + 1, n)
           tail == Only(rest, front)
           head == SubSeq(list, 1, MaxVisible)
           both == head \o tail
           top == IF Len(tail) > MaxVisible THEN Len(tail) ELSE MaxVisible
           capped == Capped(list, front)
<1>1. n \in Nat /\ MaxVisible \in Nat /\ MaxVisible >= 1 /\ DOMAIN list = 1..n
  BY SurfaceAssumption
<1>2. capped = IF n <= MaxVisible THEN list ELSE SubSeq(both, 1, top)
  BY DEF Capped
<1>3. CASE n <= MaxVisible
  <2>1. capped = list
    BY <1>2, <1>3
  <2> HIDE DEF capped
  <2>2. Len(capped) <= MaxVisible
    BY <1>3, <2>1
  <2>3. list \in Seq(E) /\ IsInjective(list) /\ Range(list) \subseteq Range(list)
        /\ \A i \in 1..Len(list) : i \in 1..Len(list) /\ list[i] = list[i]
    OBVIOUS
  <2> QED BY <2>1, <2>2, <2>3 DEF capped
<1>4. CASE n > MaxVisible
  <2>1. capped = SubSeq(both, 1, top)
    BY <1>1, <1>2, <1>4
  <2>2. /\ rest \in Seq(E) /\ IsInjective(rest)
        /\ \A x : x \in Range(rest) <=> \E i \in (MaxVisible + 1)..n : x = list[i]
    <3>1. MaxVisible + 1 \in Nat \ {0} /\ n <= Len(list)
      BY <1>1
    <3> QED BY <1>1, <3>1, PartIs
  <2> HIDE DEF rest
  <2>3. tail \in Seq(E) /\ IsInjective(tail) /\ Range(tail) = Range(rest) \cap front
    BY <2>2, OnlySound
  <2>4. /\ head \in Seq(E) /\ IsInjective(head) /\ Len(head) = MaxVisible
        /\ \A x : x \in Range(head) <=> \E i \in 1..MaxVisible : x = list[i]
        /\ \A i \in 1..MaxVisible : head[i] = list[i]
    <3>1. 1 \in Nat \ {0} /\ MaxVisible <= Len(list)
      BY <1>1, <1>4
    <3>2. /\ head \in Seq(E) /\ IsInjective(head)
          /\ Len(head) = IF 1 <= MaxVisible THEN MaxVisible - 1 + 1 ELSE 0
          /\ \A i \in 1..Len(head) : 1 + i - 1 \in 1..Len(list) /\ head[i] = list[1 + i - 1]
          /\ \A x : x \in Range(head) <=> \E i \in 1..MaxVisible : x = list[i]
      BY <1>1, <3>1, PartIs
    <3>3. Len(head) = MaxVisible
      BY <1>1, <3>2
    <3>4. \A i \in 1..MaxVisible : i \in 1..Len(head) /\ 1 + i - 1 = i
      BY <1>1, <3>3
    <3> HIDE DEF head
    <3> QED BY <3>2, <3>3, <3>4
  <2> HIDE DEF head, tail, n
  <2>5. Range(head) \cap Range(tail) = {}
    <3> SUFFICES ASSUME NEW x \in Range(head), x \in Range(rest) PROVE FALSE
      BY <2>3
    <3>1. PICK i \in 1..MaxVisible : x = list[i]
      BY <2>4
    <3>2. PICK j \in (MaxVisible + 1)..n : x = list[j]
      BY <2>2
    <3>3. i \in 1..n /\ j \in 1..n /\ i # j
      BY <1>1, <1>4, <3>1, <3>2
    <3> QED BY <1>1, <3>1, <3>2, <3>3 DEF IsInjective
  <2>6. /\ both \in Seq(E) /\ Len(both) = Len(head) + Len(tail) /\ IsInjective(both)
        /\ Range(both) = Range(head) \cup Range(tail)
        /\ \A i \in 1..Len(head) : both[i] = head[i]
    <3>1. head \in Seq(E) /\ tail \in Seq(E) /\ IsInjective(head) /\ IsInjective(tail)
      BY <2>3, <2>4
    <3> QED BY <2>5, <3>1, ConcatIs
  <2>7. Range(both) \subseteq Range(list)
    <3>1. \A x \in Range(both) : \E i \in 1..n : x = list[i]
      <4> TAKE x \in Range(both)
      <4>1. (\E i \in 1..MaxVisible : x = list[i]) \/ (\E i \in (MaxVisible + 1)..n : x = list[i])
        BY <2>2, <2>3, <2>4, <2>6
      <4>2. \A i : i \in 1..MaxVisible \/ i \in (MaxVisible + 1)..n => i \in 1..n
        BY <1>1, <1>4
      <4> QED BY <4>1, <4>2
    <3> HIDE DEF both
    <3> QED BY <1>1, <3>1 DEF Range
  <2>8. Len(tail) \in Nat /\ Len(tail) <= Cardinality(front) /\ Len(head) = MaxVisible
    <3>1. Range(tail) \subseteq front
      BY <2>3
    <3>2. Len(tail) \in Nat /\ tail \in Seq(E) /\ IsInjective(tail)
      BY <2>3
    <3> QED BY <2>4, <3>1, <3>2, InjectiveLength
  <2>9. top \in Nat /\ 1 <= top /\ top <= Len(both) /\ MaxVisible <= top
        /\ (top = MaxVisible \/ top = Len(tail))
    BY <1>1, <2>6, <2>8
  <2> HIDE DEF both, top
  <2>10. /\ capped \in Seq(E) /\ IsInjective(capped)
         /\ Len(capped) = IF 1 <= top THEN top - 1 + 1 ELSE 0
         /\ \A i \in 1..Len(capped) : 1 + i - 1 \in 1..Len(both) /\ capped[i] = both[1 + i - 1]
         /\ \A x : x \in Range(capped) <=> \E i \in 1..top : x = both[i]
    <3>1. 1 \in Nat \ {0} /\ both \in Seq(E) /\ IsInjective(both)
      BY <2>6
    <3> HIDE DEF capped
    <3> QED BY <2>1, <2>9, <3>1, PartIs
  <2> HIDE DEF capped
  <2>11. Len(capped) = top
    BY <2>9, <2>10
  <2>12. Range(capped) \subseteq Range(both)
    <3>1. DOMAIN both = 1..Len(both) /\ \A i \in 1..top : i \in 1..Len(both)
      BY <2>6, <2>9
    <3> QED BY <2>10, <3>1 DEF Range
  <2>13. \A i \in 1..MaxVisible : i \in 1..Len(capped) /\ capped[i] = list[i]
    <3> TAKE i \in 1..MaxVisible
    <3>1. i \in 1..Len(capped) /\ 1 + i - 1 = i /\ i \in 1..Len(head)
      <4>1. Len(head) = MaxVisible /\ Len(capped) = top /\ MaxVisible <= top /\ top \in Nat
        BY <2>8, <2>9, <2>11, Zenon
      <4> QED BY <1>1, <4>1
    <3>2. capped[i] = both[i] /\ both[i] = head[i]
      BY <2>6, <2>10, <3>1
    <3> QED BY <2>4, <3>1, <3>2
  <2>14. Len(capped) <= MaxVisible \/ Len(capped) <= Cardinality(front)
    BY <1>1, <2>8, <2>9, <2>11
  <2>15. Len(capped) > 0
    BY <2>9, <2>11
  <2>16. capped \in Seq(E) /\ IsInjective(capped) /\ Range(capped) \subseteq Range(list)
    BY <2>7, <2>10, <2>12
  <2>17. 1 \in 1..MaxVisible /\ \A i \in 1..Len(list) : i <= MaxVisible => i \in 1..MaxVisible
    BY <1>1
  <2> QED BY <2>13, <2>14, <2>15, <2>16, <2>17, Zenon DEF capped
<1> QED BY <1>1, <1>3, <1>4

\* The control tools join what is advertised, and take their slots from it.
LEMMA ControlSound ==
  ASSUME NEW adv \in Seq(Range(Catalog)), IsInjective(adv)
  PROVE  LET shown == WithControl(adv) IN
         /\ Control \subseteq Range(shown)
         /\ IsInjective(shown) /\ Range(shown) \subseteq Range(Catalog)
         /\ Control = {} => shown = adv
         /\ Control # {} => Len(shown) <= MaxVisible \/ Range(shown) = Control
         /\ Len(adv) > 0 /\ Cardinality(Control) < MaxVisible => adv[1] \in Range(shown)
<1> DEFINE E == Range(Catalog)
           shown == WithControl(adv)
<1>1. /\ Catalog \in Seq(E) /\ IsInjective(Catalog) /\ Control \subseteq E
      /\ MaxVisible \in Nat /\ adv \in Seq(E)
  BY SurfaceAssumption
<1> HIDE DEF E
<1>2. Range(adv) \subseteq E /\ DOMAIN adv = 1..Len(adv) /\ Len(adv) \in Nat
  <2>1. \A i \in 1..Len(adv) : adv[i] \in E
    BY <1>1, ElementOfSeq
  <2> QED BY <1>1, <2>1 DEF Range
<1>3. CASE Control = {}
  <2>1. shown = adv
    BY <1>3 DEF WithControl
  <2>2. Len(adv) > 0 => adv[1] \in Range(adv)
    BY <1>2 DEF Range
  <2> HIDE DEF shown
  <2> QED BY <1>2, <1>3, <2>1, <2>2, Zenon DEF shown, E
<1>4. CASE Control # {}
  <2> DEFINE ctrl == Only(Catalog, Control)
             both == ctrl \o adv
             merged == DedupeByName(both)
             rest == Range(merged) \ Control
             others == Only(merged, rest)
             slots == MaxVisible - Cardinality(Control)
             keep == {others[i] : i \in {j \in DOMAIN others : j <= slots}}
  <2>1. shown = Only(merged, Control \cup keep)
    BY <1>4 DEF WithControl
  <2>2. ctrl \in Seq(E) /\ Range(ctrl) = E \cap Control
    <3>1. Range(ctrl) = Range(Catalog) \cap Control
      BY <1>1, OnlySound
    <3> QED BY <1>1, <3>1, OnlySound DEF E
  <2>3. Range(ctrl) = Control
    BY <1>1, <2>2
  <2> HIDE DEF ctrl
  <2>4. /\ both \in Seq(E) /\ Len(both) = Len(ctrl) + Len(adv)
        /\ \A i \in 1..Len(ctrl) : both[i] = ctrl[i]
        /\ \A i \in 1..Len(adv) : both[Len(ctrl) + i] = adv[i]
        /\ Range(both) = Range(ctrl) \cup Range(adv)
    BY <1>1, <2>2, ConcatIs
  <2> HIDE DEF both
  <2>5. merged \in Seq(E) /\ Range(merged) = Range(both) /\ IsInjective(merged)
    BY <2>4, DedupeSound
  <2>6. \A S : \A i \in 1..Len(both) : IsFirst(both, S, i) =>
          \E k \in 1..Len(merged) : IsFirst(merged, S, k) /\ merged[k] = both[i]
    BY <2>4, DedupeSound
  <2> HIDE DEF merged
  <2>7. others \in Seq(E)
    BY <2>5, OnlySound
  <2>8. \A i \in 1..Len(merged) : IsFirst(merged, rest, i) => others # <<>> /\ others[1] = merged[i]
    BY <2>5, OnlySound
  <2> HIDE DEF rest, others
  <2>9. IsFiniteSet(Control) /\ Cardinality(Control) \in Nat
    BY <2>2, <2>3, FiniteRange, FS_CardinalityType
  <2>10. slots \in Int
    BY <1>1, <2>9
  <2>11. IsFiniteSet(keep) /\ (slots >= 0 => Cardinality(keep) <= slots) /\ (slots <= 0 => keep = {})
    <3> HIDE DEF slots
    <3> QED BY <2>7, <2>10, FirstElements
  <2>12. \A i \in DOMAIN others : i <= slots => others[i] \in keep
    OBVIOUS
  <2> HIDE DEF keep
  <2>13. /\ shown \in Seq(E) /\ Range(shown) = Range(merged) \cap (Control \cup keep)
         /\ IsInjective(shown)
    <3> HIDE DEF shown
    <3> QED BY <2>1, <2>5, OnlySound
  <2> HIDE DEF shown
  <2>14. Control \subseteq Range(shown) /\ Range(shown) \subseteq E
    <3>1. Range(merged) = Control \cup Range(adv)
      BY <2>3, <2>4, <2>5
    <3> QED BY <1>1, <1>2, <2>13, <3>1
  <2>15. Len(shown) <= MaxVisible \/ Range(shown) = Control
    <3>1. CASE slots <= 0
      BY <2>11, <2>13, <2>14, <3>1
    <3>2. CASE slots > 0
      <4>1. IsFiniteSet(Control \cup keep)
        BY <2>9, <2>11, FS_Union
      <4>2. Cardinality(Control \cup keep) = Cardinality(Control) + Cardinality(keep) - Cardinality(Control \cap keep)
        BY <2>9, <2>11, FS_Union
      <4>3. IsFiniteSet(Control \cap keep)
        <5>1. Control \cap keep \subseteq Control
          OBVIOUS
        <5> QED BY <2>9, <5>1, FS_Subset
      <4>4. Cardinality(Control \cap keep) \in Nat /\ Cardinality(keep) \in Nat
        BY <2>11, <4>3, FS_CardinalityType
      <4>5. Cardinality(keep) <= slots
        BY <2>10, <2>11, <3>2
      <4>6. Cardinality(Control \cup keep) \in Nat /\ Cardinality(Control \cup keep) <= MaxVisible
        BY <1>1, <2>9, <4>1, <4>2, <4>4, <4>5, FS_CardinalityType DEF slots
      <4>7. Range(shown) \subseteq Control \cup keep
        BY <2>13
      <4>8. Len(shown) <= Cardinality(Control \cup keep)
        BY <2>13, <4>1, <4>7, InjectiveLength
      <4>9. Len(shown) \in Nat
        BY <2>13
      <4> QED BY <1>1, <4>6, <4>8, <4>9
    <3> QED BY <2>10, <3>1, <3>2
  <2>16. ASSUME Len(adv) > 0, Cardinality(Control) < MaxVisible PROVE adv[1] \in Range(shown)
    <3> DEFINE x == adv[1]
               i == Len(ctrl) + 1
    <3>1. x \in Range(adv) /\ i \in 1..Len(both) /\ both[i] = x /\ x \in Range(merged)
      <4>1. 1 \in 1..Len(adv) /\ Len(ctrl) \in Nat
        BY <1>2, <2>2, <2>16
      <4>2. x \in Range(adv)
        BY <1>2, <4>1 DEF Range
      <4> QED BY <1>2, <2>4, <2>5, <4>1, <4>2
    <3>2. CASE x \in Control
      BY <2>14, <3>2
    <3>3. CASE x \notin Control
      <4>1. IsFirst(both, rest, i)
        <5>1. both[i] \in rest
          BY <3>1, <3>3 DEF rest
        <5>2. ASSUME NEW j \in 1..(i - 1) PROVE both[j] \notin rest
          <6>1. j \in 1..Len(ctrl)
            BY <2>2
          <6>2. both[j] \in Range(ctrl)
            <7>1. both[j] = ctrl[j] /\ DOMAIN ctrl = 1..Len(ctrl)
              BY <2>2, <2>4, <6>1
            <7> QED BY <6>1, <7>1 DEF Range
          <6> QED BY <2>3, <6>2 DEF rest
        <5> QED BY <3>1, <5>1, <5>2 DEF IsFirst
      <4>2. PICK k \in 1..Len(merged) : IsFirst(merged, rest, k) /\ merged[k] = both[i]
        BY <2>6, <3>1, <4>1
      <4>3. others # <<>> /\ others[1] = x
        BY <2>8, <3>1, <4>2
      <4>4. 1 \in DOMAIN others /\ 1 <= slots
        <5>1. 1 \in DOMAIN others
          BY <2>7, <4>3
        <5> QED BY <1>1, <2>9, <2>16, <5>1 DEF slots
      <4>5. x \in keep
        BY <2>12, <4>3, <4>4
      <4> HIDE DEF x, i
      <4> QED BY <2>13, <3>1, <4>5 DEF x
    <3> QED BY <3>2, <3>3
  <2>17. Control # {} /\ IsInjective(shown)
    BY <1>4, <2>13
  <2> QED BY <2>14, <2>15, <2>16, <2>17, Zenon DEF shown, E
<1> QED BY <1>3, <1>4

\* A tool whose predecessors leave it a slot keeps it beside the control tools.
LEMMA ControlKeeps ==
  ASSUME NEW adv \in Seq(Range(Catalog)), IsInjective(adv), NEW i \in 1..Len(adv),
         NEW W, IsFiniteSet(W), \A j \in 1..i : adv[j] \in W,
         Cardinality(W \cup Control) <= MaxVisible
  PROVE  adv[i] \in Range(WithControl(adv))
<1> DEFINE E == Range(Catalog)
           shown == WithControl(adv)
           x == adv[i]
<1>1. /\ Catalog \in Seq(E) /\ Control \subseteq E /\ MaxVisible \in Nat /\ adv \in Seq(E)
  BY SurfaceAssumption
<1> HIDE DEF E
<1>2. DOMAIN adv = 1..Len(adv) /\ Len(adv) \in Nat /\ i \in Nat /\ x \in Range(adv) /\ i \in 1..i
  BY <1>1 DEF Range
<1>3. CASE Control = {}
  <2>1. shown = adv
    BY <1>3 DEF WithControl
  <2> QED BY <1>2, <2>1
<1>4. CASE Control # {}
  <2> DEFINE ctrl == Only(Catalog, Control)
             both == ctrl \o adv
             merged == DedupeByName(both)
             rest == Range(merged) \ Control
             others == Only(merged, rest)
             slots == MaxVisible - Cardinality(Control)
             keep == {others[j] : j \in {m \in DOMAIN others : m <= slots}}
  <2>1. shown = Only(merged, Control \cup keep)
    BY <1>4 DEF WithControl
  <2>2. ctrl \in Seq(E) /\ Range(ctrl) = Control
    <3>1. Range(ctrl) = Range(Catalog) \cap Control /\ ctrl \in Seq(E)
      BY <1>1, OnlySound
    <3> QED BY <1>1, <3>1 DEF E
  <2> HIDE DEF ctrl
  <2>3. /\ both \in Seq(E) /\ Len(both) = Len(ctrl) + Len(adv)
        /\ \A j \in 1..Len(ctrl) : both[j] = ctrl[j]
        /\ \A j \in 1..Len(adv) : both[Len(ctrl) + j] = adv[j]
        /\ Range(both) = Range(ctrl) \cup Range(adv)
    BY <1>1, <2>2, ConcatIs
  <2> HIDE DEF both
  <2>4. merged \in Seq(E) /\ Range(merged) = Range(both) /\ IsInjective(merged)
    BY <2>3, DedupeSound
  <2>5. \A S : \A j \in 1..Len(both) : IsFirst(both, S, j) =>
          \E k \in 1..Len(merged) : IsFirst(merged, S, k) /\ merged[k] = both[j]
    BY <2>3, DedupeSound
  <2> HIDE DEF merged
  <2>6. IsFiniteSet(Control) /\ Cardinality(Control) \in Nat
    BY <2>2, FiniteRange, FS_CardinalityType
  <2>7. Range(shown) = Range(merged) \cap (Control \cup keep)
    <3> HIDE DEF keep, shown
    <3> QED BY <2>1, <2>4, OnlySound
  <2>8. x \in Range(merged)
    BY <1>2, <2>3, <2>4
  <2>9. CASE x \in Control
    BY <2>7, <2>8, <2>9
  <2>10. CASE x \notin Control
    <3>1. others \in Seq(E) /\ Range(others) = Range(merged) \cap rest /\ IsInjective(others)
      <4> HIDE DEF rest
      <4> QED BY <2>4, OnlySound
    <3>2. DOMAIN others = 1..Len(others) /\ Len(others) \in Nat
      <4> HIDE DEF others
      <4> QED BY <3>1
    <3>3. PICK m \in 1..Len(others) : others[m] = x
      <4>1. x \in Range(others)
        <5> HIDE DEF others, x
        <5> QED BY <2>8, <2>10, <3>1 DEF rest
      <4> HIDE DEF others, x
      <4> QED BY <3>2, <4>1 DEF Range
    <3>4. \A j \in 1..Len(others) : others[j] \in rest
      <4> HIDE DEF others, rest
      <4> QED BY <3>1, <3>2 DEF Range
    <3>5. ASSUME NEW l \in 1..(m - 1) PROVE others[l] \in W \ Control
      <4> DEFINE y == others[l]
                 S == {x, y}
                 q == Len(ctrl) + i
      <4>1. l \in 1..Len(others) /\ l # m /\ y \in rest /\ y \notin Control
        <5>1. l \in 1..Len(others) /\ l # m
          BY <3>2
        <5>2. y \in rest
          BY <3>4, <5>1
        <5> HIDE DEF y
        <5> QED BY <5>1, <5>2 DEF rest
      <4>2. SUFFICES ASSUME \A j \in 1..i : adv[j] # y PROVE FALSE
        <5> HIDE DEF y
        <5> QED BY <4>1, <4>2 DEF y
      <4>3. q \in 1..Len(both) /\ both[q] = x /\ Len(ctrl) \in Nat
        BY <1>2, <2>2, <2>3
      <4>4. x \in rest
        BY <3>3, <3>4
      <4> HIDE DEF y, x, rest, others
      <4>5. ASSUME NEW j \in 1..(q - 1) PROVE both[j] \notin S
        <5>1. CASE j \in 1..Len(ctrl)
          <6>1. both[j] \in Control
            <7>1. both[j] = ctrl[j] /\ DOMAIN ctrl = 1..Len(ctrl)
              BY <2>2, <2>3, <5>1
            <7> QED BY <2>2, <5>1, <7>1 DEF Range
          <6> QED BY <2>10, <4>1, <6>1
        <5>2. CASE j \notin 1..Len(ctrl)
          <6> DEFINE h == j - Len(ctrl)
          <6>1. h \in 1..(i - 1) /\ h \in 1..Len(adv) /\ j = Len(ctrl) + h /\ h \in 1..i /\ h # i
            BY <1>2, <4>3, <5>2
          <6> HIDE DEF h
          <6>2. both[j] = adv[h]
            BY <2>3, <6>1
          <6>3. adv[h] # adv[i]
            BY <1>2, <6>1 DEF IsInjective
          <6> QED BY <4>2, <6>1, <6>2, <6>3 DEF x
        <5> QED BY <5>1, <5>2
      <4>6. IsFirst(both, S \cap rest, q)
        BY <4>3, <4>4, <4>5 DEF IsFirst
      <4>7. PICK k \in 1..Len(merged) : IsFirst(merged, S \cap rest, k) /\ merged[k] = both[q]
        BY <2>5, <4>3, <4>6
      <4>8. IsFirst(merged, rest \cap S, k)
        <5>1. S \cap rest = rest \cap S
          OBVIOUS
        <5> HIDE DEF S
        <5> QED BY <4>7, <5>1
      <4>9. \E g \in 1..Len(others) : IsFirst(others, S, g) /\ others[g] = merged[k]
        <5> HIDE DEF S
        <5>1. \E g \in 1..Len(Only(merged, rest)) : IsFirst(Only(merged, rest), S, g) /\ Only(merged, rest)[g] = merged[k]
          <6>1. merged \in Seq(E)
            BY <2>4
          <6>2. \A A, T, h : IsFirst(merged, A \cap T, h)
                  => \E g \in 1..Len(Only(merged, A)) : IsFirst(Only(merged, A), T, g) /\ Only(merged, A)[g] = merged[h]
            BY <6>1, OnlyFirst
          <6> QED BY <4>8, <6>2
        <5> QED BY <5>1 DEF others
      <4>10. PICK g \in 1..Len(others) : IsFirst(others, S, g) /\ others[g] = x
        BY <4>3, <4>7, <4>9
      <4>11. g = m
        BY <3>1, <3>2, <3>3, <4>10 DEF IsInjective
      <4> QED BY <4>10, <4>11 DEF IsFirst, y
    <3>6. x \in W \ Control
      BY <1>2, <2>10
    <3> HIDE DEF others, x
    <3>7. m <= Cardinality(W \ Control)
      <4> DEFINE z == SubSeq(others, 1, m)
      <4>1. m \in Nat /\ 1 \in Nat \ {0} /\ m <= Len(others) /\ m - 1 + 1 = m /\ 1 <= m
        BY <3>2
      <4>2. /\ z \in Seq(E) /\ IsInjective(z)
            /\ Len(z) = IF 1 <= m THEN m - 1 + 1 ELSE 0
            /\ \A e : e \in Range(z) <=> \E j \in 1..m : e = others[j]
        BY <3>1, <4>1, PartIs
      <4> HIDE DEF z
      <4>3. Len(z) = m
        BY <4>1, <4>2
      <4>4. Range(z) \subseteq W \ Control
        <5>1. \A j \in 1..m : j \in 1..(m - 1) \/ j = m
          BY <4>1
        <5> QED BY <3>3, <3>5, <3>6, <4>2, <5>1
      <4>5. IsFiniteSet(W \ Control)
        <5>1. W \ Control \subseteq W
          OBVIOUS
        <5> QED BY <5>1, FS_Subset
      <4> QED BY <4>2, <4>3, <4>4, <4>5, InjectiveLength
    <3>8. Cardinality(W \ Control) + Cardinality(Control) = Cardinality(W \cup Control)
      <4> DEFINE V == W \ Control
      <4>1. IsFiniteSet(V) /\ V \cap Control = {} /\ V \cup Control = W \cup Control
        <5>1. V \subseteq W
          OBVIOUS
        <5>2. IsFiniteSet(V)
          BY <5>1, FS_Subset
        <5> QED BY <5>2
      <4>2. Cardinality({}) = 0
        BY FS_EmptySet
      <4> HIDE DEF V
      <4>3. Cardinality(V \cup Control) = Cardinality(V) + Cardinality(Control) - Cardinality(V \cap Control)
        BY <2>6, <4>1, FS_Union
      <4>4. Cardinality(V) \in Nat
        BY <4>1, FS_CardinalityType
      <4>5. Cardinality(W \cup Control) = Cardinality(V) + Cardinality(Control)
        <5>1. Cardinality(V \cap Control) = 0 /\ Cardinality(V \cup Control) = Cardinality(W \cup Control)
          BY <4>1, <4>2
        <5> QED BY <2>6, <4>3, <4>4, <5>1
      <4> QED BY <4>5 DEF V
    <3>9. m <= slots
      <4>1. Cardinality(W \ Control) \in Nat
        <5>1. W \ Control \subseteq W
          OBVIOUS
        <5> QED BY <5>1, FS_Subset, FS_CardinalityType
      <4> QED BY <1>1, <2>6, <3>2, <3>7, <3>8, <4>1 DEF slots
    <3>10. x \in keep
      BY <3>2, <3>3, <3>9
    <3> HIDE DEF keep, shown
    <3> QED BY <2>7, <2>8, <3>10 DEF x, shown
  <2> QED BY <2>9, <2>10
<1> QED BY <1>3, <1>4

\* Whatever has been promoted.
LEMMA AdvertisedSound ==
  ASSUME NEW front \in SUBSET Range(Catalog)
  PROVE  SurfaceSoundFor(front)
<1> DEFINE E == Range(Catalog)
           moved == MovedToFront(Kept, front)
           deduped == DedupeByName(moved)
           capped == Capped(deduped, front)
           shown == WithControl(capped)
<1>1. Catalog \in Seq(E) /\ IsInjective(Catalog)
  BY SurfaceAssumption
<1>2. shown = Advertised(front)
  BY DEF Advertised
<1>3. IsFiniteSet(front)
  BY <1>1, FiniteRange, FS_Subset
<1> HIDE DEF E
<1>4. Kept \in Seq(E) /\ IsInjective(Kept)
  BY <1>1, OnlySound DEF Kept
<1>5. /\ moved \in Seq(E) /\ Range(moved) = Range(Kept)
      /\ front \cap Range(Kept) # {} => IsFirst(moved, front, 1)
  <2>1. Kept \in Seq(E)
    BY <1>4
  <2> QED BY <2>1, MovedSound
<1>6. PICK t \in 0..Len(Kept) :
         /\ \A j \in 1..t : moved[j] \in front
         /\ \A i \in 1..Len(Kept) : Kept[i] \in front /\ (i = Len(Kept) \/ Kept[i + 1] \notin front)
              => \E j \in 1..t : moved[j] = Kept[i]
  BY <1>4, MovedFirst
<1>7. IsInjective(moved) /\ Len(moved) = Len(Kept)
  BY <1>4, MovedFirst, MovedSound
<1>8. deduped = moved
  <2> HIDE DEF moved
  <2> QED BY <1>5, <1>7, DedupeSame
<1> HIDE DEF moved
<1>9. deduped \in Seq(E) /\ IsInjective(deduped)
  BY <1>5, DedupeSound
<1>10. \A S : \A i \in 1..Len(moved) : IsFirst(moved, S, i) =>
        \E k \in 1..Len(deduped) : IsFirst(deduped, S, k) /\ deduped[k] = moved[i]
  BY <1>5, DedupeSound
<1>11. ASSUME front \cap Range(Kept) # {} PROVE Len(deduped) > 0 /\ deduped[1] \in front \cap Range(Kept)
  <2>1. 1 \in 1..Len(moved) /\ moved[1] \in front
    BY <1>5, <1>11 DEF IsFirst
  <2>2. IsFirst(moved, {moved[1]}, 1)
    BY <2>1 DEF IsFirst
  <2>3. IsFirst(moved, Range(moved), 1)
    <3>1. DOMAIN moved = 1..Len(moved)
      BY <1>5
    <3> QED BY <2>1, <3>1 DEF IsFirst, Range
  <2>4. PICK k \in 1..Len(deduped) : IsFirst(deduped, Range(moved), k) /\ deduped[k] = moved[1]
    BY <1>10, <2>1, <2>3
  <2>5. deduped[1] \in Range(moved)
    <3>1. Range(deduped) = Range(moved)
      BY <1>5, DedupeSound
    <3>2. DOMAIN deduped = 1..Len(deduped) /\ 1 \in 1..Len(deduped)
      BY <1>9, <2>4
    <3> HIDE DEF deduped
    <3> QED BY <3>1, <3>2 DEF Range
  <2>6. ~(1 \in 1..(k - 1))
    BY <2>4, <2>5 DEF IsFirst
  <2>7. k = 1
    BY <2>6
  <2> QED BY <1>5, <2>1, <2>4, <2>5, <2>7
<1> HIDE DEF deduped
<1>12. /\ capped \in Seq(E) /\ IsInjective(capped)
       /\ Len(capped) <= MaxVisible \/ Len(capped) <= Cardinality(front)
       /\ Len(deduped) > 0 => Len(capped) > 0 /\ capped[1] = deduped[1]
  BY <1>3, <1>9, CappedSound
<1>13. \A i \in 1..Len(deduped) : i <= MaxVisible => i \in 1..Len(capped) /\ capped[i] = deduped[i]
  BY <1>3, <1>9, CappedSound
<1> HIDE DEF capped
<1>14. /\ Control \subseteq Range(shown)
       /\ IsInjective(shown) /\ Range(shown) \subseteq Range(Catalog)
       /\ Control = {} => shown = capped
       /\ Control # {} => Len(shown) <= MaxVisible \/ Range(shown) = Control
       /\ Len(capped) > 0 /\ Cardinality(Control) < MaxVisible => capped[1] \in Range(shown)
  <2>1. capped \in Seq(Range(Catalog))
    BY <1>12 DEF E
  <2> QED BY <1>12, <2>1, ControlSound
<1>15. ASSUME Cardinality((front \cap Range(Kept)) \cup Control) <= MaxVisible, NEW x \in Reached(front)
       PROVE  x \in Range(shown)
  <2> DEFINE W == front \cap Range(Kept)
  <2>1. DOMAIN Kept = 1..Len(Kept) /\ DOMAIN moved = 1..Len(moved) /\ Len(Kept) \in Nat
    BY <1>4, <1>5
  <2>2. PICK j \in 1..t : moved[j] = x
    BY <1>6, <1>15, <2>1 DEF Reached
  <2>3. \A h \in 1..t : h \in 1..Len(moved) /\ moved[h] \in W
    <3> TAKE h \in 1..t
    <3>1. h \in 1..Len(moved) /\ moved[h] \in front
      <4>1. Len(moved) = Len(Kept)
        BY <1>7
      <4>2. h \in 1..Len(Kept)
        BY <2>1
      <4> QED BY <1>6, <4>1, <4>2
    <3>2. moved[h] \in Range(moved)
      BY <2>1, <3>1 DEF Range
    <3> QED BY <1>5, <3>1, <3>2
  <2>4. IsFiniteSet(W) /\ IsFiniteSet(Control) /\ Control \subseteq Range(Catalog)
    <3>1. W \subseteq front /\ Control \subseteq Range(Catalog)
      BY SurfaceAssumption
    <3>2. IsFiniteSet(Range(Catalog))
      BY <1>1, FiniteRange
    <3> QED BY <1>3, <3>1, <3>2, FS_Subset
  <2> HIDE DEF W
  <2>5. t <= Cardinality(W)
    <3> DEFINE z == SubSeq(moved, 1, t)
    <3>1. t \in Nat /\ 1 \in Nat \ {0} /\ t <= Len(moved)
      BY <1>7, <2>1
    <3>2. /\ z \in Seq(E) /\ IsInjective(z)
          /\ Len(z) = IF 1 <= t THEN t - 1 + 1 ELSE 0
          /\ \A e : e \in Range(z) <=> \E h \in 1..t : e = moved[h]
      BY <1>5, <1>7, <3>1, PartIs
    <3> HIDE DEF z
    <3>3. Len(z) = t /\ Range(z) \subseteq W
      BY <2>3, <3>1, <3>2
    <3> QED BY <2>4, <3>2, <3>3, InjectiveLength
  <2>6. Cardinality(W) \in Nat /\ Cardinality(W) <= MaxVisible /\ MaxVisible \in Nat
    <3>1. IsFiniteSet(W \cup Control) /\ W \subseteq W \cup Control
      BY <2>4, FS_Union
    <3>2. Cardinality(W) <= Cardinality(W \cup Control)
      BY <3>1, FS_Subset
    <3>3. Cardinality(W) \in Nat /\ Cardinality(W \cup Control) \in Nat
      BY <2>4, <3>1, FS_CardinalityType
    <3>4. Cardinality(W \cup Control) <= MaxVisible
      BY <1>15 DEF W
    <3> QED BY <3>2, <3>3, <3>4, SurfaceAssumption
  <2>7. \A h \in 1..t : h \in 1..Len(capped) /\ capped[h] = moved[h]
    <3> TAKE h \in 1..t
    <3>1. h \in 1..Len(moved) /\ h <= MaxVisible
      BY <2>1, <2>3, <2>5, <2>6
    <3> QED BY <1>8, <1>13, <3>1
  <2>8. /\ capped \in Seq(Range(Catalog)) /\ IsInjective(capped) /\ j \in 1..Len(capped)
        /\ \A h \in 1..j : capped[h] \in W
        /\ capped[j] = x
    <3>1. \A h \in 1..j : h \in 1..t
      BY <2>1
    <3>2. capped \in Seq(Range(Catalog)) /\ IsInjective(capped)
      BY <1>12 DEF E
    <3>3. \A h \in 1..t : capped[h] \in W
      BY <2>3, <2>7
    <3> QED BY <2>2, <2>7, <3>1, <3>2, <3>3
  <2>9. Cardinality(W \cup Control) <= MaxVisible
    BY <1>15 DEF W
  <2>10. capped[j] \in Range(WithControl(capped))
    BY <2>4, <2>8, <2>9, ControlKeeps
  <2> QED BY <2>8, <2>10
<1> HIDE DEF shown
<1>16. Len(shown) <= MaxVisible \/ Range(shown) = Control \/ (Control = {} /\ Len(shown) <= Cardinality(front))
  <2>1. CASE Control = {}
    BY <1>12, <1>14, <2>1, Zenon
  <2> QED BY <1>14, <2>1, Zenon
<1>17. front \cap Range(Kept) # {} /\ Cardinality(Control) < MaxVisible
         => (front \cap Range(Kept)) \cap Range(shown) # {}
  BY <1>11, <1>12, <1>14
<1>18. Cardinality((front \cap Range(Kept)) \cup Control) <= MaxVisible => Reached(front) \subseteq Range(shown)
  BY <1>15
<1>19. /\ Control \subseteq Range(shown)
       /\ IsInjective(shown) /\ Range(shown) \subseteq Range(Catalog)
  BY <1>14
<1> QED BY <1>2, <1>16, <1>17, <1>18, <1>19, Zenon DEF SurfaceSoundFor

\* The control tools are always shown, only they or what a search found can
\* exceed the cap, and what was found is shown while the slots suffice, but for
\* the first of two neighbours, in every state: what produceCompletion makes of
\* body.tools, conv.promotedTools and the caps.
THEOREM ToolSurfaceIsSound == Spec => []SurfaceSound
<1>1. RoundsInv => SurfaceSound
  <2> SUFFICES ASSUME RoundsInv PROVE SurfaceSound
    OBVIOUS
  <2>1. promoted \in SUBSET Range(Catalog)
    BY DEF RoundsInv, TypeOK
  <2> QED BY <2>1, AdvertisedSound DEF SurfaceSound
<1> QED BY <1>1, RoundsInvariant, PTL
=============================================================================
