--------------------------- MODULE UpstreamStream ---------------------------
(***************************************************************************)
(* The generic upstream (packages/proxy-lib/src/upstream.ts): with         *)
(* OPENAI_UPSTREAM_BASE_URL set a request is not M365's, and an OpenAI     *)
(* stream becomes Anthropic events chunk by chunk.                         *)
(*                                                                         *)
(* A chunk is [text, calls, finish]: a sequence of letters, a sequence of  *)
(* [slot, name, args] (a name or "", a sequence of letters), a reason or   *)
(* "".  The events are those of StreamRender.  A block of a slot has the   *)
(* index its events carry, NoBlock before its first.                       *)
(***************************************************************************)
EXTENDS StreamRender, Selection

CONSTANTS Slots, Unnamed

ASSUME SlotsAssumption == Slots \subseteq Nat

NoSlot == [index |-> NoBlock, name |-> Unnamed, args |-> <<>>]
Opened == [view |-> NoEvents, blocks |-> <<>>, stop |-> ""]

Send(view, events, next) == [view EXCEPT !.events = @ \o events, !.next = next]

\* What is sent of arguments, if there are any.
ArgsDelta(index, args) == IF args = <<>> THEN <<>> ELSE <<Delta(index, args)>>

\* A piece of a call: the block starts with the first piece after which it has a name.
CallPiece_KeepsArgs(u, piece) ==
  LET known == IF piece.slot \in DOMAIN u.blocks THEN u.blocks[piece.slot] ELSE NoSlot
      block == [known EXCEPT !.name = IF piece.name = Unnamed THEN @ ELSE piece.name, !.args = @ \o piece.args]
      view == CloseOpenBlocks(u.view)
      started == [block EXCEPT !.index = view.next]
      starts == block.index = NoBlock /\ block.name # Unnamed
  IN  IF ~starts THEN [u EXCEPT !.blocks = With(@, piece.slot, block)]
      ELSE [u EXCEPT !.blocks = With(@, piece.slot, started),
                     !.view = Send(view, <<Start(view.next)>> \o ArgsDelta(view.next, block.args), view.next + 1)]

CallPiece(u, piece) ==
  LET known == IF piece.slot \in DOMAIN u.blocks THEN u.blocks[piece.slot] ELSE NoSlot
      block == [known EXCEPT !.name = IF piece.name = Unnamed THEN @ ELSE piece.name, !.args = @ \o piece.args]
      view == CloseOpenBlocks(u.view)
      started == [block EXCEPT !.index = view.next, !.args = <<>>]
      starts == block.index = NoBlock /\ block.name # Unnamed
  IN  IF ~starts THEN [u EXCEPT !.blocks = With(@, piece.slot, block)]
      ELSE [u EXCEPT !.blocks = With(@, piece.slot, started),
                     !.view = Send(view, <<Start(view.next)>> \o ArgsDelta(view.next, block.args), view.next + 1)]

StopReason(finish) ==
  CASE finish = "tool_calls" -> "tool_use" [] finish = "length" -> "max_tokens" [] OTHER -> "end_turn"

\* handleChunk: the text, then the pieces one by one.
CallPieces(u, pieces) ==
  LET after[i \in 0..Len(pieces)] == IF i = 0 THEN u ELSE CallPiece(after[i - 1], pieces[i])
  IN  after[Len(pieces)]

HandleChunk(u, chunk) ==
  LET called == CallPieces([u EXCEPT !.view = WithText(@, chunk.text)], chunk.calls)
  IN  IF chunk.finish = "" THEN called ELSE [called EXCEPT !.stop = StopReason(chunk.finish)]

\* A call gets its start if it never had a name, the rest of its arguments and its stop.
CloseCall(block, view) ==
  LET fresh == block.index = NoBlock
      index == IF fresh THEN view.next ELSE block.index
      first == IF fresh THEN <<Start(index)>> ELSE <<>>
  IN  Send(view, first \o ArgsDelta(index, block.args) \o <<Stop(index)>>, IF fresh THEN index + 1 ELSE view.next)

\* The end, after the last chunk or an error: text is closed, and then the calls in the
\* order of their slots.
InOrder(slots) ==
  CHOOSE s \in [1..Cardinality(slots) -> slots] : \A i, j \in 1..Cardinality(slots) : i < j => s[i] < s[j]

Finish(u) ==
  LET slots == InOrder(DOMAIN u.blocks)
      after[i \in 0..Len(slots)] ==
        IF i = 0 THEN CloseOpenBlocks(u.view) ELSE CloseCall(u.blocks[slots[i]], after[i - 1])
  IN  after[Len(slots)]

\* fromOpenAIChatResponse: the same answer in one piece, text first.
FromOpenAI(text, calls, finish) ==
  LET said == IF text = <<>> THEN <<>> ELSE <<<<"text", text>>>>
      used == [i \in DOMAIN calls |-> <<"tool_use", calls[i]>>]
  IN  [content |-> IF said \o used = <<>> THEN <<<<"text", <<"Okay.">>>>>> ELSE said \o used,
       stop |-> StopReason(finish)]
-----------------------------------------------------------------------------
\* What the client joins out of the deltas of one block.
ArgsOf(events, index) ==
  FlattenSeq([i \in DOMAIN events |->
    IF events[i].event = "delta" /\ events[i].block = index THEN events[i].text ELSE <<>>])
=============================================================================
