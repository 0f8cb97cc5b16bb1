---------------------------- MODULE StreamRender ----------------------------
(***************************************************************************)
(* How an answer's text reaches the client: the guard that forwards prose  *)
(* while a tool-mode turn streams (guardForward in handler.ts), and the    *)
(* two renderers that add what is missing at the end (handleChatCompletion *)
(* in handler.ts, handleAnthropicMessages in anthropic.ts).                *)
(*                                                                         *)
(* Texts are sequences of the letters                                      *)
(*   "p", "q"  prose, a word                                               *)
(*   "w"       white space, a line break                                   *)
(*   "k"       one backtick: three in a row open a fence                   *)
(*   "c"       a header key with its colon, as in "command:"               *)
(***************************************************************************)
EXTENDS Integers, SequencesExt

CONSTANT
  Hold  \* HOLD: what guardForward keeps back, here in letters

\* Two backticks may be the beginning of a fence.
ASSUME HoldAssumption == Hold \in Nat \ {0, 1}

Letters == {"p", "q", "w", "k", "c"}

\* The least position from which P holds, 0 if there is none.
First(P) == IF P = {} THEN 0 ELSE CHOOSE i \in P : \A j \in P : i <= j

\* text.indexOf("```")
Fence(t) == First({i \in 1..(Len(t) - 2) : \A j \in i..(i + 2) : t[j] = "k"})

\* PSEUDO_FENCE: a word on a line of its own, a key and its value up to the
\* end of what is pending; a line break before it belongs to the match.
PseudoFence(t) ==
  LET header == {i \in 1..(Len(t) - 2) :
                   /\ t[i] \in {"p", "q"} /\ t[i + 1] = "w" /\ t[i + 2] = "c"
                   /\ \A j \in (i + 3)..Len(t) : t[j] # "w"}
      i == First(header)
  IN  IF i > 1 /\ t[i - 1] = "w" THEN i - 1 ELSE i

Trim(t) ==
  LET solid == {i \in DOMAIN t : t[i] # "w"}
  IN  IF solid = {} THEN <<>>
      ELSE SubSeq(t, First(solid), CHOOSE i \in solid : \A j \in solid : j <= i)

Rest(t, n) == SubSeq(t, n + 1, Len(t))
-----------------------------------------------------------------------------
\* guardForward: the guard after a delta, and what it lets out.
Closed == [pending |-> <<>>, hit |-> FALSE]

Forward_NoHold(g, delta) ==
  IF g.hit THEN [guard |-> g, out |-> <<>>]
  ELSE LET all == g.pending \o delta
           cut == Fence(all)
           safe == IF cut = 0 THEN Len(all) ELSE cut - 1
       IN  [guard |-> [pending |-> Rest(all, safe), hit |-> cut # 0], out |-> SubSeq(all, 1, safe)]
Forward(g, delta) ==
  IF g.hit THEN [guard |-> g, out |-> <<>>]
  ELSE LET all == g.pending \o delta
           cut == IF Fence(all) # 0 THEN Fence(all) ELSE PseudoFence(all)
           safe == IF cut # 0 THEN cut - 1 ELSE IF Len(all) > Hold THEN Len(all) - Hold ELSE 0
       IN  [guard |-> [pending |-> Rest(all, safe), hit |-> cut # 0], out |-> SubSeq(all, 1, safe)]

\* The prose a tool answer carries: what precedes the first fence of the last
\* round's text, else what was streamed.
Carried(text, streamed) == IF Fence(text) > 1 THEN SubSeq(text, 1, Fence(text) - 1) ELSE streamed

\* applyStopSequences, with stop sequences of one letter.
ApplyStopSequences(text, stops) ==
  LET cut == First({i \in DOMAIN text : text[i] \in stops})
  IN  IF cut = 0 THEN text ELSE SubSeq(text, 1, cut - 1)
-----------------------------------------------------------------------------
\* The stream of handleChatCompletion: the text the client has in the end.
OpenAIText(sent, final) ==
  IF IsPrefix(sent, final) THEN final ELSE sent

(* The stream of handleAnthropicMessages: events of numbered blocks.  A    *)
(* view is the events sent so far, the next index and the open text block. *)
NoBlock == -1
Start(i) == [event |-> "start", block |-> i, text |-> <<>>]
Delta(i, t) == [event |-> "delta", block |-> i, text |-> t]
Stop(i) == [event |-> "stop", block |-> i, text |-> <<>>]
NoEvents == [events |-> <<>>, next |-> 0, open |-> NoBlock]

OpenTextBlock(v) ==
  IF v.open # NoBlock THEN v
  ELSE [events |-> Append(v.events, Start(v.next)), next |-> v.next + 1, open |-> v.next]

\* Deltas that follow each other in a block are one event here.
TextDelta(v, t) ==
  LET w == OpenTextBlock(v)
      last == Last(w.events)
  IN  IF last.event = "delta"
      THEN [w EXCEPT !.events = Append(Front(@), Delta(w.open, last.text \o t))]
      ELSE [w EXCEPT !.events = Append(@, Delta(w.open, t))]

CloseOpenBlocks_KeepsIndex(v) ==
  IF v.open = NoBlock THEN v ELSE [v EXCEPT !.events = Append(@, Stop(v.open))]
CloseOpenBlocks(v) ==
  IF v.open = NoBlock THEN v ELSE [v EXCEPT !.events = Append(@, Stop(v.open)), !.open = NoBlock]

\* Thinking and tool_use blocks are sent as a whole, one after the other:
\* three events each.
WholeEvent(next, i) ==
  LET block == next + (i - 1) \div 3
  IN  CASE i % 3 = 1 -> Start(block) [] i % 3 = 2 -> Delta(block, <<>>) [] i % 3 = 0 -> Stop(block)
WholeBlocks(v, n) ==
  [v EXCEPT !.events = @ \o [i \in 1..(3 * n) |-> WholeEvent(v.next, i)], !.next = @ + n]

WithText(v, t) == IF t = <<>> THEN v ELSE TextDelta(v, t)

RenderTools(v, sent, carried, calls, thinking) ==
  LET remainder == IF IsPrefix(sent, carried) THEN Rest(carried, Len(sent)) ELSE carried
  IN  WholeBlocks(CloseOpenBlocks(WithText(CloseOpenBlocks(v), remainder)),
                  calls + IF thinking THEN 1 ELSE 0)

RenderText_NoResend(v, sent, final, thinking) ==
  LET thought == IF thinking THEN WholeBlocks(v, 1) ELSE v IN
  CloseOpenBlocks(IF IsPrefix(sent, final) THEN WithText(thought, Rest(final, Len(sent))) ELSE thought)
RenderText(v, sent, final, thinking) ==
  LET thought == IF thinking THEN WholeBlocks(v, 1) ELSE v IN
  CloseOpenBlocks(
    IF IsPrefix(sent, final) THEN WithText(thought, Rest(final, Len(sent)))
    ELSE IF IsPrefix(final, sent) THEN thought
    ELSE WithText(CloseOpenBlocks(thought), final))

\* An error closes what is open; a disengagement is explained in a block.
RenderError(v, disengaged) ==
  IF disengaged THEN CloseOpenBlocks(TextDelta(CloseOpenBlocks(v), <<"q">>))
  ELSE CloseOpenBlocks(v)

\* What a client that concatenates the text deltas has read.
TextOf(v) ==
  FlattenSeq([i \in DOMAIN v.events |-> v.events[i].text])
-----------------------------------------------------------------------------
\* Deltas and stops belong to a block that is open, and indices are handed out
\* once, in order.
WellNested(v) ==
  \A i \in DOMAIN v.events :
    LET e == v.events[i]
        before(kind) == {j \in 1..(i - 1) : v.events[j].event = kind /\ v.events[j].block = e.block}
    IN  IF e.event = "start"
        THEN e.block = Cardinality({j \in 1..(i - 1) : v.events[j].event = "start"})
        ELSE before("start") # {} /\ before("stop") = {}

\* Every block that was started was stopped.
AllClosed(v) ==
  \A i \in DOMAIN v.events : v.events[i].event = "start" =>
    \E j \in DOMAIN v.events : v.events[j].event = "stop" /\ v.events[j].block = v.events[i].block
=============================================================================
