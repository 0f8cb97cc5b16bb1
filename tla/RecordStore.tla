---------------------------- MODULE RecordStore ----------------------------
(***************************************************************************)
(* What a session store promises, whatever it writes to: one record per    *)
(* key; an answer is the record put last, or nothing once it was deleted,  *)
(* expired, or was the least recently used of a full store; a process that *)
(* starts finds what was kept, or nothing at all.  No earlier record of a  *)
(* key comes back but the one that was kept.                               *)
(***************************************************************************)
EXTENDS StoreMaps

VARIABLES
  live,    \* what the process would answer
  kept,    \* what the next process can find
  now,
  answer   \* of the last get

storeVars == <<live, kept, now, answer>>

Init == live = Nothing /\ kept = Nothing /\ now = 0 /\ answer = NoRecord

\* An error reads as no record.
Get(k) == answer' \in {live[k], NoRecord} /\ UNCHANGED <<live, kept, now>>

\* When an eviction fails the store stays too large.
Put(k, v) ==
  LET put == [live EXCEPT ![k] = [value |-> v, used |-> now]] IN
  /\ \E E \in Evictions(put) \cup {{}} : live' = Without(put, E)
  /\ kept' \in {kept, live'} /\ UNCHANGED <<now, answer>>

Delete(k) ==
  /\ live' = Without(live, {k}) /\ kept' \in {kept, live'} /\ UNCHANGED <<now, answer>>

Keep == kept' = live /\ UNCHANGED <<live, now, answer>>
Stop == live' = Nothing /\ kept' \in {kept, live} /\ UNCHANGED <<now, answer>>
Start == live = Nothing /\ live' \in {kept, Nothing} /\ UNCHANGED <<kept, now, answer>>

Tick ==
  /\ now' = now + 1 /\ live' = Fresh(live, now') /\ kept' = Fresh(kept, now')
  /\ UNCHANGED answer

Next ==
  \/ \E k \in Keys : Get(k) \/ Delete(k) \/ (\E v \in Values : Put(k, v))
  \/ Keep \/ Stop \/ Start \/ Tick

Spec == Init /\ [][Next]_storeVars
=============================================================================
