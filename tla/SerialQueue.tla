---------------------------- MODULE SerialQueue ----------------------------
(***************************************************************************)
(* What "strict FIFO order" promises (turn-queue.ts:19-23): turns run one  *)
(* at a time, in the order they arrived.                                   *)
(***************************************************************************)
EXTENDS Integers, Sequences

CONSTANT Turns

VARIABLES
  order,  \* the turns, as they arrived
  state   \* "absent", "waiting", "active" or "over"

Init ==
  /\ order = <<>>
  /\ state = [j \in Turns |-> "absent"]

Arrive(j) ==
  /\ state[j] = "absent"
  /\ state' = [state EXCEPT ![j] = "waiting"]
  /\ order' = Append(order, j)

\* Everybody who came earlier is over, and nobody else is active.
Begin(j) ==
  /\ state[j] = "waiting"
  /\ \A k \in Turns : state[k] # "active"
  /\ \E n \in DOMAIN order : order[n] = j /\ \A m \in 1..(n - 1) : state[order[m]] = "over"
  /\ state' = [state EXCEPT ![j] = "active"]
  /\ UNCHANGED order

End(j) ==
  /\ state[j] = "active"
  /\ state' = [state EXCEPT ![j] = "over"]
  /\ UNCHANGED order

Next == \E j \in Turns : Arrive(j) \/ Begin(j) \/ End(j)

Spec == Init /\ [][Next]_<<order, state>>
=============================================================================
