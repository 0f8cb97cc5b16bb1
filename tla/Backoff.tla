------------------------------ MODULE Backoff ------------------------------
(***************************************************************************)
(* The degradation backoff (packages/core/src/auth-recovery.ts): one       *)
(* controller for all requests of the process.  A request waits for its    *)
(* slot once, before its first turn, and reports how it ended              *)
(* (packages/proxy-lib/src/handler.ts, runBuffered).                       *)
(*                                                                         *)
(* Time is relative.  Of the list of empties only the youngest of each     *)
(* conversation counts, and only its age; `left` is backoffUntil - now().  *)
(* The level is kept as the cooldown it stands for: 0 for level 0.         *)
(***************************************************************************)
EXTENDS Integers, FiniteSets

CONSTANTS
  Callers, Convs, NoConv,
  WindowMs, Threshold, BaseCooldown, MaxCooldown,
  JitterMin, JitterMax

ASSUME BackoffAssumption ==
  /\ IsFiniteSet(Convs) /\ NoConv \notin Convs
  /\ WindowMs \in Nat \ {0} /\ Threshold \in Nat \ {0}
  /\ BaseCooldown \in Nat \ {0} /\ MaxCooldown \in Nat \ {0}
  /\ JitterMin \in Nat /\ JitterMax \in Nat

VARIABLES
  age,       \* of each conversation's last empty in the list; WindowMs if it has none
  left,      \* how long the backoff still lasts
  cooldown,  \* the cooldown of the current level
  conv,      \* the conversation of each request under way
  pace,     \* "idle", "napping" or "turn"
  nap,       \* how long the request still sleeps
  reporters  \* history: conversations whose empties came after the last trigger or success

backoffVars == <<age, left, cooldown, conv, pace, nap, reporters>>

Smaller(a, b) == IF a <= b THEN a ELSE b

BackoffTypeOK ==
  /\ age \in [Convs -> 0..WindowMs]
  /\ left \in 0..MaxCooldown /\ cooldown \in 0..MaxCooldown
  /\ left <= cooldown
  /\ conv \in [Callers -> Convs \cup {NoConv}]
  /\ pace \in [Callers -> {"idle", "napping", "turn"}]
  /\ nap \in [Callers -> Nat]
  /\ reporters \subseteq Convs

BackoffInit ==
  /\ age = [c \in Convs |-> WindowMs]
  /\ left = 0 /\ cooldown = 0
  /\ conv = [r \in Callers |-> NoConv]
  /\ pace = [r \in Callers |-> "idle"] /\ nap = [r \in Callers |-> 0]
  /\ reporters = {}
-----------------------------------------------------------------------------
\* What waitForSlot may choose to sleep.
Delays == {Smaller(left, jitter) : jitter \in JitterMin..(IF JitterMax < JitterMin THEN JitterMin ELSE JitterMax)}

\* A request of conversation c asks for its slot: at once when healthy.
WaitForSlot(r, c) ==
  /\ pace[r] = "idle"
  /\ conv' = [conv EXCEPT ![r] = c]
  /\ \E delay \in Delays :
       /\ nap' = [nap EXCEPT ![r] = delay]
       /\ pace' = [pace EXCEPT ![r] = IF delay > 0 THEN "napping" ELSE "turn"]
  /\ UNCHANGED <<age, left, cooldown, reporters>>

\* The sleep is over; the request goes on without another look at the controller.
Wake_Rechecks(r) ==
  /\ pace[r] = "napping" /\ nap[r] = 0 /\ left = 0
  /\ pace' = [pace EXCEPT ![r] = "turn"]
  /\ UNCHANGED <<age, left, cooldown, conv, nap, reporters>>

Wake(r) ==
  /\ pace[r] = "napping" /\ nap[r] = 0
  /\ pace' = [pace EXCEPT ![r] = "turn"]
  /\ UNCHANGED <<age, left, cooldown, conv, nap, reporters>>

\* note(false, c): the streak, the backoff and the level are over.
NoteClean ==
  /\ age' = [c \in Convs |-> WindowMs]
  /\ left' = 0 /\ cooldown' = 0
  /\ reporters' = {}

\* note(true, c): the empty joins the list, and enough distinct conversations in the
\* window open the backoff, unless it is open.
NoteEmpty_Stacks(c) ==
  LET noted == [age EXCEPT ![c] = 0]
      distinct == {d \in Convs : noted[d] < WindowMs}
      longer == Smaller(IF cooldown = 0 THEN BaseCooldown ELSE 2 * cooldown, MaxCooldown)
  IN  IF Cardinality(distinct) < Threshold
      THEN age' = noted /\ reporters' = reporters \cup {c} /\ UNCHANGED <<left, cooldown>>
      ELSE /\ age' = [d \in Convs |-> WindowMs] /\ reporters' = {}
           /\ cooldown' = longer /\ left' = longer

NoteEmpty_KeepsList(c) ==
  LET noted == [age EXCEPT ![c] = 0]
      distinct == {d \in Convs : noted[d] < WindowMs}
      longer == Smaller(IF cooldown = 0 THEN BaseCooldown ELSE 2 * cooldown, MaxCooldown)
  IN  IF Cardinality(distinct) < Threshold \/ left > 0
      THEN age' = noted /\ reporters' = reporters \cup {c} /\ UNCHANGED <<left, cooldown>>
      ELSE /\ age' = noted /\ reporters' = {}
           /\ cooldown' = longer /\ left' = longer

NoteEmpty(c) ==
  LET noted == [age EXCEPT ![c] = 0]
      distinct == {d \in Convs : noted[d] < WindowMs}
      longer == Smaller(IF cooldown = 0 THEN BaseCooldown ELSE 2 * cooldown, MaxCooldown)
  IN  IF Cardinality(distinct) < Threshold \/ left > 0
      THEN age' = noted /\ reporters' = reporters \cup {c} /\ UNCHANGED <<left, cooldown>>
      ELSE /\ age' = [d \in Convs |-> WindowMs] /\ reporters' = {}
           /\ cooldown' = longer /\ left' = longer

\* The request's last turn is over: with content, empty after all retries, or with an
\* error the controller is not told of.
Report(r, outcome) ==
  /\ pace[r] = "turn"
  /\ CASE outcome = "content" -> NoteClean
       [] outcome = "empty" -> NoteEmpty(conv[r])
       [] OTHER -> UNCHANGED <<age, left, cooldown, reporters>>
  /\ pace' = [pace EXCEPT ![r] = "idle"] /\ conv' = [conv EXCEPT ![r] = NoConv]
  /\ UNCHANGED nap

BackoffTick ==
  /\ \/ left > 0
     \/ \E c \in Convs : age[c] < WindowMs
     \/ \E r \in Callers : nap[r] > 0
  /\ age' = [c \in Convs |-> Smaller(age[c] + 1, WindowMs)]
  /\ left' = IF left > 0 THEN left - 1 ELSE 0
  /\ nap' = [r \in Callers |-> IF nap[r] > 0 THEN nap[r] - 1 ELSE 0]
  /\ UNCHANGED <<cooldown, conv, pace, reporters>>

BackoffNext ==
  \/ \E r \in Callers :
       \/ \E c \in Convs : WaitForSlot(r, c)
       \/ Wake(r)
       \/ \E outcome \in {"content", "empty", "other"} : Report(r, outcome)
  \/ BackoffTick

BackoffSpec == BackoffInit /\ [][BackoffNext]_backoffVars

\* Timers fire and the clock advances.  Nothing is asked of the turns under way.
FairBackoffSpec ==
  /\ BackoffSpec /\ WF_backoffVars(BackoffTick)
  /\ \A r \in Callers : WF_backoffVars(Wake(r))
-----------------------------------------------------------------------------
(* Properties. *)

\* "a burst of empties doesn't stack the delay": the backoff is made longer only when
\* it is over, and only by empties of Threshold distinct conversations that all came
\* after the last trigger and the last content, so that one long conversation alone
\* never opens it and old evidence never escalates it (auth-recovery.ts 16-30, 93-108).
FreshEvidence ==
  [][left' > left =>
       /\ left = 0
       /\ \E r \in Callers :
            /\ pace[r] = "turn" /\ pace'[r] = "idle"
            /\ Cardinality(reporters \cup {conv[r]}) >= Threshold]_backoffVars

\* Everything the controller counts was reported after the last trigger and the last
\* content, nobody sleeps longer than the longest cooldown whatever the jitter is
\* configured to, and what is left never exceeds the level's cooldown.
BackoffInv ==
  /\ BackoffTypeOK
  /\ {c \in Convs : age[c] < WindowMs} \subseteq reporters
  /\ \A r \in Callers : nap[r] <= MaxCooldown /\ (nap[r] > 0 => pace[r] = "napping")
  /\ \A r \in Callers : pace[r] # "idle" <=> conv[r] \in Convs

\* Pacing delays a request and never blocks it.
PacedStarts == \A r \in Callers : pace[r] = "napping" ~> pace[r] = "turn"
=============================================================================
