------------------------------ MODULE TurnGate ------------------------------
(***************************************************************************)
(* The concurrency gate of packages/proxy-lib/src/gate.ts.                  *)
(*                                                                         *)
(* A caller runs a turn through TurnGate.run(conversationKey, fn): acquire  *)
(* a slot, run fn, release the slot.  JavaScript runs one caller at a time *)
(* between two awaits, so every action below is one uninterrupted stretch  *)
(* of code; what interleaves is the callers' resumptions, the timers and   *)
(* the settlement of fn.                                                   *)
(*                                                                         *)
(* Time is relative: sinceStart is Date.now() - lastStartAt, saturated at  *)
(* Gap, beyond which the code cannot tell the difference.  lastStartAt = 0 *)
(* ("no turn yet") reads as a start long ago, which is how each of its     *)
(* uses in the code treats it.                                             *)
(*                                                                         *)
(* A definition Name_Variant is a faulty variant of Name, which some       *)
(* property below must tell from the code.                                 *)
(***************************************************************************)
EXTENDS Integers, FiniteSets, SequencesExt

CONSTANTS
  Callers,        \* the tasks that call run(), again and again
  Keys,           \* conversation keys
  NoKey,          \* the key of a caller that has no turn
  ConfiguredMax,  \* M365_MAX_CONCURRENT_TURNS, or NaN when it is no number
  NaN,
  Gap,            \* minConversationGapMs, in clock ticks
  ClockSlip       \* most ticks between the two clock reads of one attempt

ASSUME GateAssumption ==
  /\ IsFiniteSet(Callers)
  /\ NoKey \notin Keys
  /\ NaN \notin Nat
  /\ ConfiguredMax \in Nat \cup {NaN}
  /\ Gap \in Nat
  /\ ClockSlip \in Nat

VARIABLES
  inflight,    \* slots taken, as the gate counts them
  sinceStart,  \* age of lastStartAt
  seen,        \* conversations that have started a turn
  waiters,     \* the insertion-ordered set of wakers
  timer,       \* ticks until a sleeping caller's timeout, or NoTimer
  pc,          \* where each caller is
  key,         \* the conversation of the caller's turn
  isNew,       \* the isNew that acquire() computed once, on entry
  sinceFirst   \* history: age of the last FIRST turn of a conversation

vars == <<inflight, sinceStart, seen, waiters, timer, pc, key, isNew, sinceFirst>>

NoTimer == -1

Holders == {c \in Callers : pc[c] = "running"}
Sleepers == {c \in Callers : pc[c] = "waiting"}
Woken == {c \in Callers : pc[c] = "woken"}

TypeOK ==
  /\ inflight \in Nat
  /\ sinceStart \in 0..Gap
  /\ seen \in SUBSET Keys
  /\ waiters \in Seq(Callers)
  /\ timer \in [Callers -> {NoTimer} \cup 0..Gap]
  /\ pc \in [Callers -> {"idle", "waiting", "woken", "running"}]
  /\ key \in [Callers -> Keys \cup {NoKey}]
  /\ isNew \in [Callers -> BOOLEAN]
  /\ sinceFirst \in 0..Gap

Init ==
  /\ inflight = 0
  /\ sinceStart = Gap
  /\ seen = {}
  /\ waiters = <<>>
  /\ timer = [c \in Callers |-> NoTimer]
  /\ pc = [c \in Callers |-> "idle"]
  /\ key = [c \in Callers |-> NoKey]
  /\ isNew = [c \in Callers |-> FALSE]
  /\ sinceFirst = Gap
-----------------------------------------------------------------------------
(* The passing of d ticks. *)

Aged(age, d) == IF age + d < Gap THEN age + d ELSE Gap

Left(t, d) == CASE t = NoTimer -> NoTimer
                [] t # NoTimer /\ t > d -> t - d
                [] OTHER -> 0

Elapse(d) ==
  /\ sinceStart' = Aged(sinceStart, d)
  /\ sinceFirst' = Aged(sinceFirst, d)
-----------------------------------------------------------------------------
(* tryProceed: a slot is free and, for a new conversation, the gap is over. *)

MaxConcurrent == IF ConfiguredMax # NaN /\ ConfiguredMax > 1 THEN ConfiguredMax ELSE 1

\* inflight >= NaN is false: an unreadable limit is no limit.
SlotFree_OffByOne == ConfiguredMax = NaN \/ inflight <= MaxConcurrent
SlotFree == ConfiguredMax = NaN \/ inflight < MaxConcurrent

GapOver_Half(k) == k \in seen \/ sinceStart + 1 >= Gap
GapOver(k) == k \in seen \/ sinceStart >= Gap

MayProceed(k) == SlotFree /\ GapOver(k)

Proceed(c, k) ==
  /\ MayProceed(k)
  /\ inflight' = inflight + 1
  /\ sinceStart' = 0
  /\ seen' = seen \cup {k}
  /\ sinceFirst' = IF k \in seen THEN sinceFirst ELSE 0
  /\ pc' = [pc EXCEPT ![c] = "running"]
  /\ UNCHANGED <<waiters, timer>>

\* The refused caller reads the clock a second time to size its timeout, up
\* to ClockSlip ticks after tryProceed read it: a remainder of zero or less
\* arms no timer.
Remaining_Unarmed(new, slip) == 0
Remaining(new, slip) == IF new THEN Gap - Aged(sinceStart, slip) ELSE 0

Sleep(c, k, new) ==
  \E slip \in 0..ClockSlip :
    LET left == Remaining(new, slip) IN
    /\ ~MayProceed(k)
    /\ Elapse(slip)
    /\ waiters' = Append(waiters, c)
    /\ timer' = [x \in Callers |-> IF x = c
                                   THEN IF left > 0 THEN left ELSE NoTimer
                                   ELSE Left(timer[x], slip)]
    /\ pc' = [pc EXCEPT ![c] = "waiting"]
    /\ UNCHANGED <<inflight, seen>>

Attempt(c, k, new) == Proceed(c, k) \/ Sleep(c, k, new)
-----------------------------------------------------------------------------
(* The actions. *)

\* run() up to its first suspension.
Call(c, k) ==
  /\ pc[c] = "idle"
  /\ key' = [key EXCEPT ![c] = k]
  /\ isNew' = [isNew EXCEPT ![c] = k \notin seen]
  /\ Attempt(c, k, k \notin seen)

\* The loop of acquire() goes round after its sleep ended.
Resume(c) ==
  /\ pc[c] = "woken"
  /\ Attempt(c, key[c], isNew[c])
  /\ UNCHANGED <<key, isNew>>

\* A sleeper's timeout expires: its waker is withdrawn, its sleep ends.
TimerFires(c) ==
  /\ timer[c] = 0
  /\ \E i \in DOMAIN waiters :
       waiters[i] = c /\ waiters' = RemoveAt(waiters, i)
  /\ timer' = [timer EXCEPT ![c] = NoTimer]
  /\ pc' = [pc EXCEPT ![c] = "woken"]
  /\ UNCHANGED <<inflight, sinceStart, seen, key, isNew, sinceFirst>>

\* The head of the set is woken, whatever it waits for.
WakeHead_Forgotten(asIdle) == pc' = asIdle /\ UNCHANGED <<waiters, timer>>
WakeHead(asIdle) ==
  IF waiters = <<>>
  THEN pc' = asIdle /\ UNCHANGED <<waiters, timer>>
  ELSE /\ pc' = [asIdle EXCEPT ![Head(waiters)] = "woken"]
       /\ waiters' = Tail(waiters)
       /\ timer' = [timer EXCEPT ![Head(waiters)] = NoTimer]

\* fn settles, whether it resolves or throws, and run() releases the slot.
Finish(c) ==
  /\ pc[c] = "running"
  /\ inflight' = IF inflight > 0 THEN inflight - 1 ELSE 0
  /\ WakeHead([pc EXCEPT ![c] = "idle"])
  /\ key' = [key EXCEPT ![c] = NoKey]
  /\ isNew' = [isNew EXCEPT ![c] = FALSE]
  /\ UNCHANGED <<sinceStart, seen, sinceFirst>>

Tick ==
  /\ Elapse(1)
  /\ timer' = [c \in Callers |-> Left(timer[c], 1)]
  /\ UNCHANGED <<inflight, seen, waiters, pc, key, isNew>>

Next ==
  \/ \E c \in Callers :
       \/ \E k \in Keys : Call(c, k)
       \/ Resume(c)
       \/ TimerFires(c)
       \/ Finish(c)
  \/ Tick

Spec == Init /\ [][Next]_vars

\* The event loop runs what is due, the clock advances, and turns end.
Fairness ==
  /\ WF_vars(Tick)
  /\ \A c \in Callers :
       WF_vars(Resume(c)) /\ WF_vars(TimerFires(c)) /\ WF_vars(Finish(c))

FairSpec == Spec /\ Fairness
-----------------------------------------------------------------------------
(* Properties. *)

\* The gate's count is the number of turns that hold a slot, through every
\* interleaving of wakers, timers and releases, and never exceeds the limit
\* ("how many turns may be in flight at once", gate.ts:12).
SlotBound ==
  /\ inflight = Cardinality(Holders)
  /\ inflight <= MaxConcurrent

\* The stampede guard (gate.ts:15): the first turns of two conversations
\* never start within Gap of each other, whoever was woken in between.
StampedeGuard ==
  [][\A k \in Keys : k \in seen' \ seen => sinceFirst = Gap]_vars

\* Whoever sleeps while nobody holds a slot will be woken: some caller is
\* about to run, or a timeout is armed (gate.ts:76, 110).
NoStrandedWaiter ==
  waiters # <<>> /\ Holders = {} =>
    Woken # {} \/ \E c \in Sleepers : timer[c] # NoTimer

\* The inductive invariant behind the two invariants above, for any ClockSlip:
\* the waker set holds each sleeper exactly once, only sleepers have a timeout,
\* a turn that entered as a follow-up still is one, and lastStartAt is never
\* older than the last first turn.  With one clock read per attempt
\* (ClockSlip = 0) no waiter is stranded either.
GateInv ==
  /\ TypeOK
  /\ inflight = Cardinality(Holders)
  /\ ConfiguredMax # NaN => inflight <= MaxConcurrent
  /\ sinceStart <= sinceFirst
  /\ \A c \in Callers : pc[c] = "waiting" <=> \E i \in DOMAIN waiters : waiters[i] = c
  /\ \A i, j \in DOMAIN waiters : waiters[i] = waiters[j] => i = j
  /\ \A c \in Callers : pc[c] # "waiting" => timer[c] = NoTimer
  /\ \A c \in Callers : pc[c] # "idle" => key[c] \in Keys
  /\ \A c \in Callers : pc[c] # "idle" /\ ~isNew[c] => key[c] \in seen
  /\ ClockSlip = 0 => NoStrandedWaiter

\* If callers wait then a turn starts eventually.
GateProgress == waiters # <<>> ~> Holders # {}
=============================================================================
