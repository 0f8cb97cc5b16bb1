------------------------- MODULE TurnPipelineProofs -------------------------
(***************************************************************************)
(* The turn queue and the requests that pass it.  First, the chain of      *)
(* promises is a queue: for any number of turns, with any of them          *)
(* rejecting and any of them bypassing it.  Then, what the pipeline of     *)
(* queue, gate and retries keeps, for any requests, keys, limit and number *)
(* of retries.                                                             *)
(***************************************************************************)
EXTENDS TurnQueue, TurnPipeline, FiniteSetTheorems, SequenceTheorems, TLAPS

LEMMA UncountedFinite == IsFiniteSet(Uncounted) /\ Cardinality(Uncounted) \in Nat
<1>1. Uncounted \subseteq Calls
  BY DEF Uncounted
<1>2. QED
  BY <1>1, QueueAssumption, FS_Subset, FS_CardinalityType

LEMMA ChainInvInit == QueueInit => ChainInv
<1> SUFFICES ASSUME QueueInit PROVE ChainInv
  OBVIOUS
<1>1. QueueTypeOK
  BY DEF QueueInit, QueueTypeOK
<1>2. Uncounted = {} /\ Cardinality({}) = 0
  BY FS_EmptySet DEF QueueInit, Uncounted
<1>3. QED
  BY <1>1, <1>2 DEF QueueInit, ChainInv

\* Enqueueing appends a turn to the line and makes it the tail.
LEMMA EnqueueChains ==
  ASSUME ChainInv, NEW j \in Calls, EnqueueTurn(j)
  PROVE  ChainInv'
<1> DEFINE n == Len(arrivals)
<1>1. /\ arrivals \in Seq(Calls) /\ n \in Nat /\ DOMAIN arrivals = 1..n
      /\ \A m \in 1..n : arrivals[m] \in Calls
      /\ arrivals = <<>> <=> n = 0
  BY LenProperties, ElementOfSeq, EmptySeq DEF ChainInv, QueueTypeOK
<1>2. /\ arrivals' \in Seq(Calls) /\ DOMAIN arrivals' = 1..(n + 1)
      /\ \A m \in 1..n : arrivals'[m] = arrivals[m]
      /\ arrivals'[n + 1] = j /\ Len(arrivals') = n + 1
  BY <1>1, AppendProperties, LenProperties DEF EnqueueTurn
<1> HIDE DEF n
<1>3. phase[j] = "new" /\ j \notin bypassed /\ \A m \in 1..n : arrivals[m] # j
  <2>1. \A m \in DOMAIN arrivals : arrivals[m] # j
    BY DEF ChainInv, EnqueueTurn
  <2>2. QED
    BY <1>1, <2>1 DEF ChainInv, EnqueueTurn
<1>4. /\ phase' = [phase EXCEPT ![j] = "chained"]
      /\ after' = [after EXCEPT ![j] = tail]
      /\ tail' = j /\ waiting' = waiting + 1
      /\ UNCHANGED <<bypassed, rejected>>
  BY DEF EnqueueTurn
<1>5. QueueTypeOK'
  BY <1>2, <1>4 DEF ChainInv, QueueTypeOK
<1>6. \A k \in Calls : phase'[k] = IF k = j THEN "chained" ELSE phase[k]
  BY <1>4 DEF ChainInv, QueueTypeOK
<1>7. (\A k \in bypassed : phase[k] \in {"running", "gone"})'
  BY <1>3, <1>4, <1>6 DEF ChainInv, QueueTypeOK
<1>8. ASSUME NEW k \in Calls
      PROVE  (phase'[k] # "new" /\ k \notin bypassed') <=>
                \E m \in DOMAIN arrivals' : arrivals'[m] = k
  <2>1. (\E m \in 1..(n + 1) : arrivals'[m] = k)
           <=> k = j \/ \E m \in 1..n : arrivals[m] = k
    BY <1>1, <1>2
  <2>2. (phase[k] # "new" /\ k \notin bypassed) <=> \E m \in 1..n : arrivals[m] = k
    BY <1>1 DEF ChainInv
  <2>3. QED
    BY <1>2, <1>3, <1>4, <1>6, <2>1, <2>2
<1>9. (\A l, m \in DOMAIN arrivals : arrivals[l] = arrivals[m] => l = m)'
  <2>1. \A l, m \in 1..n : arrivals[l] = arrivals[m] => l = m
    BY <1>1 DEF ChainInv
  <2>2. QED
    BY <1>1, <1>2, <1>3, <2>1
<1>10. (tail = IF arrivals = <<>> THEN Root ELSE arrivals[Len(arrivals)])'
  BY <1>1, <1>2, <1>4
<1>11. ASSUME NEW m \in 1..(n + 1)
       PROVE  after'[arrivals'[m]] = IF m = 1 THEN Root ELSE arrivals'[m - 1]
  <2>1. CASE m = n + 1
    <3>1. after'[j] = tail
      BY <1>4 DEF ChainInv, QueueTypeOK
    <3>2. tail = IF n = 0 THEN Root ELSE arrivals[n]
      BY <1>1 DEF ChainInv, n
    <3>3. QED
      BY <1>1, <1>2, <2>1, <3>1, <3>2
  <2>2. CASE m # n + 1
    <3>1. m \in 1..n /\ (m # 1 => m - 1 \in 1..n)
      BY <1>1, <2>2
    <3>2. after[arrivals[m]] = IF m = 1 THEN Root ELSE arrivals[m - 1]
      BY <1>1, <3>1 DEF ChainInv
    <3>3. after'[arrivals[m]] = after[arrivals[m]]
      BY <1>1, <1>3, <1>4, <3>1 DEF ChainInv, QueueTypeOK
    <3>4. QED
      BY <1>2, <3>1, <3>2, <3>3
  <2>3. QED
    BY <2>1, <2>2
<1>12. ASSUME NEW k \in 1..(n + 1), phase'[arrivals'[k]] \in Begun,
              NEW m \in 1..(k - 1)
       PROVE  phase'[arrivals'[m]] \in Over
  <2>1. k \in 1..n /\ m \in 1..n
    <3>1. k # n + 1
      BY <1>2, <1>4, <1>6, <1>12 DEF Begun, Over
    <3>2. QED
      BY <1>1, <3>1
  <2>2. phase'[arrivals[k]] = phase[arrivals[k]] /\ phase'[arrivals[m]] = phase[arrivals[m]]
    BY <1>1, <1>3, <1>6, <2>1
  <2>3. QED
    BY <1>1, <1>2, <1>12, <2>1, <2>2 DEF ChainInv
<1>13. (waiting = Cardinality(Uncounted))'
  <2>1. Uncounted' = Uncounted \cup {j} /\ j \notin Uncounted
    BY <1>3, <1>4, <1>6 DEF Uncounted
  <2>2. QED
    BY <1>4, <2>1, UncountedFinite, FS_AddElement DEF ChainInv
<1>14. QED
  BY <1>2, <1>5, <1>7, <1>8, <1>9, <1>10, <1>11, <1>12, <1>13 DEF ChainInv

\* A turn whose predecessor has settled has only finished turns before it in
\* the line, and no other turn of the queue is running.
LEMMA StartIsSerial ==
  ASSUME ChainInv, NEW j \in Calls, Start(j)
  PROVE  /\ j \notin bypassed
         /\ \E n \in DOMAIN arrivals :
              arrivals[n] = j /\ \A m \in 1..(n - 1) : phase[arrivals[m]] \in Over
         /\ \A k \in Calls \ bypassed : phase[k] # "running"
<1>1. phase[j] = "chained" /\ Released(j) /\ j \notin bypassed
  BY DEF Start, ChainInv
<1>2. PICK n \in DOMAIN arrivals : arrivals[n] = j
  BY <1>1 DEF ChainInv
<1>3. /\ DOMAIN arrivals = 1..Len(arrivals) /\ Len(arrivals) \in Nat
      /\ \A m \in 1..Len(arrivals) : arrivals[m] \in Calls
  BY LenProperties, ElementOfSeq DEF ChainInv, QueueTypeOK
<1>4. ASSUME NEW m \in 1..(n - 1)
      PROVE  phase[arrivals[m]] \in Over
  <2>1. n # 1 /\ n - 1 \in 1..Len(arrivals) /\ m \in 1..Len(arrivals)
    BY <1>2, <1>3
  <2>2. after[j] = arrivals[n - 1] /\ after[j] # Root
    BY <1>2, <1>3, <2>1, QueueAssumption DEF ChainInv
  <2>3. phase[arrivals[n - 1]] \in Over
    BY <1>1, <2>2 DEF Released
  <2>4. CASE m = n - 1
    BY <2>3, <2>4
  <2>5. CASE m # n - 1
    <3>1. m \in 1..((n - 1) - 1)
      BY <1>2, <1>3, <2>5
    <3>2. QED
      BY <1>3, <2>1, <2>3, <3>1 DEF ChainInv, Begun
  <2>6. QED
    BY <2>4, <2>5
<1>5. ASSUME NEW k \in Calls \ bypassed, phase[k] = "running"
      PROVE  FALSE
  <2>1. PICK l \in DOMAIN arrivals : arrivals[l] = k
    BY <1>5 DEF ChainInv
  <2>2. CASE l < n
    BY <1>3, <1>4, <1>5, <2>1, <2>2 DEF Over
  <2>3. CASE l > n
    <3>1. n \in 1..(l - 1) /\ phase[arrivals[l]] \in Begun
      BY <1>2, <1>3, <1>5, <2>1, <2>3 DEF Begun
    <3>2. phase[j] \in Over
      BY <1>2, <2>1, <3>1 DEF ChainInv
    <3>3. QED
      BY <1>1, <3>2 DEF Over
  <2>4. CASE l = n
    BY <1>1, <1>2, <1>5, <2>1, <2>4
  <2>5. QED
    BY <1>2, <1>3, <2>1, <2>2, <2>3, <2>4
<1>6. QED
  BY <1>1, <1>2, <1>4, <1>5

\* A step that moves one turn on along its stages, and leaves the line alone.
\* Only a queued turn with finished turns before it may become "running".
LEMMA StageStepChains ==
  ASSUME ChainInv, NEW j \in Calls, NEW s \in Begun,
         UNCHANGED <<tail, after, arrivals>>,
         phase' = [phase EXCEPT ![j] = s],
         rejected' \in SUBSET Calls, bypassed' \in SUBSET Calls, waiting' \in Int,
         waiting' = Cardinality(Uncounted'),
         \A k \in Calls \ {j} : k \in bypassed' <=> k \in bypassed,
         phase[j] # "new" /\ j \notin bypassed <=> j \notin bypassed',
         j \in bypassed' => s \in {"running", "gone"},
         phase[j] \in Over => s \in Over,
         \/ j \in bypassed'
         \/ phase[j] \in Begun
         \/ \E n \in DOMAIN arrivals :
              arrivals[n] = j /\ \A m \in 1..(n - 1) : phase[arrivals[m]] \in Over
  PROVE  ChainInv'
<1>1. QueueTypeOK'
  BY DEF ChainInv, QueueTypeOK
<1>2. \A k \in Calls : phase'[k] = IF k = j THEN s ELSE phase[k]
  BY DEF ChainInv, QueueTypeOK
<1>3. s # "new"
  BY DEF Begun, Over
<1>4. (\A k \in bypassed : phase[k] \in {"running", "gone"})'
  BY <1>2 DEF ChainInv, QueueTypeOK
<1>5. ASSUME NEW k \in Calls
      PROVE  (phase'[k] # "new" /\ k \notin bypassed') <=>
                \E m \in DOMAIN arrivals' : arrivals'[m] = k
  BY <1>2, <1>3 DEF ChainInv
<1>6. /\ DOMAIN arrivals = 1..Len(arrivals) /\ Len(arrivals) \in Nat
      /\ \A m \in 1..Len(arrivals) : arrivals[m] \in Calls
  BY LenProperties, ElementOfSeq DEF ChainInv, QueueTypeOK
<1>7. ASSUME NEW n \in DOMAIN arrivals, phase'[arrivals[n]] \in Begun,
             NEW m \in 1..(n - 1)
      PROVE  phase'[arrivals[m]] \in Over
  <2>1. m \in 1..Len(arrivals) /\ n \in 1..Len(arrivals)
    BY <1>6
  <2>2. phase[arrivals[m]] \in Over
    <3>1. CASE phase[arrivals[n]] \in Begun
      BY <3>1, <1>7 DEF ChainInv
    <3>2. CASE phase[arrivals[n]] \notin Begun
      <4>1. arrivals[n] = j /\ j \notin bypassed'
        BY <1>2, <1>5, <1>6, <1>7, <2>1, <3>2
      <4>2. PICK l \in DOMAIN arrivals :
              arrivals[l] = j /\ \A i \in 1..(l - 1) : phase[arrivals[i]] \in Over
        BY <3>2, <4>1
      <4>3. l = n
        BY <4>1, <4>2 DEF ChainInv
      <4>4. QED
        BY <4>2, <4>3
    <3>3. QED
      BY <3>1, <3>2
  <2>3. QED
    BY <1>2, <1>6, <2>1, <2>2
<1>8. QED
  BY <1>1, <1>4, <1>5, <1>7 DEF ChainInv

LEMMA ChainInvStep == ChainInv /\ [QueueNext]_chainVars => ChainInv'
<1> SUFFICES ASSUME ChainInv, [QueueNext]_chainVars PROVE ChainInv'
  OBVIOUS
<1>1. /\ phase \in [Calls -> {"new", "chained"} \cup Begun] /\ waiting \in Int
      /\ rejected \in SUBSET Calls /\ bypassed \in SUBSET Calls
      /\ waiting = Cardinality(Uncounted)
      /\ \A k \in bypassed : phase[k] \in {"running", "gone"}
  BY DEF ChainInv, QueueTypeOK
<1>2. ASSUME NEW j \in Calls, EnqueueTurn(j)
      PROVE  ChainInv'
  BY <1>2, EnqueueChains
<1>3. ASSUME NEW j \in Calls, RunAtOnce(j)
      PROVE  ChainInv'
  <2>1. Uncounted' = Uncounted
    BY <1>1, <1>3 DEF RunAtOnce, Uncounted
  <2>2. QED
    BY <1>1, <1>3, <2>1, StageStepChains, "running" \in Begun DEF RunAtOnce, Begun, Over
<1>4. ASSUME NEW j \in Calls, Start(j)
      PROVE  ChainInv'
  <2>1. Uncounted' = Uncounted
    BY <1>1, <1>4 DEF Start, Uncounted
  <2>2. QED
    BY <1>1, <1>4, <2>1, StartIsSerial, StageStepChains DEF Start, Begun, Over
<1>5. ASSUME NEW j \in Calls, NEW ok \in BOOLEAN, Settle(j, ok)
      PROVE  ChainInv'
  <2>1. Uncounted' = Uncounted
    BY <1>1, <1>5 DEF Settle, Uncounted
  <2>2. QED
    BY <1>1, <1>5, <2>1, StageStepChains DEF Settle, Begun, Over
<1>6. ASSUME NEW j \in Calls, Uncount(j)
      PROVE  ChainInv'
  <2>1. Uncounted' = Uncounted \ {j} /\ j \in Uncounted
    BY <1>1, <1>6 DEF Uncount, Uncounted
  <2>2. waiting' = Cardinality(Uncounted')
    BY <1>1, <1>6, <2>1, UncountedFinite, FS_RemoveElement DEF Uncount
  <2>3. waiting' \in Int /\ j \notin bypassed
    BY <1>1, <1>6 DEF Uncount
  <2>4. QED
    BY <1>1, <1>6, <2>2, <2>3, StageStepChains DEF Uncount, Begun, Over
<1>7. CASE UNCHANGED chainVars
  BY <1>7 DEF chainVars, ChainInv, QueueTypeOK, Uncounted
<1>8. QED
  BY <1>2, <1>3, <1>4, <1>5, <1>6, <1>7 DEF QueueNext

\* ChainInv holds in every reachable state (turn-queue.ts:24-37).
THEOREM ChainInvariant == QueueSpec => []ChainInv
  BY ChainInvInit, ChainInvStep, PTL DEF QueueSpec

\* The chain of promises implements the strict FIFO queue (turn-queue.ts:20-21):
\* every step of the chain is a step of SerialQueue or changes nothing there.
THEOREM ChainIsSerialQueue == QueueSpec => ImplementsSerialQueue
<1> DEFINE st == [j \in Calls |-> IF j \in bypassed \/ phase[j] = "new" THEN "absent"
                                 ELSE IF phase[j] = "chained" THEN "waiting"
                                 ELSE IF phase[j] = "running" THEN "active" ELSE "over"]
<1>1. QueueInit => Serial!Init
  BY DEF QueueInit, Serial!Init
<1>2. ChainInv /\ [QueueNext]_chainVars => [Serial!Next]_<<arrivals, st>>
  <2> SUFFICES ASSUME ChainInv, [QueueNext]_chainVars
               PROVE  [Serial!Next]_<<arrivals, st>>
    OBVIOUS
  <2>1. /\ phase \in [Calls -> {"new", "chained"} \cup Begun]
        /\ \A k \in bypassed : phase[k] \in {"running", "gone"}
    BY DEF ChainInv, QueueTypeOK
  <2>2. ASSUME NEW j \in Calls, EnqueueTurn(j)
        PROVE  Serial!Arrive(j)
    BY <2>1, <2>2 DEF EnqueueTurn, Serial!Arrive
  <2>3. ASSUME NEW j \in Calls, RunAtOnce(j)
        PROVE  UNCHANGED <<arrivals, st>>
    BY <2>1, <2>3 DEF RunAtOnce
  <2>4. ASSUME NEW j \in Calls, Start(j)
        PROVE  Serial!Begin(j)
    <3>1. st[j] = "waiting" /\ st' = [st EXCEPT ![j] = "active"] /\ UNCHANGED arrivals
      BY <2>1, <2>4, StartIsSerial DEF Start
    <3>2. \A k \in Calls : st[k] # "active"
      BY <2>4, StartIsSerial
    <3>3. \E n \in DOMAIN arrivals :
             arrivals[n] = j /\ \A m \in 1..(n - 1) : st[arrivals[m]] = "over"
      <4>1. PICK n \in DOMAIN arrivals :
              arrivals[n] = j /\ \A m \in 1..(n - 1) : phase[arrivals[m]] \in Over
        BY <2>4, StartIsSerial
      <4>2. ASSUME NEW m \in 1..(n - 1)
            PROVE  st[arrivals[m]] = "over"
        <5>1. m \in DOMAIN arrivals /\ arrivals[m] \in Calls
          BY <4>1, LenProperties, ElementOfSeq DEF ChainInv, QueueTypeOK
        <5>2. arrivals[m] \notin bypassed /\ phase[arrivals[m]] \in Over
          BY <4>1, <5>1 DEF ChainInv
        <5>3. QED
          BY <5>1, <5>2 DEF Over
      <4>3. QED
        BY <4>1, <4>2
    <3>4. QED
      BY <3>1, <3>2, <3>3 DEF Serial!Begin
  <2>5. ASSUME NEW j \in Calls, NEW ok \in BOOLEAN, Settle(j, ok)
        PROVE  Serial!End(j) \/ UNCHANGED <<arrivals, st>>
    BY <2>1, <2>5 DEF Settle, Serial!End
  <2>6. ASSUME NEW j \in Calls, Uncount(j)
        PROVE  UNCHANGED <<arrivals, st>>
    BY <2>1, <2>6 DEF Uncount
  <2>7. CASE UNCHANGED chainVars
    BY <2>7 DEF chainVars
  <2>8. QED
    BY <2>2, <2>3, <2>4, <2>5, <2>6, <2>7 DEF QueueNext, Serial!Next
<1>3. QED
  BY <1>1, <1>2, ChainInvariant, PTL DEF QueueSpec, ImplementsSerialQueue, Serial!Spec
-----------------------------------------------------------------------------
(* The pipeline: its inductive invariant. *)

\* Turns a request has begun beyond its attempts: one if it was rotated.
Extra(r) == IF rotated[r] THEN 1 ELSE 0

\* The request waits for its turn, perhaps for ever.
InTurn(r) == stage[r] \in {"turn", "hung"}

\* Every turn but the current one is over or to come, and the current one is in
\* the queue for as long as the request waits for it.
Placed(r, k) ==
  /\ state[<<r, k>>] \in {"waiting", "active"} <=> InTurn(r) /\ k = turn[r]
  /\ k > turn[r] => state[<<r, k>>] = "absent"
TurnsInv == \A r \in Requests : \A k \in 1..(MaxRetries + 3) : Placed(r, k)

\* Whoever is in the gate is the queue's active turn, of which there is one, and
\* sleeps alone.
SlotInv ==
  /\ \A j \in Turns : pc[j] # "idle" <=> state[j] = "active"
  /\ \A i, j \in Turns : state[i] = "active" /\ state[j] = "active" => i = j
  /\ Len(waiters) <= 1
  /\ \A i \in DOMAIN waiters : pc[waiters[i]] = "waiting"
  /\ \A j \in Turns : pc[j] # "idle" => key[j] \in Keys

\* One turn per attempt and one for the rotation; one message per turn.
Counted(r) ==
  /\ stage[r] = "ready" => turn[r] = attempt[r] + Extra(r) /\ sends[r] = turn[r]
  /\ InTurn(r) => turn[r] = attempt[r] + Extra(r) + 1 /\ sends[r] = turn[r] - 1
  /\ stage[r] \in {"streaming", "stalled"} => turn[r] = attempt[r] + Extra(r) + 1 /\ sends[r] = turn[r]
  /\ sends[r] <= attempt[r] + Extra(r) + 1 /\ turn[r] <= attempt[r] + Extra(r) + 1
CountInv == \A r \in Requests : Counted(r)

PipelineInv == TypeOK /\ TurnsInv /\ SlotInv /\ CountInv

LEMMA TurnsFinite == IsFiniteSet(Turns)
<1>1. IsFiniteSet(1..(MaxRetries + 3))
  BY RetryAssumption, FS_Interval
<1>2. QED
  BY <1>1, PipelineAssumption, FS_Product DEF Turns

LEMMA PipelineInvInit == Init => PipelineInv
<1> SUFFICES ASSUME Init PROVE PipelineInv
  OBVIOUS
<1> USE DEF Init, Gate!Init, Queue!Init
<1>1. Gate!TypeOK
  BY PipelineAssumption DEF Gate!TypeOK, Gate!NoTimer
<1>2. TypeOK
  BY <1>1, RetryAssumption DEF TypeOK, Stages
<1>3. TurnsInv
  BY RetryAssumption DEF TurnsInv, Placed, InTurn, Turns
<1>4. SlotInv
  BY DEF SlotInv
<1>5. CountInv
  BY RetryAssumption DEF CountInv, Counted, InTurn, Extra
<1>6. QED
  BY <1>2, <1>3, <1>4, <1>5 DEF PipelineInv
-----------------------------------------------------------------------------
(* What the gate's operations do while nobody else is in the gate. *)

LEMMA LeftInRange ==
  ASSUME NEW t \in {Gate!NoTimer} \cup 0..Gap, NEW d \in Nat
  PROVE  Gate!Left(t, d) \in {Gate!NoTimer} \cup 0..Gap
  BY PipelineAssumption DEF Gate!Left, Gate!NoTimer

\* The only caller gets its slot, or is the only sleeper.
LEMMA AttemptAlone ==
  ASSUME Gate!TypeOK, waiters = <<>>,
         NEW c \in Turns, NEW k \in Keys, NEW new \in BOOLEAN,
         key' = [key EXCEPT ![c] = k], isNew' = [isNew EXCEPT ![c] = new],
         Gate!Attempt(c, k, new)
  PROVE  /\ Gate!TypeOK'
         /\ \/ pc' = [pc EXCEPT ![c] = "running"] /\ waiters' = <<>>
            \/ pc' = [pc EXCEPT ![c] = "waiting"] /\ waiters' = <<c>>
<1> USE PipelineAssumption
<1>1. CASE Gate!Proceed(c, k)
  BY <1>1 DEF Gate!Proceed, Gate!TypeOK
<1>2. CASE Gate!Sleep(c, k, new)
  <2>1. PICK slip \in 0..ClockSlip :
          /\ Gate!Elapse(slip)
          /\ waiters' = Append(waiters, c)
          /\ timer' = [x \in Turns |-> IF x = c
                THEN IF Gate!Remaining(new, slip) > 0 THEN Gate!Remaining(new, slip) ELSE Gate!NoTimer
                ELSE Gate!Left(timer[x], slip)]
          /\ pc' = [pc EXCEPT ![c] = "waiting"]
          /\ UNCHANGED <<inflight, seen>>
    BY <1>2 DEF Gate!Sleep
  <2>2. slip \in Nat
    OBVIOUS
  <2>3. sinceStart' \in 0..Gap /\ sinceFirst' \in 0..Gap
    BY <2>1, <2>2 DEF Gate!Elapse, Gate!Aged, Gate!TypeOK
  <2>4. Gate!Remaining(new, slip) \in 0..Gap
    BY <2>2 DEF Gate!Remaining, Gate!Aged, Gate!TypeOK
  <2>5. timer' \in [Turns -> {Gate!NoTimer} \cup 0..Gap]
    BY <2>1, <2>2, <2>4, LeftInRange DEF Gate!TypeOK
  <2>6. waiters' = <<c>>
    BY <2>1
  <2>7. QED
    BY <2>1, <2>3, <2>5, <2>6 DEF Gate!TypeOK
<1>3. QED
  BY <1>1, <1>2 DEF Gate!Attempt

\* The release of the only caller wakes nobody.
LEMMA FinishAlone ==
  ASSUME Gate!TypeOK, waiters = <<>>, NEW c \in Turns, Gate!Finish(c)
  PROVE  Gate!TypeOK' /\ pc' = [pc EXCEPT ![c] = "idle"] /\ waiters' = <<>>
<1>1. pc' = [pc EXCEPT ![c] = "idle"] /\ UNCHANGED <<waiters, timer>>
  BY DEF Gate!Finish, Gate!WakeHead
<1>2. QED
  BY <1>1 DEF Gate!Finish, Gate!TypeOK

\* The timeout of the only sleeper leaves an empty waker set.
LEMMA TimerFiresAlone ==
  ASSUME Gate!TypeOK, Len(waiters) <= 1, NEW c \in Turns, Gate!TimerFires(c)
  PROVE  Gate!TypeOK' /\ pc' = [pc EXCEPT ![c] = "woken"] /\ waiters' = <<>>
<1>1. PICK i \in DOMAIN waiters : waiters[i] = c /\ waiters' = Gate!RemoveAt(waiters, i)
  BY DEF Gate!TimerFires
<1>2. waiters \in Seq(Turns) /\ i = 1 /\ Len(waiters) = 1
  <2>1. waiters \in Seq(Turns) /\ Len(waiters) \in Nat /\ DOMAIN waiters = 1..Len(waiters)
    BY LenProperties DEF Gate!TypeOK
  <2>2. QED
    BY <1>1, <2>1
<1>3. waiters' = <<>>
  <2>1. waiters' = SubSeq(waiters, 1, 0) \o SubSeq(waiters, 2, 1)
    BY <1>1, <1>2 DEF Gate!RemoveAt
  <2>2. SubSeq(waiters, 1, 0) = <<>> /\ SubSeq(waiters, 2, 1) = <<>>
    BY <1>2, SubSeqEmpty
  <2>3. QED
    BY <2>1, <2>2
<1>4. QED
  BY <1>3 DEF Gate!TimerFires, Gate!TypeOK
-----------------------------------------------------------------------------
(* The pipeline's steps. *)

\* A turn in the gate is its request's current one, and nobody else is there.
LEMMA CurrentAlone ==
  ASSUME PipelineInv, NEW r \in Requests, stage[r] = "turn"
  PROVE  /\ Current(r) \in Turns /\ state[Current(r)] \in {"waiting", "active"}
         /\ pc[Current(r)] # "idle" =>
              \A j \in Turns : j # Current(r) => pc[j] = "idle" /\ state[j] # "active"
         /\ pc[Current(r)] # "waiting" /\ (\A j \in Turns : j # Current(r) => pc[j] = "idle")
              => waiters = <<>>
<1> USE DEF PipelineInv
<1>1. turn[r] \in 1..(MaxRetries + 3)
  BY RetryAssumption DEF CountInv, Counted, InTurn, Extra, TypeOK
<1>2. Current(r) \in Turns /\ state[Current(r)] \in {"waiting", "active"}
  BY <1>1 DEF Current, Turns, TurnsInv, Placed, InTurn
<1>3. ASSUME pc[Current(r)] # "idle", NEW j \in Turns, j # Current(r)
      PROVE  pc[j] = "idle" /\ state[j] # "active"
  BY <1>2, <1>3 DEF SlotInv
<1>4. ASSUME pc[Current(r)] # "waiting", \A j \in Turns : j # Current(r) => pc[j] = "idle"
      PROVE  waiters = <<>>
  <2>1. waiters \in Seq(Turns) /\ Len(waiters) \in Nat /\ DOMAIN waiters = 1..Len(waiters)
    BY LenProperties DEF TypeOK, Gate!TypeOK
  <2>2. ASSUME NEW i \in DOMAIN waiters PROVE FALSE
    <3>1. waiters[i] \in Turns /\ pc[waiters[i]] = "waiting"
      BY <2>1, ElementOfSeq DEF SlotInv
    <3>2. QED
      BY <3>1, <1>4
  <2>3. Len(waiters) = 0
    BY <2>1, <2>2
  <2>4. QED
    BY <2>1, <2>3, EmptySeq
<1>5. QED
  BY <1>2, <1>3, <1>4

LEMMA EnqueueKeeps ==
  ASSUME PipelineInv, NEW r \in Requests, Enqueue(r)
  PROVE  PipelineInv'
<1> USE DEF PipelineInv, Enqueue, Queue!Arrive
<1> DEFINE j == <<r, turn[r] + 1>>
<1>1. turn[r] \in 0..(MaxRetries + 1) /\ attempt[r] \in 0..MaxRetries /\ sends[r] \in Nat
      /\ turn[r] = attempt[r] + Extra(r) /\ Extra(r) \in 0..1
  BY RetryAssumption DEF CountInv, Counted, TypeOK, Extra
<1>2. j \in Turns
  BY <1>1, RetryAssumption DEF Turns
<1>3. Gate!TypeOK'
  BY DEF TypeOK, Gate!TypeOK, gateVars
<1>4. order' \in Seq(Turns)
  BY <1>2, AppendProperties DEF TypeOK
<1>5. TypeOK'
  BY <1>1, <1>2, <1>3, <1>4, RetryAssumption DEF TypeOK, Stages
<1>6. \A k \in Turns : state'[k] = IF k = j THEN "waiting" ELSE state[k]
  BY <1>2 DEF TypeOK
<1>7. /\ \A q \in Requests : turn'[q] = IF q = r THEN turn[r] + 1 ELSE turn[q]
      /\ \A q \in Requests : stage'[q] = IF q = r THEN "turn" ELSE stage[q]
  BY DEF TypeOK
<1>8. TurnsInv'
  <2> SUFFICES ASSUME NEW q \in Requests, NEW k \in 1..(MaxRetries + 3)
               PROVE  Placed(q, k)'
    BY DEF TurnsInv
  <2>1. <<q, k>> \in Turns /\ Placed(q, k)
    BY DEF Turns, TurnsInv
  <2>2. CASE q # r
    BY <1>6, <1>7, <2>1, <2>2 DEF Placed, InTurn
  <2>3. CASE q = r
    BY <1>1, <1>6, <1>7, <2>1, <2>3 DEF Placed, InTurn
  <2>4. QED
    BY <2>2, <2>3
<1>9. SlotInv'
  <2>1. \A k \in Turns : state'[k] = "active" <=> state[k] = "active"
    BY <1>6, <1>2
  <2>2. QED
    BY <2>1 DEF SlotInv, gateVars
<1>10. CountInv'
  <2> SUFFICES ASSUME NEW q \in Requests PROVE Counted(q)'
    BY DEF CountInv
  <2>1. UNCHANGED <<attempt, rotated, sends>>
    OBVIOUS
  <2>2. QED
    BY <1>1, <1>7, <2>1 DEF CountInv, Counted, InTurn, Extra
<1>11. QED
  BY <1>5, <1>8, <1>9, <1>10
\* A set of at most one waker.
LEMMA AtMostOneWaker ==
  ASSUME NEW w, NEW c, NEW f, w = <<>> \/ (w = <<c>> /\ f[c] = "waiting")
  PROVE  Len(w) <= 1 /\ \A i \in DOMAIN w : f[w[i]] = "waiting"
<1>1. CASE w = <<>>
  BY <1>1, EmptySeq
<1>2. CASE w = <<c>> /\ f[c] = "waiting"
  <2>1. Len(w) = 1 /\ DOMAIN w = {1} /\ w[1] = c
    BY <1>2
  <2>2. QED
    BY <1>2, <2>1
<1>3. QED
  BY <1>1, <1>2

\* A step of the gate that leaves its only caller in the gate.
LEMMA InsideKeeps ==
  ASSUME PipelineInv, NEW r \in Requests, stage[r] = "turn", state[Current(r)] = "active",
         UNCHANGED <<queueVars, requestVars>>, Gate!TypeOK',
         NEW where \in {"woken", "running", "waiting"}, pc' = [pc EXCEPT ![Current(r)] = where],
         waiters' = <<>> \/ (waiters' = <<Current(r)>> /\ where = "waiting"),
         key'[Current(r)] \in Keys, \A j \in Turns : j # Current(r) => key'[j] = key[j]
  PROVE  PipelineInv'
<1> USE DEF PipelineInv
<1> DEFINE c == Current(r)
<1>1. c \in Turns /\ \A j \in Turns : pc'[j] = IF j = c THEN where ELSE pc[j]
  BY CurrentAlone DEF TypeOK, Gate!TypeOK
<1> HIDE DEF c
<1>2. TypeOK'
  BY DEF TypeOK, queueVars, requestVars
<1>3. TurnsInv'
  BY DEF TurnsInv, Placed, InTurn, queueVars, requestVars
<1>4. CountInv'
  BY DEF CountInv, Counted, InTurn, Extra, requestVars
<1>5. SlotInv'
  <2>1. Len(waiters') <= 1 /\ \A i \in DOMAIN waiters' : pc'[waiters'[i]] = "waiting"
    <3>1. waiters' = <<>> \/ (waiters' = <<c>> /\ pc'[c] = "waiting")
      BY <1>1 DEF c
    <3>2. CASE waiters' = <<>>
      BY <3>2, EmptySeq
    <3>3. CASE waiters' = <<c>> /\ pc'[c] = "waiting"
      <4>1. Len(waiters') = 1 /\ DOMAIN waiters' = {1} /\ waiters'[1] = c
        BY <3>3
      <4>2. QED
        BY <3>3, <4>1
    <3>4. QED
      BY <3>1, <3>2, <3>3
  <2>2. QED
    BY <1>1, <2>1 DEF SlotInv, queueVars, c
<1>6. QED
  BY <1>2, <1>3, <1>4, <1>5

LEMMA BeginKeeps ==
  ASSUME PipelineInv, NEW r \in Requests, Begin(r)
  PROVE  PipelineInv'
<1> USE DEF PipelineInv
<1> DEFINE c == Current(r)
<1>1. c \in Turns /\ state[c] = "waiting" /\ pc[c] = "idle" /\ stage[r] = "turn"
      /\ \A j \in Turns : state[j] # "active" /\ pc[j] = "idle"
  BY CurrentAlone DEF Begin, Queue!Begin, SlotInv
<1>2. waiters = <<>>
  BY <1>1, CurrentAlone
<1>3. fingerprint[r] \in Keys /\ (fingerprint[r] \notin seen) \in BOOLEAN
  BY DEF TypeOK
<1>4. /\ key' = [key EXCEPT ![c] = fingerprint[r]]
      /\ isNew' = [isNew EXCEPT ![c] = fingerprint[r] \notin seen]
      /\ Gate!Attempt(c, fingerprint[r], fingerprint[r] \notin seen)
      /\ state' = [state EXCEPT ![c] = "active"]
      /\ UNCHANGED <<order, requestVars>>
  BY DEF Begin, Gate!Call, Queue!Begin
<1> HIDE DEF c
<1>5. /\ Gate!TypeOK'
      /\ \/ pc' = [pc EXCEPT ![c] = "running"] /\ waiters' = <<>>
         \/ pc' = [pc EXCEPT ![c] = "waiting"] /\ waiters' = <<c>>
  BY <1>1, <1>2, <1>3, <1>4, AttemptAlone DEF TypeOK
<1>6. \A j \in Turns : /\ state'[j] = IF j = c THEN "active" ELSE state[j]
                       /\ key'[j] = IF j = c THEN fingerprint[r] ELSE key[j]
                       /\ j # c => pc'[j] = "idle"
  BY <1>1, <1>4, <1>5 DEF TypeOK, Gate!TypeOK
<1>7. pc'[c] \in {"running", "waiting"} /\ (waiters' = <<>> \/ (waiters' = <<c>> /\ pc'[c] = "waiting"))
  BY <1>1, <1>5 DEF TypeOK, Gate!TypeOK
<1>8. TypeOK'
  BY <1>1, <1>4, <1>5 DEF TypeOK, requestVars
<1>9. TurnsInv'
  <2> SUFFICES ASSUME NEW q \in Requests, NEW k \in 1..(MaxRetries + 3)
               PROVE  Placed(q, k)'
    BY DEF TurnsInv
  <2>1. <<q, k>> \in Turns /\ Placed(q, k)
    BY DEF Turns, TurnsInv
  <2>2. QED
    BY <1>1, <1>4, <1>6, <2>1 DEF Placed, InTurn, requestVars
<1>10. CountInv'
  BY <1>4 DEF CountInv, Counted, InTurn, Extra, requestVars
<1>11. SlotInv'
  <2>1. Len(waiters') <= 1 /\ \A i \in DOMAIN waiters' : pc'[waiters'[i]] = "waiting"
    BY <1>7, AtMostOneWaker
  <2>2. QED
    BY <1>1, <1>3, <1>6, <1>7, <2>1 DEF SlotInv
<1>12. QED
  BY <1>8, <1>9, <1>10, <1>11

LEMMA ResumeKeeps ==
  ASSUME PipelineInv, NEW r \in Requests, Resume(r)
  PROVE  PipelineInv'
<1> USE DEF PipelineInv
<1> DEFINE c == Current(r)
<1>1. c \in Turns /\ pc[c] = "woken" /\ stage[r] = "turn" /\ state[c] = "active"
      /\ UNCHANGED <<queueVars, requestVars, key, isNew>>
      /\ Gate!Attempt(c, key[c], isNew[c])
  BY CurrentAlone DEF Resume, Gate!Resume, SlotInv
<1>2. waiters = <<>>
  BY <1>1, CurrentAlone
<1>3. key[c] \in Keys /\ isNew[c] \in BOOLEAN
  BY <1>1 DEF SlotInv, TypeOK, Gate!TypeOK
<1>4. key' = [key EXCEPT ![c] = key[c]] /\ isNew' = [isNew EXCEPT ![c] = isNew[c]]
  BY <1>1 DEF TypeOK, Gate!TypeOK
<1> HIDE DEF c
<1>5. /\ Gate!TypeOK'
      /\ \/ pc' = [pc EXCEPT ![c] = "running"] /\ waiters' = <<>>
         \/ pc' = [pc EXCEPT ![c] = "waiting"] /\ waiters' = <<c>>
  <2>1. Gate!TypeOK
    BY DEF TypeOK
  <2> QED BY <1>1, <1>2, <1>3, <1>4, <2>1, AttemptAlone
<1>6. QED
  BY <1>1, <1>3, <1>5, InsideKeeps DEF c

LEMMA TimerFiresKeeps ==
  ASSUME PipelineInv, NEW r \in Requests, TimerFires(r)
  PROVE  PipelineInv'
<1> USE DEF PipelineInv
<1> DEFINE c == Current(r)
<1>1. c \in Turns /\ stage[r] = "turn" /\ Gate!TimerFires(c)
      /\ UNCHANGED <<queueVars, requestVars, key>>
  BY CurrentAlone DEF TimerFires, Gate!TimerFires
<1>2. pc[c] = "waiting"
  BY <1>1 DEF Gate!TimerFires, SlotInv
<1>3. state[c] = "active" /\ key[c] \in Keys
  BY <1>1, <1>2 DEF SlotInv
<1> HIDE DEF c
<1>4. Gate!TypeOK' /\ pc' = [pc EXCEPT ![c] = "woken"] /\ waiters' = <<>>
  BY <1>1, TimerFiresAlone DEF TypeOK, SlotInv
<1>5. QED
  BY <1>1, <1>3, <1>4, InsideKeeps DEF c
\* A turn that gives up slot and queue, whatever becomes of its request.
LEMMA LeaveKeeps ==
  ASSUME PipelineInv, NEW r \in Requests, stage[r] = "turn",
         Gate!Finish(Current(r)), Queue!End(Current(r)),
         NEW to \in {"streaming", "failed"}, stage' = [stage EXCEPT ![r] = to],
         sends' = [sends EXCEPT ![r] = IF to = "streaming" THEN sends[r] + 1 ELSE sends[r]],
         UNCHANGED <<fingerprint, hasTools, attempt, rotated, turn>>
  PROVE  PipelineInv'
<1> USE DEF PipelineInv
<1> DEFINE c == Current(r)
<1>1. /\ c \in Turns /\ pc[c] = "running" /\ state[c] = "active"
      /\ state' = [state EXCEPT ![c] = "over"] /\ UNCHANGED order
      /\ \A j \in Turns : j # c => pc[j] = "idle" /\ state[j] # "active"
  BY CurrentAlone DEF Gate!Finish, Queue!End
<1>2. waiters = <<>>
  BY <1>1, CurrentAlone
<1>3. Gate!TypeOK' /\ pc' = [pc EXCEPT ![c] = "idle"] /\ waiters' = <<>>
  BY <1>1, <1>2, FinishAlone DEF TypeOK
<1>4. c = <<r, turn[r]>>
  BY DEF Current
<1> HIDE DEF c
<1>5. \A j \in Turns : /\ state'[j] = IF j = c THEN "over" ELSE state[j]
                       /\ pc'[j] = "idle"
  BY <1>1, <1>3 DEF TypeOK, Gate!TypeOK
<1>6. sends[r] \in Nat /\ Counted(r) /\ attempt[r] \in Nat /\ turn[r] \in Nat /\ Extra(r) \in 0..1
  BY RetryAssumption DEF TypeOK, CountInv, Extra
<1>7. TypeOK'
  BY <1>1, <1>3, <1>6 DEF TypeOK, Stages
<1>8. TurnsInv'
  <2> SUFFICES ASSUME NEW q \in Requests, NEW k \in 1..(MaxRetries + 3)
               PROVE  Placed(q, k)'
    BY DEF TurnsInv
  <2>1. <<q, k>> \in Turns /\ Placed(q, k) /\ turn[q] \in Nat
    BY RetryAssumption DEF Turns, TurnsInv, TypeOK
  <2>2. stage'[q] = IF q = r THEN to ELSE stage[q]
    BY DEF TypeOK
  <2>3. CASE <<q, k>> = c
    BY <1>4, <1>5, <2>1, <2>2, <2>3 DEF Placed, InTurn
  <2>4. CASE <<q, k>> # c
    BY <1>4, <1>5, <2>1, <2>2, <2>4 DEF Placed, InTurn
  <2>5. QED
    BY <2>3, <2>4
<1>9. CountInv'
  <2> SUFFICES ASSUME NEW q \in Requests PROVE Counted(q)'
    BY DEF CountInv
  <2>1. /\ stage'[q] = IF q = r THEN to ELSE stage[q]
        /\ sends'[q] = IF q = r /\ to = "streaming" THEN sends[r] + 1 ELSE sends[q]
        /\ Extra(q)' = Extra(q) /\ Counted(q)
    BY DEF TypeOK, Extra, CountInv
  <2>2. QED
    BY <1>6, <2>1 DEF Counted, InTurn
<1>10. SlotInv'
  BY <1>3, <1>5, <1>1, AtMostOneWaker DEF SlotInv
<1>11. QED
  BY <1>7, <1>8, <1>9, <1>10

\* A turn that hangs, or a stream that stalls.
LEMMA SilenceKeeps ==
  ASSUME PipelineInv, NEW r \in Requests, Hang(r) \/ Stall(r)
  PROVE  PipelineInv'
<1> USE DEF PipelineInv
<1>1. UNCHANGED <<gateVars, queueVars, fingerprint, hasTools, attempt, rotated, turn, sends>>
  BY DEF Hang, Stall
<1>2. /\ stage' \in [Requests -> Stages]
      /\ \A q \in Requests :
           /\ InTurn(q)' <=> InTurn(q)
           /\ stage'[q] = "ready" <=> stage[q] = "ready"
           /\ stage'[q] \in {"streaming", "stalled"} <=> stage[q] \in {"streaming", "stalled"}
  BY DEF Hang, Stall, TypeOK, InTurn, Stages
<1>3. TypeOK'
  BY <1>1, <1>2 DEF TypeOK, gateVars, queueVars, Gate!TypeOK
<1>4. TurnsInv' /\ SlotInv'
  BY <1>1, <1>2 DEF TurnsInv, Placed, SlotInv, gateVars, queueVars
<1>5. CountInv'
  <2> SUFFICES ASSUME NEW q \in Requests PROVE Counted(q)'
    BY DEF CountInv
  <2>1. Counted(q) /\ Extra(q)' = Extra(q)
    BY <1>1 DEF CountInv, Extra
  <2> QED
    BY <1>1, <1>2, <2>1 DEF Counted
<1> QED
  BY <1>3, <1>4, <1>5

\* What runBuffered does with a turn that ended: a retry raises the attempt, which
\* is below its limit then, a rotation happens once.
LEMMA StreamEndsKeeps ==
  ASSUME PipelineInv, NEW r \in Requests, NEW outcome \in Outcomes, StreamEnds(r, outcome)
  PROVE  PipelineInv'
<1> USE DEF PipelineInv
<1> DEFINE verdict == Verdict(outcome, hasTools[r], attempt[r], rotated[r])
<1>1. /\ stage[r] \in {"streaming", "stalled"} /\ Counted(r)
      /\ sends[r] \in Nat /\ attempt[r] \in 0..MaxRetries /\ turn[r] \in Nat /\ rotated[r] \in BOOLEAN
  BY RetryAssumption DEF StreamEnds, TypeOK, CountInv
<1>2. /\ verdict = "retry" => attempt[r] < MaxRetries
      /\ verdict = "rotate" => ~rotated[r]
  BY DEF Verdict
<1>3. /\ stage' = [stage EXCEPT ![r] = CASE verdict = "answer" -> "answered"
                                          [] verdict \in {"rotate", "retry"} -> "ready"
                                          [] OTHER -> "failed"]
      /\ attempt' = IF verdict = "retry" THEN [attempt EXCEPT ![r] = attempt[r] + 1] ELSE attempt
      /\ rotated' = IF verdict = "rotate" THEN [rotated EXCEPT ![r] = TRUE] ELSE rotated
      /\ UNCHANGED <<gateVars, queueVars, fingerprint, hasTools, turn, sends>>
  BY DEF StreamEnds
<1> HIDE DEF verdict
<1>4. /\ attempt' \in [Requests -> 0..MaxRetries] /\ rotated' \in [Requests -> BOOLEAN]
      /\ stage' \in [Requests -> Stages]
  BY <1>1, <1>2, <1>3, RetryAssumption DEF TypeOK, Stages
<1>5. TypeOK'
  BY <1>3, <1>4 DEF TypeOK, gateVars, queueVars, Gate!TypeOK
<1>6. \A q \in Requests : (InTurn(q)' <=> InTurn(q)) /\ turn'[q] = turn[q]
  BY <1>1, <1>3 DEF TypeOK, InTurn
<1>7. TurnsInv'
  BY <1>3, <1>6 DEF TurnsInv, Placed, InTurn, queueVars
<1>8. SlotInv'
  BY <1>3 DEF SlotInv, gateVars, queueVars
<1>9. CountInv'
  <2> SUFFICES ASSUME NEW q \in Requests PROVE Counted(q)'
    BY DEF CountInv
  <2>1. Counted(q)
    BY DEF CountInv
  <2>2. CASE q # r
    <3>1. /\ stage'[q] = stage[q] /\ attempt'[q] = attempt[q] /\ rotated'[q] = rotated[q]
          /\ turn'[q] = turn[q] /\ sends'[q] = sends[q]
      BY <1>3, <2>2 DEF TypeOK
    <3>2. QED
      BY <2>1, <3>1 DEF Counted, InTurn, Extra
  <2>3. CASE q = r
    <3>1. /\ stage'[r] = CASE verdict = "answer" -> "answered"
                          [] verdict \in {"rotate", "retry"} -> "ready"
                          [] OTHER -> "failed"
          /\ attempt'[r] = IF verdict = "retry" THEN attempt[r] + 1 ELSE attempt[r]
          /\ rotated'[r] = IF verdict = "rotate" THEN TRUE ELSE rotated[r]
          /\ turn'[r] = turn[r] /\ sends'[r] = sends[r]
      BY <1>3 DEF TypeOK
    <3>2. stage'[r] \in {"ready", "answered", "failed"} /\ (stage'[r] = "ready" => verdict \in {"rotate", "retry"})
      BY <3>1
    <3>3. CASE verdict = "retry"
      BY <1>1, <2>3, <3>1, <3>2, <3>3 DEF Counted, InTurn, Extra
    <3>4. CASE verdict = "rotate"
      BY <1>1, <1>2, <2>3, <3>1, <3>2, <3>4 DEF Counted, InTurn, Extra
    <3>5. CASE verdict \notin {"retry", "rotate"}
      BY <1>1, <2>3, <3>1, <3>2, <3>5 DEF Counted, InTurn, Extra
    <3>6. QED
      BY <3>3, <3>4, <3>5
  <2>4. QED
    BY <2>2, <2>3
<1>10. QED
  BY <1>5, <1>7, <1>8, <1>9

LEMMA PipelineInvStep == PipelineInv /\ [Next]_vars => PipelineInv'
<1> SUFFICES ASSUME PipelineInv, [Next]_vars PROVE PipelineInv'
  OBVIOUS
<1>1. ASSUME NEW r \in Requests, Sent(r)
      PROVE  PipelineInv'
  <2>1. sends' = [sends EXCEPT ![r] = IF "streaming" = "streaming" THEN sends[r] + 1 ELSE sends[r]]
    BY <1>1 DEF Sent
  <2>2. QED
    BY <1>1, <2>1, LeaveKeeps DEF Sent
<1>2. ASSUME NEW r \in Requests, Refused(r)
      PROVE  PipelineInv'
  <2>1. sends' = [sends EXCEPT ![r] = IF "failed" = "streaming" THEN sends[r] + 1 ELSE sends[r]]
    BY <1>2 DEF Refused, PipelineInv, TypeOK
  <2>2. QED
    BY <1>2, <2>1, LeaveKeeps DEF Refused
<1>3. CASE Tick
  <2>1. /\ UNCHANGED <<queueVars, requestVars, inflight, seen, waiters, pc, key, isNew>>
        /\ sinceStart' \in 0..Gap /\ sinceFirst' \in 0..Gap
        /\ timer' \in [Turns -> {Gate!NoTimer} \cup 0..Gap]
    <3>1. UNCHANGED <<queueVars, requestVars, inflight, seen, waiters, pc, key, isNew>>
      BY <1>3 DEF Tick, Gate!Tick
    <3>2. sinceStart' \in 0..Gap /\ sinceFirst' \in 0..Gap
      BY <1>3, PipelineAssumption
         DEF Tick, Gate!Tick, Gate!Elapse, Gate!Aged, PipelineInv, TypeOK, Gate!TypeOK
    <3>3. timer' = [c \in Turns |-> Gate!Left(timer[c], 1)]
          /\ \A c \in Turns : timer[c] \in {Gate!NoTimer} \cup 0..Gap
      BY <1>3 DEF Tick, Gate!Tick, PipelineInv, TypeOK, Gate!TypeOK
    <3>4. QED
      BY <3>1, <3>2, <3>3, LeftInRange
  <2>2. TypeOK'
    BY <2>1 DEF PipelineInv, TypeOK, Gate!TypeOK, queueVars, requestVars
  <2>3. QED
    BY <2>1, <2>2
       DEF PipelineInv, TurnsInv, Placed, InTurn, SlotInv, CountInv, Counted, InTurn, Extra, queueVars, requestVars
<1>4. CASE UNCHANGED vars
  <2>1. TypeOK'
    BY <1>4 DEF PipelineInv, TypeOK, Gate!TypeOK, vars, gateVars, queueVars, requestVars
  <2>2. QED
    BY <1>4, <2>1
       DEF PipelineInv, TurnsInv, Placed, InTurn, SlotInv, CountInv, Counted, InTurn, Extra, vars, gateVars, queueVars, requestVars
<1>5. QED
  BY <1>1, <1>2, <1>3, <1>4, EnqueueKeeps, BeginKeeps, ResumeKeeps, TimerFiresKeeps, SilenceKeeps, StreamEndsKeeps DEF Next
-----------------------------------------------------------------------------
(* The theorems about the pipeline. *)

LEMMA PipelineInvariant == Spec => []PipelineInv
  BY PipelineInvInit, PipelineInvStep, PTL DEF Spec

\* The gate and the queue agree on who is connecting, and it is one turn at most,
\* whatever the gate's own limit (handler.ts 808-814).
THEOREM OneTurnConnects == Spec => []OneConnecting
<1>1. PipelineInv => OneConnecting
  <2> SUFFICES ASSUME PipelineInv PROVE OneConnecting
    OBVIOUS
  <2> DEFINE inside == {j \in Turns : pc[j] # "idle"}
  <2>1. \A i, j \in inside : i = j
    BY DEF PipelineInv, SlotInv
  <2>2. Cardinality(inside) <= 1
    <3>1. CASE inside = {}
      BY <3>1, FS_EmptySet
    <3>2. CASE inside # {}
      <4>1. PICK j \in inside : TRUE
        BY <3>2
      <4>2. inside = {j}
        BY <2>1, <4>1
      <4>3. QED
        BY <4>2, FS_Singleton
    <3>3. QED
      BY <3>1, <3>2
  <2>3. QED
    BY <2>2 DEF OneConnecting, PipelineInv, SlotInv
<1>2. QED
  BY <1>1, PipelineInvariant, PTL

\* A request sends one message per attempt and one for its rotation, whatever the
\* number of retries (handler.ts 911-917, 939-958).
THEOREM QuotaIsBounded == Spec => []QuotaBound
<1>1. PipelineInv => QuotaBound
  BY RetryAssumption DEF PipelineInv, QuotaBound, CountInv, Counted, InTurn, Extra, TypeOK
<1>2. QED
  BY <1>1, PipelineInvariant, PTL

\* The requests use the gate as TurnGate lets its callers, so that what is proved
\* of it holds in the pipeline (handler.ts 812-814, gate.ts 64-117).
THEOREM PipelineUsesGate == Spec => Gate!Spec
<1>1. Init => Gate!Init
  BY DEF Init
<1>2. PipelineInv /\ [Next]_vars => [Gate!Next]_(Gate!vars)
  <2> SUFFICES ASSUME PipelineInv, [Next]_vars PROVE [Gate!Next]_(Gate!vars)
    OBVIOUS
  <2>1. ASSUME NEW r \in Requests, stage[r] = "turn"
        PROVE  Current(r) \in Turns /\ fingerprint[r] \in Keys
    BY <2>1, CurrentAlone DEF PipelineInv, TypeOK
  <2>2. ASSUME NEW r \in Requests, Enqueue(r) \/ Hang(r) \/ Stall(r) \/ \E outcome \in Outcomes : StreamEnds(r, outcome)
        PROVE  UNCHANGED gateVars
    BY <2>2 DEF Enqueue, Hang, Stall, StreamEnds
  <2>3. ASSUME NEW r \in Requests, Begin(r) \/ Resume(r) \/ TimerFires(r) \/ Sent(r) \/ Refused(r)
        PROVE  Gate!Next
    BY <2>1, <2>3 DEF Begin, Resume, TimerFires, Sent, Refused, Gate!Next
  <2>4. Tick => Gate!Next
    BY DEF Tick, Gate!Next
  <2>5. QED
    BY <2>2, <2>3, <2>4 DEF Next, vars, gateVars, Gate!vars
<1>3. QED
  BY <1>1, <1>2, PipelineInvariant, PTL DEF Spec, Gate!Spec

\* The requests use the queue as SerialQueue lets its turns: they begin in the order
\* of their arrival, and each only when the one before it has left the gate.
THEOREM PipelineUsesQueue == Spec => Queue!Spec
<1>1. Init => Queue!Init
  BY DEF Init
<1>2. PipelineInv /\ [Next]_vars => [Queue!Next]_<<order, state>>
  <2> SUFFICES ASSUME PipelineInv, [Next]_vars PROVE [Queue!Next]_<<order, state>>
    OBVIOUS
  <2>1. ASSUME NEW r \in Requests, stage[r] = "turn"
        PROVE  Current(r) \in Turns
    BY <2>1, CurrentAlone
  <2>2. ASSUME NEW r \in Requests, Enqueue(r)
        PROVE  Queue!Next
    <3>1. <<r, turn[r] + 1>> \in Turns
      BY <2>2, RetryAssumption DEF Enqueue, PipelineInv, CountInv, Counted, TypeOK, Extra, Turns
    <3>2. QED
      BY <2>2, <3>1 DEF Enqueue, Queue!Next
  <2>3. ASSUME NEW r \in Requests, Begin(r) \/ Sent(r) \/ Refused(r)
        PROVE  Queue!Next
    BY <2>1, <2>3 DEF Begin, Sent, Refused, Queue!Next
  <2>4. ASSUME NEW r \in Requests,
               Resume(r) \/ TimerFires(r) \/ Hang(r) \/ Stall(r) \/ \E outcome \in Outcomes : StreamEnds(r, outcome)
        PROVE  UNCHANGED queueVars
    BY <2>4 DEF Resume, TimerFires, Hang, Stall, StreamEnds
  <2>5. Tick => UNCHANGED queueVars
    BY DEF Tick
  <2>6. QED
    BY <2>2, <2>3, <2>4, <2>5 DEF Next, vars, queueVars
<1>3. QED
  BY <1>1, <1>2, PipelineInvariant, PTL DEF Spec, Queue!Spec
=============================================================================
