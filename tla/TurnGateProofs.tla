--------------------------- MODULE TurnGateProofs ---------------------------
(***************************************************************************)
(* Theorems about the turn gate, for every set of callers and keys, every  *)
(* limit, gap and clock slip.                                              *)
(***************************************************************************)
EXTENDS TurnGate, FiniteSetTheorems, SequenceTheorems, TLAPS

-----------------------------------------------------------------------------
(* Sequences, time and counting. *)

\* RemoveAt deletes one position and keeps the order of the others.
LEMMA RemoveAtIsDeletion ==
  ASSUME NEW S, NEW s \in Seq(S), NEW i \in 1..Len(s)
  PROVE  /\ RemoveAt(s, i) \in Seq(S)
         /\ Len(RemoveAt(s, i)) = Len(s) - 1
         /\ \A j \in 1..(Len(s) - 1) :
              RemoveAt(s, i)[j] = IF j < i THEN s[j] ELSE s[j + 1]
<1> DEFINE L == SubSeq(s, 1, i - 1)
           R == SubSeq(s, i + 1, Len(s))
<1>1. Len(s) \in Nat /\ \A j \in 1..Len(s) : s[j] \in S
  BY ElementOfSeq, LenProperties
<1>2. /\ L \in Seq(S)
      /\ Len(L) = i - 1
      /\ \A j \in 1..(i - 1) : L[j] = s[j]
  <2>1. \A j \in 1..(i - 1) : s[j] \in S
    BY <1>1
  <2>2. /\ L \in Seq(S)
        /\ Len(L) = IF 1 <= i - 1 THEN (i - 1) - 1 + 1 ELSE 0
        /\ \A j \in 1 .. (i - 1) - 1 + 1 : L[j] = s[1 + j - 1]
    BY <2>1, <1>1, SubSeqProperties
  <2>3. QED
    BY <2>2, <1>1
<1>3. /\ R \in Seq(S)
      /\ Len(R) = Len(s) - i
      /\ \A j \in 1..(Len(s) - i) : R[j] = s[i + j]
  BY <1>1, SubSeqProperties
<1> HIDE DEF L, R
<1>4. /\ L \o R \in Seq(S)
      /\ Len(L \o R) = Len(L) + Len(R)
      /\ \A j \in 1..(Len(L) + Len(R)) :
           (L \o R)[j] = IF j <= Len(L) THEN L[j] ELSE R[j - Len(L)]
  BY <1>2, <1>3, ConcatProperties
<1>5. RemoveAt(s, i) = L \o R
  BY DEF RemoveAt, L, R
<1>6. ASSUME NEW j \in 1..(Len(s) - 1)
      PROVE  (L \o R)[j] = IF j < i THEN s[j] ELSE s[j + 1]
  <2>1. CASE j < i
    BY <2>1, <1>1, <1>2, <1>3, <1>4
  <2>2. CASE ~(j < i)
    <3>1. j \in 1..(Len(L) + Len(R)) /\ ~(j <= Len(L)) /\ j - Len(L) = j - i + 1
      BY <2>2, <1>1, <1>2, <1>3
    <3>2. R[j - i + 1] = s[i + (j - i + 1)] /\ i + (j - i + 1) = j + 1
      BY <2>2, <1>1, <1>3
    <3>3. QED
      BY <2>2, <3>1, <3>2, <1>4
  <2>3. QED
    BY <2>1, <2>2
<1>7. QED
  BY <1>1, <1>2, <1>3, <1>4, <1>5, <1>6

\* Deleting the only occurrence of an element deletes it from the range, and
\* leaves the others at distinct positions.
LEMMA RemoveAtRange ==
  ASSUME NEW S, NEW s \in Seq(S), NEW i \in 1..Len(s),
         \A j, k \in 1..Len(s) : s[j] = s[k] => j = k
  PROVE  LET t == RemoveAt(s, i) IN
         /\ \A x : (\E j \in 1..Len(t) : t[j] = x)
                    <=> x # s[i] /\ \E j \in 1..Len(s) : s[j] = x
         /\ \A j, k \in 1..Len(t) : t[j] = t[k] => j = k
<1> DEFINE t == RemoveAt(s, i)
<1>1. /\ Len(s) \in Nat
      /\ Len(t) = Len(s) - 1
      /\ \A j \in 1..(Len(s) - 1) : t[j] = IF j < i THEN s[j] ELSE s[j + 1]
  BY RemoveAtIsDeletion, LenProperties
<1> HIDE DEF t
<1>2. ASSUME NEW x, NEW j \in 1..Len(s), s[j] = x, x # s[i]
      PROVE  \E k \in 1..Len(t) : t[k] = x
  <2>1. CASE j < i
    BY <1>1, <1>2, <2>1
  <2>2. CASE j > i
    <3>1. j - 1 \in 1..(Len(s) - 1) /\ ~(j - 1 < i) /\ (j - 1) + 1 = j
      BY <1>1, <2>2
    <3>2. QED
      BY <1>1, <1>2, <3>1
  <2>3. QED
    BY <1>1, <1>2, <2>1, <2>2
<1>3. ASSUME NEW x, NEW j \in 1..Len(t), t[j] = x
      PROVE  x # s[i] /\ \E k \in 1..Len(s) : s[k] = x
  BY <1>1, <1>3
<1>4. \A j, k \in 1..Len(t) : t[j] = t[k] => j = k
  BY <1>1
<1>5. QED
  BY <1>2, <1>3, <1>4 DEF t

\* The passing of time neither arms nor withdraws a timeout.
LEMMA LeftType ==
  ASSUME NEW t \in {NoTimer} \cup 0..Gap, NEW d \in Nat
  PROVE  /\ Left(t, d) \in {NoTimer} \cup 0..Gap
         /\ Left(t, d) = NoTimer <=> t = NoTimer
  BY GateAssumption DEF Left, NoTimer

\* Ages stay in range and keep their order.
LEMMA AgedMonotone ==
  ASSUME NEW a \in 0..Gap, NEW b \in 0..Gap, a <= b, NEW d \in Nat
  PROVE  /\ Aged(a, d) \in 0..Gap /\ Aged(b, d) \in 0..Gap
         /\ Aged(a, d) <= Aged(b, d)
  BY GateAssumption DEF Aged

LEMMA MaxType == MaxConcurrent \in Nat /\ MaxConcurrent >= 1
  BY GateAssumption DEF MaxConcurrent

LEMMA HoldersFinite == IsFiniteSet(Holders) /\ Cardinality(Holders) \in Nat
<1>1. Holders \subseteq Callers
  BY DEF Holders
<1>2. QED
  BY <1>1, GateAssumption, FS_Subset, FS_CardinalityType
-----------------------------------------------------------------------------
(* The inductive invariant. *)

LEMMA GateInvInit == Init => GateInv
<1> SUFFICES ASSUME Init PROVE GateInv
  OBVIOUS
<1>1. TypeOK
  BY GateAssumption DEF Init, TypeOK, NoTimer
<1>2. Holders = {} /\ Cardinality({}) = 0
  BY FS_EmptySet DEF Init, Holders
<1>3. QED
  BY <1>1, <1>2, MaxType, GateAssumption DEF Init, GateInv, NoStrandedWaiter

\* A caller that enters or resumes the loop of acquire() and gets its slot.
LEMMA ProceedPreserves ==
  ASSUME GateInv, NEW c \in Callers, NEW k \in Keys, NEW new \in BOOLEAN,
         pc[c] \in {"idle", "woken"},
         key' = [key EXCEPT ![c] = k], isNew' = [isNew EXCEPT ![c] = new],
         Proceed(c, k)
  PROVE  GateInv'
<1> USE DEF GateInv, Proceed
<1>1. TypeOK'
  BY GateAssumption DEF TypeOK
<1>2. Holders' = Holders \cup {c} /\ c \notin Holders
  BY DEF Holders, TypeOK
<1>3. inflight' = Cardinality(Holders)'
  BY <1>2, HoldersFinite, FS_AddElement
<1>4. ConfiguredMax # NaN => inflight' <= MaxConcurrent
  BY MaxType DEF MayProceed, SlotFree, TypeOK
<1>5. (sinceStart <= sinceFirst)'
  BY GateAssumption DEF TypeOK
<1>6. (\A x \in Callers : pc[x] = "waiting" <=> \E i \in DOMAIN waiters : waiters[i] = x)'
  BY DEF TypeOK
<1>7. (\A x \in Callers : pc[x] # "waiting" => timer[x] = NoTimer)'
  BY DEF TypeOK
<1>8. (\A x \in Callers : pc[x] # "idle" => key[x] \in Keys)'
  BY DEF TypeOK
<1>9. (\A x \in Callers : pc[x] # "idle" /\ ~isNew[x] => key[x] \in seen)'
  BY DEF TypeOK
<1>10. NoStrandedWaiter'
  BY <1>2 DEF NoStrandedWaiter
<1>11. QED
  BY <1>1, <1>3, <1>4, <1>5, <1>6, <1>7, <1>8, <1>9, <1>10

\* A caller that is refused, and sleeps with or without a timeout.  With one
\* clock read a caller refused beside a free slot always arms one.
LEMMA SleepPreserves ==
  ASSUME GateInv, NEW c \in Callers, NEW k \in Keys, NEW new \in BOOLEAN,
         pc[c] \in {"idle", "woken"}, ~new => k \in seen,
         key' = [key EXCEPT ![c] = k], isNew' = [isNew EXCEPT ![c] = new],
         Sleep(c, k, new)
  PROVE  GateInv'
<1> USE DEF GateInv
<1>1. PICK slip \in 0..ClockSlip :
        LET left == Remaining(new, slip) IN
        /\ ~MayProceed(k)
        /\ Elapse(slip)
        /\ waiters' = Append(waiters, c)
        /\ timer' = [x \in Callers |-> IF x = c
                                       THEN IF left > 0 THEN left ELSE NoTimer
                                       ELSE Left(timer[x], slip)]
        /\ pc' = [pc EXCEPT ![c] = "waiting"]
        /\ UNCHANGED <<inflight, seen>>
  BY DEF Sleep
<1>2. slip \in Nat
  BY GateAssumption
<1>3. /\ sinceStart' \in 0..Gap /\ sinceFirst' \in 0..Gap
      /\ sinceStart' <= sinceFirst'
  BY <1>1, <1>2, AgedMonotone DEF Elapse, TypeOK
<1>4. Remaining(new, slip) \in 0..Gap
  <2>1. Aged(sinceStart, slip) \in 0..Gap
    BY <1>2, GateAssumption DEF Aged, TypeOK
  <2>2. QED
    BY <2>1, GateAssumption DEF Remaining
<1>5. timer' \in [Callers -> {NoTimer} \cup 0..Gap]
  BY <1>1, <1>2, <1>4, LeftType DEF TypeOK
<1>6. TypeOK'
  BY <1>1, <1>3, <1>5 DEF TypeOK
<1>7. Holders' = Holders
  BY <1>1 DEF Holders, TypeOK
<1>8. /\ Len(waiters') = Len(waiters) + 1
      /\ \A i \in 1..Len(waiters) : waiters'[i] = waiters[i]
      /\ waiters'[Len(waiters) + 1] = c
      /\ Len(waiters) \in Nat
      /\ DOMAIN waiters = 1..Len(waiters) /\ DOMAIN waiters' = 1..Len(waiters')
  BY <1>1, <1>6, AppendProperties, LenProperties DEF TypeOK
<1>9. \A i \in DOMAIN waiters : waiters[i] # c
  BY DEF TypeOK
<1>10. (\A x \in Callers : pc[x] = "waiting" <=> \E i \in DOMAIN waiters : waiters[i] = x)'
  BY <1>1, <1>8 DEF TypeOK
<1>11. (\A i, j \in DOMAIN waiters : waiters[i] = waiters[j] => i = j)'
  BY <1>8, <1>9
<1>12. (\A x \in Callers : pc[x] # "waiting" => timer[x] = NoTimer)'
  BY <1>1, <1>2, LeftType DEF TypeOK
<1>13. (\A x \in Callers : pc[x] # "idle" => key[x] \in Keys)'
  BY <1>1 DEF TypeOK
<1>14. (\A x \in Callers : pc[x] # "idle" /\ ~isNew[x] => key[x] \in seen)'
  BY <1>1 DEF TypeOK
<1>15. ASSUME ClockSlip = 0, Holders' = {}
       PROVE  \E x \in Sleepers' : timer'[x] # NoTimer
  <2>1. inflight = 0
    BY <1>7, <1>15, FS_EmptySet
  <2>2. SlotFree
    BY <2>1, MaxType DEF SlotFree
  <2>3. k \notin seen /\ sinceStart < Gap
    BY <1>1, <2>2, GateAssumption DEF MayProceed, GapOver, TypeOK
  <2>4. slip = 0
    BY <1>15
  <2>5. Remaining(new, slip) = Gap - sinceStart
    BY <2>3, <2>4, GateAssumption DEF Remaining, Aged, TypeOK
  <2>6. timer'[c] # NoTimer
    BY <1>1, <2>3, <2>5, GateAssumption DEF NoTimer, TypeOK
  <2>7. c \in Sleepers'
    BY <1>1 DEF Sleepers, TypeOK
  <2>8. QED
    BY <2>6, <2>7
<1>16. ClockSlip = 0 => NoStrandedWaiter'
  BY <1>15 DEF NoStrandedWaiter
<1>17. (ConfiguredMax # NaN => inflight <= MaxConcurrent)'
  BY <1>1
<1>18. (inflight = Cardinality(Holders))'
  BY <1>1, <1>7
<1>19. QED
  BY <1>3, <1>6, <1>10, <1>11, <1>12, <1>13, <1>14, <1>16, <1>17, <1>18

LEMMA AttemptPreserves ==
  ASSUME GateInv, NEW c \in Callers, NEW k \in Keys, NEW new \in BOOLEAN,
         pc[c] \in {"idle", "woken"}, ~new => k \in seen,
         key' = [key EXCEPT ![c] = k], isNew' = [isNew EXCEPT ![c] = new],
         Attempt(c, k, new)
  PROVE  GateInv'
  BY ProceedPreserves, SleepPreserves DEF Attempt

\* A timeout that expires ends one sleep and takes one waker out of the set.
LEMMA TimerFiresPreserves ==
  ASSUME GateInv, NEW c \in Callers, TimerFires(c)
  PROVE  GateInv'
<1> USE DEF GateInv
<1>1. PICK i \in DOMAIN waiters :
        waiters[i] = c /\ waiters' = RemoveAt(waiters, i)
  BY DEF TimerFires
<1>2. /\ timer' = [timer EXCEPT ![c] = NoTimer]
      /\ pc' = [pc EXCEPT ![c] = "woken"]
      /\ UNCHANGED <<inflight, sinceStart, seen, key, isNew, sinceFirst>>
  BY DEF TimerFires
<1>3. pc[c] = "waiting"
  BY <1>1
<1>4. /\ waiters \in Seq(Callers) /\ i \in 1..Len(waiters)
      /\ DOMAIN waiters = 1..Len(waiters)
  BY <1>1, LenProperties DEF TypeOK
<1>5. waiters' \in Seq(Callers) /\ DOMAIN waiters' = 1..Len(waiters')
  BY <1>1, <1>4, RemoveAtIsDeletion, LenProperties
<1>distinct. \A j, k \in 1..Len(waiters) : waiters[j] = waiters[k] => j = k
  BY <1>4
<1>6. /\ \A x : (\E j \in 1..Len(waiters') : waiters'[j] = x)
                 <=> x # c /\ \E j \in 1..Len(waiters) : waiters[j] = x
      /\ \A j, k \in 1..Len(waiters') : waiters'[j] = waiters'[k] => j = k
  <2>1. LET t == RemoveAt(waiters, i) IN
        /\ \A x : (\E j \in 1..Len(t) : t[j] = x)
                   <=> x # waiters[i] /\ \E j \in 1..Len(waiters) : waiters[j] = x
        /\ \A j, k \in 1..Len(t) : t[j] = t[k] => j = k
    BY <1>4, <1>distinct, RemoveAtRange
  <2>2. QED
    BY <1>1, <2>1
<1>7. TypeOK'
  BY <1>2, <1>5 DEF TypeOK
<1>8. Holders' = Holders
  BY <1>2, <1>3 DEF Holders, TypeOK
<1>9. (\A x \in Callers : pc[x] = "waiting" <=> \E j \in DOMAIN waiters : waiters[j] = x)'
  BY <1>2, <1>4, <1>5, <1>6 DEF TypeOK
<1>10. (\A j, k \in DOMAIN waiters : waiters[j] = waiters[k] => j = k)'
  BY <1>5, <1>6
<1>11. (\A x \in Callers : pc[x] # "waiting" => timer[x] = NoTimer)'
  BY <1>2 DEF TypeOK
<1>12. (\A x \in Callers : pc[x] # "idle" => key[x] \in Keys)'
  BY <1>2, <1>3 DEF TypeOK
<1>13. (\A x \in Callers : pc[x] # "idle" /\ ~isNew[x] => key[x] \in seen)'
  BY <1>2, <1>3 DEF TypeOK
<1>14. NoStrandedWaiter'
  <2>1. c \in Woken'
    BY <1>2 DEF Woken, TypeOK
  <2>2. QED
    BY <2>1 DEF NoStrandedWaiter
<1>15. QED
  BY <1>2, <1>7, <1>8, <1>9, <1>10, <1>11, <1>12, <1>13, <1>14

\* A release gives one slot back and wakes the first sleeper, if there is one.
LEMMA FinishPreserves ==
  ASSUME GateInv, NEW c \in Callers, Finish(c)
  PROVE  GateInv'
<1> USE DEF GateInv, Finish
<1>1. c \in Holders /\ inflight > 0
  <2>1. c \in Holders
    BY DEF Holders
  <2>2. QED
    BY <2>1, HoldersFinite, FS_EmptySet DEF TypeOK
<1>2. inflight' = inflight - 1
  BY <1>1
<1>3. /\ key' = [key EXCEPT ![c] = NoKey] /\ isNew' = [isNew EXCEPT ![c] = FALSE]
      /\ UNCHANGED <<sinceStart, seen, sinceFirst>>
  OBVIOUS
<1>4. waiters \in Seq(Callers) /\ DOMAIN waiters = 1..Len(waiters) /\ Len(waiters) \in Nat
  BY LenProperties DEF TypeOK
<1>5. CASE waiters = <<>>
  <2>1. pc' = [pc EXCEPT ![c] = "idle"] /\ UNCHANGED <<waiters, timer>>
    BY <1>5 DEF WakeHead
  <2>2. TypeOK'
    BY <1>1, <1>2, <1>3, <2>1 DEF TypeOK
  <2>3. Holders' = Holders \ {c}
    BY <2>1 DEF Holders, TypeOK
  <2>4. inflight' = Cardinality(Holders)'
    BY <1>1, <1>2, <2>3, HoldersFinite, FS_RemoveElement
  <2>5. NoStrandedWaiter'
    BY <1>5, <2>1 DEF NoStrandedWaiter
  <2>6. (\A x \in Callers : pc[x] # "idle" /\ ~isNew[x] => key[x] \in seen)'
    BY <1>3, <2>1 DEF TypeOK
  <2>7. (\A x \in Callers : pc[x] = "waiting" <=> \E j \in DOMAIN waiters : waiters[j] = x)'
    BY <2>1, <1>1 DEF TypeOK, Holders
  <2>8. (\A x \in Callers : pc[x] # "waiting" => timer[x] = NoTimer)'
    BY <2>1, <1>1 DEF TypeOK, Holders
  <2>9. (\A x \in Callers : pc[x] # "idle" => key[x] \in Keys)'
    BY <1>3, <2>1 DEF TypeOK
  <2>10. (ConfiguredMax # NaN => inflight <= MaxConcurrent)'
    BY <1>2, MaxType DEF TypeOK
  <2>11. QED
    BY <1>3, <2>1, <2>2, <2>4, <2>5, <2>6, <2>7, <2>8, <2>9, <2>10
<1>6. CASE waiters # <<>>
  <2> DEFINE h == Head(waiters)
  <2>1. /\ pc' = [[pc EXCEPT ![c] = "idle"] EXCEPT ![h] = "woken"]
        /\ waiters' = Tail(waiters)
        /\ timer' = [timer EXCEPT ![h] = NoTimer]
    BY <1>6 DEF WakeHead
  <2>2. /\ h \in Callers /\ h = waiters[1] /\ 1 \in DOMAIN waiters
        /\ waiters' \in Seq(Callers)
        /\ DOMAIN waiters' = 1..(Len(waiters) - 1)
        /\ \A i \in 1..(Len(waiters) - 1) : waiters'[i] = waiters[i + 1]
    BY <1>4, <1>6, <2>1, HeadTailProperties, LenProperties, EmptySeq
  <2> HIDE DEF h
  <2>3. pc[h] = "waiting" /\ h # c
    BY <2>2, <1>1 DEF Holders, TypeOK
  <2>4. TypeOK'
    <3>1. /\ pc' \in [Callers -> {"idle", "waiting", "woken", "running"}]
          /\ timer' \in [Callers -> {NoTimer} \cup 0..Gap]
          /\ key' \in [Callers -> Keys \cup {NoKey}]
          /\ isNew' \in [Callers -> BOOLEAN]
      BY <1>3, <2>1 DEF TypeOK
    <3>2. inflight' \in Nat
      BY <1>1, <1>2 DEF TypeOK
    <3>3. QED
      BY <1>3, <2>2, <3>1, <3>2 DEF TypeOK
  <2>5. Holders' = Holders \ {c}
    BY <2>1, <2>2, <2>3 DEF Holders, TypeOK
  <2>6. inflight' = Cardinality(Holders)'
    BY <1>1, <1>2, <2>5, HoldersFinite, FS_RemoveElement
  <2>7. ASSUME NEW i \in DOMAIN waiters', NEW j \in DOMAIN waiters',
               waiters'[i] = waiters'[j]
        PROVE  i = j
    <3>1. /\ i \in Nat /\ i + 1 \in DOMAIN waiters /\ waiters'[i] = waiters[i + 1]
          /\ j \in Nat /\ j + 1 \in DOMAIN waiters /\ waiters'[j] = waiters[j + 1]
      BY <1>4, <2>2
    <3>2. waiters[i + 1] = waiters[j + 1]
      BY <2>7, <3>1
    <3>3. ASSUME NEW a \in DOMAIN waiters, NEW b \in DOMAIN waiters,
                 waiters[a] = waiters[b]
          PROVE  a = b
      BY <3>3
    <3>4. i + 1 = j + 1
      BY <3>1, <3>2, <3>3
    <3>5. QED
      BY <3>1, <3>4
  <2>8. \A x : (\E i \in DOMAIN waiters' : waiters'[i] = x)
               <=> x # h /\ \E i \in DOMAIN waiters : waiters[i] = x
    <3>1. ASSUME NEW i \in DOMAIN waiters'
          PROVE  i + 1 \in DOMAIN waiters /\ waiters'[i] = waiters[i + 1] /\ i + 1 # 1
      BY <1>4, <2>2
    <3>2. ASSUME NEW i \in DOMAIN waiters, waiters[i] # h
          PROVE  i - 1 \in DOMAIN waiters' /\ waiters'[i - 1] = waiters[i]
      <4>1. i # 1 /\ i \in Nat
        BY <1>4, <2>2, <3>2
      <4>2. i - 1 \in 1..(Len(waiters) - 1) /\ (i - 1) + 1 = i
        BY <4>1, <1>4
      <4>3. QED
        BY <2>2, <4>2
    <3>3. QED
      BY <2>2, <3>1, <3>2
  <2>9. (\A x \in Callers : pc[x] = "waiting" <=> \E j \in DOMAIN waiters : waiters[j] = x)'
    <3>1. ASSUME NEW x \in Callers
          PROVE  pc'[x] = "waiting" <=> x # h /\ pc[x] = "waiting"
      BY <2>1, <2>2, <1>1 DEF TypeOK, Holders
    <3>2. QED
      BY <2>8, <3>1
  <2>10. (\A x \in Callers : pc[x] # "waiting" => timer[x] = NoTimer)'
    BY <2>1, <2>2, <1>1 DEF TypeOK, Holders
  <2>11. (\A x \in Callers : pc[x] # "idle" => key[x] \in Keys)'
    BY <1>3, <2>1, <2>3 DEF TypeOK
  <2>12. (\A x \in Callers : pc[x] # "idle" /\ ~isNew[x] => key[x] \in seen)'
    BY <1>3, <2>1, <2>3 DEF TypeOK
  <2>13. NoStrandedWaiter'
    <3>1. h \in Woken'
      BY <2>1, <2>2 DEF Woken, TypeOK
    <3>2. QED
      BY <3>1 DEF NoStrandedWaiter
  <2>14. (ConfiguredMax # NaN => inflight <= MaxConcurrent)'
    BY <1>2, MaxType DEF TypeOK
  <2>15. QED
    BY <1>3, <2>4, <2>6, <2>7, <2>9, <2>10, <2>11, <2>12, <2>13, <2>14
<1>7. QED
  BY <1>5, <1>6

\* The passing of a tick ages both clocks and lets no timeout disappear.
LEMMA TickPreserves ==
  ASSUME GateInv, Tick
  PROVE  GateInv'
<1> USE DEF GateInv, Tick
<1>1. /\ sinceStart' \in 0..Gap /\ sinceFirst' \in 0..Gap
      /\ sinceStart' <= sinceFirst'
  BY AgedMonotone DEF Elapse, TypeOK
<1>2. /\ timer' \in [Callers -> {NoTimer} \cup 0..Gap]
      /\ \A c \in Callers : timer'[c] = NoTimer <=> timer[c] = NoTimer
  BY LeftType DEF TypeOK
<1>3. TypeOK'
  BY <1>1, <1>2 DEF TypeOK
<1>4. Holders' = Holders /\ Woken' = Woken /\ Sleepers' = Sleepers
  BY DEF Holders, Woken, Sleepers
<1>5. NoStrandedWaiter => NoStrandedWaiter'
  BY <1>2, <1>4 DEF NoStrandedWaiter, Sleepers
<1>6. QED
  BY <1>1, <1>2, <1>3, <1>4, <1>5

\* Every step of the gate preserves the invariant.
LEMMA GateInvStep == GateInv /\ [Next]_vars => GateInv'
<1> SUFFICES ASSUME GateInv, [Next]_vars PROVE GateInv'
  OBVIOUS
<1>1. ASSUME NEW c \in Callers, NEW k \in Keys, Call(c, k)
      PROVE  GateInv'
  BY <1>1, AttemptPreserves DEF Call
<1>2. ASSUME NEW c \in Callers, Resume(c)
      PROVE  GateInv'
  <2>1. /\ key[c] \in Keys /\ isNew[c] \in BOOLEAN
        /\ ~isNew[c] => key[c] \in seen
    BY <1>2 DEF Resume, GateInv, TypeOK
  <2>2. key' = [key EXCEPT ![c] = key[c]] /\ isNew' = [isNew EXCEPT ![c] = isNew[c]]
    BY <1>2 DEF Resume, GateInv, TypeOK
  <2>3. QED
    BY <1>2, <2>1, <2>2, AttemptPreserves DEF Resume
<1>3. ASSUME NEW c \in Callers, TimerFires(c)
      PROVE  GateInv'
  BY <1>3, TimerFiresPreserves
<1>4. ASSUME NEW c \in Callers, Finish(c)
      PROVE  GateInv'
  BY <1>4, FinishPreserves
<1>5. CASE Tick
  BY <1>5, TickPreserves
<1>6. CASE UNCHANGED vars
  BY <1>6 DEF vars, GateInv, TypeOK, Holders, Woken, Sleepers, NoStrandedWaiter
<1>7. QED
  BY <1>1, <1>2, <1>3, <1>4, <1>5, <1>6 DEF Next
-----------------------------------------------------------------------------
(* The theorems. *)

\* GateInv holds in every reachable state of the gate (gate.ts:73-117).
THEOREM GateInvariant == Spec => []GateInv
  BY GateInvInit, GateInvStep, PTL DEF Spec

\* The gate's variables keep their types.
THEOREM TypeCorrect == Spec => []TypeOK
<1>1. GateInv => TypeOK
  BY DEF GateInv
<1>2. QED
  BY <1>1, GateInvariant, PTL

\* The gate's count is exact and within the limit, provided the limit is a
\* number (gate.ts:45, 99-101, 109).
THEOREM SlotsBounded ==
  ASSUME ConfiguredMax # NaN
  PROVE  Spec => []SlotBound
<1>1. GateInv => SlotBound
  BY DEF GateInv, SlotBound
<1>2. QED
  BY <1>1, GateInvariant, PTL

\* First turns of two conversations are Gap apart, whatever the clock slip
\* and the order of wake-ups (gate.ts:15, 100-103).
THEOREM StampedeGuarded == Spec => StampedeGuard
<1> DEFINE Guarded == \A k \in Keys : k \in seen' \ seen => sinceFirst = Gap
<1>1. GateInv /\ [Next]_vars => [Guarded]_vars
  <2> SUFFICES ASSUME GateInv, Next PROVE Guarded
    OBVIOUS
  <2> SUFFICES ASSUME NEW k \in Keys, k \in seen' \ seen PROVE sinceFirst = Gap
    OBVIOUS
  <2>1. ASSUME NEW c \in Callers, NEW q, NEW new, Attempt(c, q, new)
        PROVE  sinceFirst = Gap
    <3>1. Proceed(c, q) /\ q = k
      BY <2>1 DEF Attempt, Proceed, Sleep
    <3>2. sinceStart >= Gap
      BY <3>1 DEF Proceed, MayProceed, GapOver
    <3>3. QED
      BY <3>2, GateAssumption DEF GateInv, TypeOK
  <2>2. ASSUME NEW c \in Callers, TimerFires(c) \/ Finish(c)
        PROVE  FALSE
    BY <2>2 DEF TimerFires, Finish
  <2>3. ~Tick
    BY DEF Tick
  <2>4. QED
    BY <2>1, <2>2, <2>3 DEF Next, Call, Resume
<1>2. QED
  BY <1>1, GateInvariant, PTL DEF Spec, StampedeGuard

\* With one clock read per attempt, no caller sleeps for ever beside a gate
\* that nobody holds (gate.ts:76, 110).
THEOREM NobodyStranded ==
  ASSUME ClockSlip = 0
  PROVE  Spec => []NoStrandedWaiter
<1>1. GateInv => NoStrandedWaiter
  BY DEF GateInv
<1>2. QED
  BY <1>1, GateInvariant, PTL

=============================================================================
