-------------------------- MODULE DegradationProofs --------------------------
(***************************************************************************)
(* What protects the service when it degrades.  The backoff opens on fresh *)
(* evidence only, for any conversations, thresholds and times.  Of the     *)
(* requests that have a healthy fallback, one at most probes an open tone, *)
(* for any tones, fallbacks, requests, threshold and cooldown.             *)
(***************************************************************************)
EXTENDS Backoff, ToneRouting, FiniteSetTheorems, TLAPS

-----------------------------------------------------------------------------
(* The degradation backoff. *)

Reports == {"content", "empty", "other"}

BackoffIInv == BackoffTypeOK /\ BackoffInv

\* An empty keeps the controller's part of the invariant.
LEMMA NoteEmptyKeeps ==
  ASSUME BackoffIInv, NEW c \in Convs, NoteEmpty(c)
  PROVE  /\ age' \in [Convs -> 0..WindowMs]
         /\ left' \in 0..MaxCooldown /\ cooldown' \in 0..MaxCooldown /\ left' <= cooldown'
         /\ reporters' \subseteq Convs
         /\ {d \in Convs : age'[d] < WindowMs} \subseteq reporters'
<1> USE BackoffAssumption DEF BackoffIInv, BackoffTypeOK, BackoffInv
<1> DEFINE noted == [age EXCEPT ![c] = 0]
           distinct == {d \in Convs : noted[d] < WindowMs}
<1>1. CASE Cardinality(distinct) < Threshold \/ left > 0
  <2>1. age' = noted /\ reporters' = reporters \cup {c} /\ UNCHANGED <<left, cooldown>>
    BY <1>1 DEF NoteEmpty
  <2>2. \A d \in Convs : d # c => noted[d] = age[d]
    OBVIOUS
  <2> QED
    BY <2>1, <2>2
<1>2. CASE ~(Cardinality(distinct) < Threshold \/ left > 0)
  <2>1. /\ age' = [d \in Convs |-> WindowMs] /\ reporters' = {}
        /\ cooldown' = Smaller(IF cooldown = 0 THEN BaseCooldown ELSE 2 * cooldown, MaxCooldown)
        /\ left' = cooldown'
    BY <1>2 DEF NoteEmpty
  <2>2. cooldown' \in 0..MaxCooldown
    BY <2>1 DEF Smaller
  <2> QED
    BY <2>1, <2>2
<1> QED
  BY <1>1, <1>2

\* The inductive invariant.
THEOREM BackoffInvariant == BackoffSpec => []BackoffIInv
<1>1. BackoffInit => BackoffIInv
  BY BackoffAssumption, SMTT(30) DEF BackoffInit, BackoffIInv, BackoffTypeOK, BackoffInv
<1>2. BackoffIInv /\ [BackoffNext]_backoffVars => BackoffIInv'
  <2> SUFFICES ASSUME BackoffIInv, [BackoffNext]_backoffVars PROVE BackoffIInv'
    OBVIOUS
  <2> USE BackoffAssumption DEF BackoffIInv, BackoffTypeOK, BackoffInv
  <2>1. ASSUME NEW r \in Callers, NEW c \in Convs, WaitForSlot(r, c) PROVE BackoffIInv'
    <3>1. PICK delay \in Delays :
            /\ nap' = [nap EXCEPT ![r] = delay]
            /\ pace' = [pace EXCEPT ![r] = IF delay > 0 THEN "napping" ELSE "turn"]
      BY <2>1 DEF WaitForSlot
    <3>2. delay \in Nat /\ delay <= MaxCooldown
      BY DEF Delays, Smaller
    <3> QED
      BY <2>1, <3>1, <3>2 DEF WaitForSlot
  <2>2. ASSUME NEW r \in Callers, Wake(r) PROVE BackoffIInv'
    BY <2>2 DEF Wake
  <2>3. ASSUME NEW r \in Callers, NEW outcome \in Reports, Report(r, outcome) PROVE BackoffIInv'
    <3>1. /\ pace[r] = "turn" /\ conv[r] \in Convs /\ nap[r] = 0
          /\ pace' = [pace EXCEPT ![r] = "idle"] /\ conv' = [conv EXCEPT ![r] = NoConv]
          /\ nap' = nap
      BY <2>3 DEF Report
    <3>2. /\ pace' \in [Callers -> {"idle", "napping", "turn"}]
          /\ conv' \in [Callers -> Convs \cup {NoConv}] /\ nap' \in [Callers -> Nat]
          /\ \A q \in Callers : nap'[q] <= MaxCooldown /\ (nap'[q] > 0 => pace'[q] = "napping")
          /\ \A q \in Callers : pace'[q] # "idle" <=> conv'[q] \in Convs
      BY <3>1
    <3>3. /\ age' \in [Convs -> 0..WindowMs]
          /\ left' \in 0..MaxCooldown /\ cooldown' \in 0..MaxCooldown /\ left' <= cooldown'
          /\ reporters' \subseteq Convs
          /\ {d \in Convs : age'[d] < WindowMs} \subseteq reporters'
      <4>1. CASE outcome = "content"
        BY <2>3, <4>1 DEF Report, NoteClean
      <4>2. CASE outcome = "empty"
        BY <2>3, <4>2, <3>1, NoteEmptyKeeps DEF Report
      <4>3. CASE outcome = "other"
        BY <2>3, <4>3 DEF Report
      <4> QED
        BY <4>1, <4>2, <4>3 DEF Reports
    <3> QED
      BY <3>2, <3>3
  <2>4. CASE BackoffTick
    BY <2>4 DEF BackoffTick, Smaller
  <2>5. CASE UNCHANGED backoffVars
    BY <2>5 DEF backoffVars
  <2> QED
    BY <2>1, <2>2, <2>3, <2>4, <2>5 DEF BackoffNext, Reports
<1> QED
  BY <1>1, <1>2, PTL DEF BackoffSpec

\* Every variable keeps its type, and what is left never exceeds the cooldown.
THEOREM BackoffTypeCorrect == BackoffSpec => []BackoffTypeOK
BY BackoffInvariant, PTL DEF BackoffIInv

\* What the controller counts was reported after the last trigger and the last
\* content, and nobody sleeps longer than the longest cooldown.
THEOREM CountsAreFresh == BackoffSpec => []BackoffInv
BY BackoffInvariant, PTL DEF BackoffIInv

\* An empty makes the backoff longer only if it is over and the reporters since the
\* last trigger and the last content, this one included, reach the threshold.
LEMMA OpenedByEvidence ==
  ASSUME BackoffIInv, NEW c \in Convs, NoteEmpty(c), left' > left
  PROVE  left = 0 /\ Cardinality(reporters \cup {c}) >= Threshold
<1> USE BackoffAssumption DEF BackoffIInv, BackoffTypeOK, BackoffInv
<1> DEFINE noted == [age EXCEPT ![c] = 0]
           distinct == {d \in Convs : noted[d] < WindowMs}
<1>1. ~(Cardinality(distinct) < Threshold \/ left > 0)
  <2> SUFFICES ASSUME Cardinality(distinct) < Threshold \/ left > 0 PROVE left' = left
    OBVIOUS
  <2> QED
    BY DEF NoteEmpty
<1>2. distinct \subseteq reporters \cup {c}
  <2>1. \A d \in Convs : d # c => noted[d] = age[d]
    OBVIOUS
  <2> QED
    BY <2>1
<1>3. IsFiniteSet(reporters \cup {c})
  BY FS_Subset
<1>4. /\ IsFiniteSet(distinct) /\ Cardinality(distinct) <= Cardinality(reporters \cup {c})
      /\ Cardinality(distinct) \in Nat /\ Cardinality(reporters \cup {c}) \in Nat
  BY <1>2, <1>3, FS_Subset, FS_CardinalityType
<1> QED
  BY <1>1, <1>4

\* A burst never stacks the delay, and one long conversation never opens it.
THEOREM EvidenceIsFresh == BackoffSpec => FreshEvidence
<1> DEFINE Fresh ==
      left' > left =>
        /\ left = 0
        /\ \E r \in Callers :
             /\ pace[r] = "turn" /\ pace'[r] = "idle"
             /\ Cardinality(reporters \cup {conv[r]}) >= Threshold
<1>1. BackoffIInv /\ [BackoffNext]_backoffVars => [Fresh]_backoffVars
  <2> SUFFICES ASSUME BackoffIInv, BackoffNext, left' > left PROVE Fresh
    OBVIOUS
  <2> USE BackoffAssumption DEF BackoffIInv, BackoffTypeOK, BackoffInv
  <2>1. ASSUME NEW r \in Callers, NEW c \in Convs, WaitForSlot(r, c) PROVE FALSE
    BY <2>1 DEF WaitForSlot
  <2>2. ASSUME NEW r \in Callers, Wake(r) PROVE FALSE
    BY <2>2 DEF Wake
  <2>3. ASSUME NEW r \in Callers, NEW outcome \in Reports, Report(r, outcome) PROVE Fresh
    <3>1. pace[r] = "turn" /\ conv[r] \in Convs /\ pace'[r] = "idle"
      BY <2>3 DEF Report
    <3>2. outcome = "empty"
      BY <2>3 DEF Report, NoteClean, Reports
    <3>3. NoteEmpty(conv[r])
      BY <2>3, <3>2 DEF Report
    <3> QED
      BY <3>1, <3>3, OpenedByEvidence
  <2>4. CASE BackoffTick
    BY <2>4 DEF BackoffTick
  <2> QED
    BY <2>1, <2>2, <2>3, <2>4 DEF BackoffNext, Reports
<1> QED
  BY <1>1, BackoffInvariant, PTL DEF BackoffSpec, FreshEvidence
-----------------------------------------------------------------------------
(* The breakers. *)

\* What a breaker record and its count of admissions satisfy.
Sound(x, k) ==
  /\ x.probe => x.age # Shut
  /\ x.age # Shut <=> x.failures >= BreakerThreshold
  /\ k <= IF x.probe THEN 1 ELSE 0
  /\ x.probe => x.age = Cooldown

RoutingInv == TypeOK /\ \A m \in Names : Sound(breaker[m], admitted[m])

LEMMA RoutingInvImplies == RoutingInv => TypeOK /\ OneProbe /\ BreakerInv
BY DEF RoutingInv, Sound, OneProbe, BreakerInv, TypeOK

LEMMA RoutingInvInit == Init => RoutingInv
<1> SUFFICES ASSUME Init PROVE RoutingInv
  OBVIOUS
<1>1. Closed \in BreakerStates
  BY DEF Closed, BreakerStates
<1>2. TypeOK
  BY <1>1 DEF Init, TypeOK, Stages
<1>3. ASSUME NEW m \in Names PROVE Sound(breaker[m], admitted[m])
  BY HealthAssumption DEF Init, Closed, Sound
<1>4. QED
  BY <1>2, <1>3 DEF RoutingInv

\* The types of the records a breaker can become.
LEMMA BreakerTypes ==
  ASSUME NEW b \in [Names -> BreakerStates], NEW m \in Names
  PROVE  /\ AfterSuccess(b, m) \in [Names -> BreakerStates]
         /\ AfterFailure(b, m) \in [Names -> BreakerStates]
         /\ Claimed(b, m) \in [Names -> BreakerStates]
         /\ Older(b) \in [Names -> BreakerStates]
<1>1. /\ b[m] \in BreakerStates /\ b[m].failures + 1 \in Nat
      /\ \A n \in Names : b[n] \in BreakerStates
  BY DEF BreakerStates
<1>2. AfterSuccess(b, m) \in [Names -> BreakerStates]
  BY DEF AfterSuccess, Closed, BreakerStates
<1>3. AfterFailure(b, m) \in [Names -> BreakerStates]
  <2>1. [failures |-> b[m].failures + 1, age |-> 0, probe |-> FALSE] \in BreakerStates
    BY <1>1, HealthAssumption DEF BreakerStates
  <2>2. [b[m] EXCEPT !.failures = b[m].failures + 1] \in BreakerStates
    BY <1>1 DEF BreakerStates
  <2>3. QED
    BY <2>1, <2>2 DEF AfterFailure
<1>4. Claimed(b, m) \in [Names -> BreakerStates]
  <2>1. [b[m] EXCEPT !.probe = TRUE] \in BreakerStates
    BY <1>1 DEF BreakerStates
  <2>2. QED
    BY <2>1 DEF Claimed
<1>5. Older(b) \in [Names -> BreakerStates]
  <2>1. ASSUME NEW n \in Names, b[n].age # Shut, b[n].age < Cooldown
        PROVE  [b[n] EXCEPT !.age = @ + 1] \in BreakerStates
    BY <1>1, <2>1, HealthAssumption DEF BreakerStates
  <2>2. QED
    BY <1>1, <2>1 DEF Older
<1>6. QED
  BY <1>2, <1>3, <1>4, <1>5

\* recordFailure keeps a record sound: it never opens a claimed one.
LEMMA FailureSound ==
  ASSUME NEW b \in [Names -> BreakerStates], NEW m \in Names, NEW k \in Nat, Sound(b[m], k)
  PROVE  /\ \A n \in Names \ {m} : AfterFailure(b, m)[n] = b[n]
         /\ Sound(AfterFailure(b, m)[m], k)
<1> DEFINE x == b[m]
           n == x.failures + 1
<1>1. /\ x.failures \in Nat /\ x.probe \in BOOLEAN /\ x.age \in 0..Cooldown \cup {Shut}
      /\ x \in BreakerStates
  BY DEF BreakerStates
<1>2. CASE n >= BreakerThreshold /\ x.age = Shut
  <2>1. AfterFailure(b, m) = [b EXCEPT ![m] = [failures |-> n, age |-> 0, probe |-> FALSE]]
    BY <1>2 DEF AfterFailure
  <2>2. AfterFailure(b, m)[m] = [failures |-> n, age |-> 0, probe |-> FALSE]
    BY <2>1
  <2>3. k <= 0
    BY <1>1, <1>2 DEF Sound
  <2>4. Sound([failures |-> n, age |-> 0, probe |-> FALSE], k)
    BY <1>2, <2>3, HealthAssumption DEF Sound
  <2>5. QED
    BY <2>1, <2>2, <2>4
<1>3. CASE ~(n >= BreakerThreshold /\ x.age = Shut)
  <2>1. AfterFailure(b, m) = [b EXCEPT ![m].failures = n]
    BY <1>3 DEF AfterFailure
  <2>2. AfterFailure(b, m)[m] = [x EXCEPT !.failures = n]
    BY <2>1
  <2>3. /\ AfterFailure(b, m)[m].failures = n /\ AfterFailure(b, m)[m].age = x.age
        /\ AfterFailure(b, m)[m].probe = x.probe
    BY <1>1, <2>2 DEF BreakerStates
  <2>4. Sound(AfterFailure(b, m)[m], k)
    BY <1>1, <1>3, <2>3, HealthAssumption DEF Sound
  <2>5. QED
    BY <2>1, <2>4
<1>4. QED
  BY <1>2, <1>3

\* shouldRouteAway keeps a record sound, and the probe it claims makes room for one
\* request that is sent to the half-open tone.
LEMMA ClaimSound ==
  ASSUME NEW b \in [Names -> BreakerStates], NEW m \in Names, NEW k \in Nat, Sound(b[m], k)
  PROVE  /\ \A n \in Names \ {m} : Claimed(b, m)[n] = b[n]
         /\ Sound(Claimed(b, m)[m], k)
         /\ Status(b, m) = "half_open" => Sound(Claimed(b, m)[m], k + 1)
<1>1. /\ b[m].failures \in Nat /\ b[m].probe \in BOOLEAN /\ b[m] \in BreakerStates
  BY DEF BreakerStates
<1>2. CASE Status(b, m) = "half_open"
  <2>1. b[m].age = Cooldown /\ b[m].probe = FALSE
    BY <1>1, <1>2 DEF Status
  <2>2. Claimed(b, m) = [b EXCEPT ![m].probe = TRUE]
    BY <1>2 DEF Claimed
  <2>3. /\ Claimed(b, m)[m].probe = TRUE /\ Claimed(b, m)[m].age = b[m].age
        /\ Claimed(b, m)[m].failures = b[m].failures
    BY <1>1, <2>2 DEF BreakerStates
  <2>4. Sound(Claimed(b, m)[m], k + 1) /\ Sound(Claimed(b, m)[m], k)
    BY <2>1, <2>3, HealthAssumption DEF Sound
  <2>5. QED
    BY <1>2, <2>2, <2>4
<1>3. CASE Status(b, m) # "half_open"
  BY <1>3 DEF Claimed
<1>4. QED
  BY <1>2, <1>3

\* A tone that is not routed away and not closed is half-open.
LEMMA HalfOpen ==
  ASSUME NEW b, NEW m, ~RouteAway(b, m), b[m].age # Shut
  PROVE  Status(b, m) = "half_open"
BY DEF RouteAway, Status

\* A request that has a healthy fallback is sent to a tone that is not routed away,
\* under the name of that tone.
LEMMA ChosenIsHealthy ==
  ASSUME NEW b, NEW n \in Names, NEW to \in Names, Rerouted(b, n, to), HasFallback(b, n)
  PROVE  ~RouteAway(b, to) /\ Canonical[to] = to
<1>1. PICK alt \in Names : IsFallback(b, n, alt)
  BY DEF HasFallback
<1>2. PICK i \in DOMAIN Fallbacks[n] : alt = Fallbacks[n][i]
  BY <1>1 DEF IsFallback
<1>3. Fallbacks[n] # <<>>
  <2> SUFFICES ASSUME Fallbacks[n] = <<>> PROVE FALSE
    OBVIOUS
  <2>1. DOMAIN Fallbacks[n] = {}
    OBVIOUS
  <2> QED
    BY <1>2, <2>1
<1>4. CASE RouteAway(b, n)
  <2>1. IsFallback(b, n, to)
    BY <1>4 DEF Rerouted
  <2> QED
    BY <2>1, RoutingAssumption DEF IsFallback
<1>5. CASE ~RouteAway(b, n)
  BY <1>3, <1>5, RoutingAssumption DEF Rerouted
<1> QED
  BY <1>4, <1>5

\* Every breaker record stays sound when `to' is claimed and the request sent.
LEMMA SendSound ==
  ASSUME RoutingInv, NEW to \in Names, NEW choice \in BOOLEAN, SentTo(Canonical[to], choice),
         choice => ~RouteAway(breaker, to) /\ Canonical[to] = to
  PROVE  /\ admitted' \in [Names -> Nat] /\ Claimed(breaker, to) \in [Names -> BreakerStates]
         /\ \A n \in Names : Sound(Claimed(breaker, to)[n], admitted'[n])
<1>1. breaker \in [Names -> BreakerStates] /\ admitted \in [Names -> Nat]
  BY DEF RoutingInv, TypeOK
<1>2. admitted' \in [Names -> Nat]
  BY <1>1, RoutingAssumption DEF SentTo
<1>3. Claimed(breaker, to) \in [Names -> BreakerStates]
  BY <1>1, BreakerTypes
<1>4. ASSUME NEW n \in Names PROVE Sound(Claimed(breaker, to)[n], admitted'[n])
  <2>1. Sound(breaker[n], admitted[n]) /\ admitted[n] \in Nat
    BY <1>1 DEF RoutingInv
  <2>2. Sound(Claimed(breaker, to)[n], admitted[n])
    <3>1. CASE n = to
      BY <1>1, <2>1, <3>1, ClaimSound
    <3>2. CASE n # to
      BY <1>1, <2>1, <3>2 DEF Claimed
    <3> QED
      BY <3>1, <3>2
  <2>3. CASE n = to /\ choice /\ breaker[to].age # Shut
    <3>1. admitted'[n] = admitted[n] + 1
      BY <1>1, <2>3 DEF SentTo
    <3>2. Status(breaker, n) = "half_open"
      BY <2>3, HalfOpen
    <3> QED
      BY <1>1, <2>1, <2>3, <3>1, <3>2, ClaimSound
  <2>4. CASE ~(n = to /\ choice /\ breaker[to].age # Shut)
    <3>1. admitted'[n] = admitted[n]
      BY <1>1, <2>4, RoutingAssumption DEF SentTo
    <3> QED
      BY <2>2, <3>1
  <2> QED
    BY <2>3, <2>4
<1> QED
  BY <1>2, <1>3, <1>4

\* A recorded failure of m.
LEMMA RecordedSound ==
  ASSUME NEW b \in [Names -> BreakerStates], NEW k \in [Names -> Nat], NEW m \in Names,
         \A n \in Names : Sound(b[n], k[n])
  PROVE  /\ AfterFailure(b, m) \in [Names -> BreakerStates]
         /\ \A n \in Names : Sound(AfterFailure(b, m)[n], k[n])
<1>1. ASSUME NEW n \in Names PROVE Sound(AfterFailure(b, m)[n], k[n])
  <2>1. k[m] \in Nat /\ Sound(b[m], k[m])
    OBVIOUS
  <2>2. Sound(AfterFailure(b, m)[m], k[m]) /\ \A o \in Names \ {m} : AfterFailure(b, m)[o] = b[o]
    BY <2>1, FailureSound
  <2> QED
    BY <2>2
<1> QED
  BY <1>1, BreakerTypes

LEMMA RoutingInvStep == RoutingInv /\ [Next]_vars => RoutingInv'
<1> SUFFICES ASSUME RoutingInv, [Next]_vars PROVE RoutingInv'
  OBVIOUS
<1>1. /\ breaker \in [Names -> BreakerStates] /\ admitted \in [Names -> Nat]
      /\ requested \in [Requests -> Names] /\ model \in [Requests -> Names]
      /\ stage \in [Requests -> Stages] /\ depth \in [Requests -> {0, 1}]
      /\ \A m \in Names : Sound(breaker[m], admitted[m])
  BY DEF RoutingInv, TypeOK
<1>2. \A s \in DOMAIN Rounds : Rounds[s] \subseteq Stages
  BY DEF Rounds, Stages
<1>3. ASSUME NEW r \in Requests, Begin(r)
      PROVE  RoutingInv'
  <2>1. PICK to \in Names :
          /\ Rerouted(breaker, requested[r], to)
          /\ breaker' = Claimed(breaker, to)
          /\ SentTo(Canonical[to], HasFallback(breaker, requested[r]))
          /\ stage' = [stage EXCEPT ![r] = "running"]
          /\ model' = [model EXCEPT ![r] = Canonical[to]]
          /\ UNCHANGED <<requested, depth>>
    BY <1>3 DEF Begin
  <2>2. HasFallback(breaker, requested[r]) => ~RouteAway(breaker, to) /\ Canonical[to] = to
    BY <1>1, <2>1, ChosenIsHealthy
  <2>3. HasFallback(breaker, requested[r]) \in BOOLEAN
    BY DEF HasFallback
  <2>4. /\ admitted' \in [Names -> Nat] /\ breaker' \in [Names -> BreakerStates]
        /\ \A n \in Names : Sound(breaker'[n], admitted'[n])
    BY <2>1, <2>2, <2>3, SendSound
  <2>5. stage' \in [Requests -> Stages] /\ model' \in [Requests -> Names]
    BY <1>1, <2>1, RoutingAssumption DEF Stages, Rounds
  <2> QED
    BY <1>1, <2>1, <2>4, <2>5 DEF RoutingInv, TypeOK
<1>4. ASSUME NEW r \in Requests, Content(r)
      PROVE  RoutingInv'
  <2>1. TypeOK'
    BY <1>1, <1>2, <1>4, BreakerTypes DEF TypeOK, Content
  <2>2. ASSUME NEW m \in Names PROVE Sound(breaker'[m], admitted'[m])
    <3>1. CASE m = model[r]
      <4>1. breaker'[m] = Closed /\ admitted'[m] = 0
        BY <1>1, <1>4, <3>1 DEF Content, AfterSuccess
      <4>2. QED
        BY <4>1, HealthAssumption DEF Closed, Sound
    <3>2. CASE m # model[r]
      <4>1. breaker'[m] = breaker[m] /\ admitted'[m] = admitted[m]
        BY <1>1, <1>4, <3>2 DEF Content, AfterSuccess
      <4>2. QED
        BY <1>1, <4>1
    <3>3. QED
      BY <3>1, <3>2
  <2>3. QED
    BY <2>1, <2>2 DEF RoutingInv
<1>5. ASSUME NEW r \in Requests, NEW atLimit \in BOOLEAN,
             Outage(r, atLimit) \/ KeepCalls(r, atLimit)
      PROVE  RoutingInv'
  <2>1. /\ model[r] \in Names
        /\ breaker' = breaker \/ breaker' = AfterFailure(breaker, model[r])
        /\ UNCHANGED <<requested, model, depth, admitted>>
    BY <1>1, <1>5 DEF Outage, KeepCalls, Recorded
  <2>2. breaker' \in [Names -> BreakerStates] /\ \A m \in Names : Sound(breaker'[m], admitted[m])
    BY <1>1, <2>1, RecordedSound
  <2>3. stage' \in [Requests -> Stages]
    BY <1>1, <1>5 DEF Outage, KeepCalls, Stages, Rounds
  <2>4. QED
    BY <1>1, <2>1, <2>2, <2>3 DEF RoutingInv, TypeOK
<1>6. ASSUME NEW r \in Requests, Failover(r)
      PROVE  RoutingInv'
  <2>1. PICK to \in Names :
          /\ IsFallback(breaker, model[r], to)
          /\ breaker' = AfterFailure(Claimed(breaker, to), model[r])
          /\ SentTo(Canonical[to], TRUE)
          /\ stage' = [stage EXCEPT ![r] = "running"]
          /\ depth' = [depth EXCEPT ![r] = 1]
          /\ model' = [model EXCEPT ![r] = Canonical[to]]
          /\ UNCHANGED requested
    BY <1>6 DEF Failover
  <2>2. ~RouteAway(breaker, to) /\ Canonical[to] = to
    BY <1>1, <2>1, RoutingAssumption DEF IsFallback
  <2>3. /\ admitted' \in [Names -> Nat] /\ Claimed(breaker, to) \in [Names -> BreakerStates]
        /\ \A n \in Names : Sound(Claimed(breaker, to)[n], admitted'[n])
    BY <2>1, <2>2, SendSound
  <2>4. /\ breaker' \in [Names -> BreakerStates]
        /\ \A n \in Names : Sound(breaker'[n], admitted'[n])
    BY <1>1, <2>1, <2>3, RecordedSound
  <2>5. /\ stage' \in [Requests -> Stages] /\ model' \in [Requests -> Names]
        /\ depth' \in [Requests -> {0, 1}]
    BY <1>1, <2>1, RoutingAssumption DEF Stages, Rounds
  <2>6. QED
    BY <1>1, <2>1, <2>3, <2>4, <2>5 DEF RoutingInv, TypeOK
<1>7. ASSUME NEW r \in Requests, OtherFailure(r) \/ GiveUp(r)
      PROVE  RoutingInv'
  BY <1>1, <1>7 DEF OtherFailure, GiveUp, RoutingInv, TypeOK, Stages
<1>8. CASE Tick
  <2>1. TypeOK'
    BY <1>1, <1>8, BreakerTypes DEF Tick, TypeOK, requestVars
  <2>2. ASSUME NEW m \in Names PROVE Sound(breaker'[m], admitted'[m])
    <3>1. Sound(breaker[m], admitted[m])
      BY DEF RoutingInv
    <3>2. CASE breaker[m].age # Shut /\ breaker[m].age < Cooldown
      <4>1. breaker'[m] = [breaker[m] EXCEPT !.age = @ + 1] /\ admitted' = admitted
        BY <1>1, <1>8, <3>2 DEF Tick, Older
      <4>2. /\ breaker'[m].age = breaker[m].age + 1 /\ breaker'[m].age # Shut
            /\ breaker'[m].probe = breaker[m].probe
            /\ breaker'[m].failures = breaker[m].failures
        <5>1. breaker[m] \in BreakerStates /\ breaker[m].age \in Nat
          BY <1>1, <3>2 DEF BreakerStates
        <5>2. QED
          BY <4>1, <5>1, HealthAssumption DEF BreakerStates
      <4>3. QED
        BY <1>1, <3>1, <3>2, <4>1, <4>2, HealthAssumption DEF Sound, BreakerStates
    <3>3. CASE ~(breaker[m].age # Shut /\ breaker[m].age < Cooldown)
      <4>1. breaker'[m] = breaker[m] /\ admitted' = admitted
        BY <1>1, <1>8, <3>3 DEF Tick, Older
      <4>2. QED
        BY <3>1, <4>1
    <3>4. QED
      BY <3>2, <3>3
  <2>3. QED
    BY <2>1, <2>2 DEF RoutingInv
<1>9. CASE UNCHANGED vars
  BY <1>9 DEF vars, requestVars, RoutingInv, TypeOK
<1>10. QED
  BY <1>3, <1>4, <1>5, <1>6, <1>7, <1>8, <1>9 DEF Next

\* Of the requests with a healthy fallback, at most one goes to an open tone, and none
\* before its cooldown is over, for any number of requests (rerouteIfOpen,
\* handler.ts 616-623, and shouldRouteAway, health.ts 98-109).
THEOREM OneProbePerOpening == Spec => []OneProbe
<1>1. RoutingInv => OneProbe
  BY RoutingInvImplies
<1>2. QED
  BY <1>1, RoutingInvInit, RoutingInvStep, PTL DEF Spec

\* A breaker is open exactly when enough failures in a row were recorded
\* (recordFailure and recordSuccess, health.ts 67-87).
THEOREM BreakersOpenAtThreshold == Spec => []BreakerInv
<1>1. RoutingInv => BreakerInv
  BY RoutingInvImplies
<1>2. QED
  BY <1>1, RoutingInvInit, RoutingInvStep, PTL DEF Spec
=============================================================================
