----------------------------- MODULE ToneHealth -----------------------------
(***************************************************************************)
(* The per-tone circuit breaker of packages/proxy-lib/src/health.ts.       *)
(*                                                                         *)
(* ToneHealth.states is a map from names to breaker records; a name that   *)
(* is not in it behaves like a fresh record, so the map is total here.     *)
(* Instead of openedAt a record has the age of the opening, which stops at *)
(* Cooldown: the code asks only whether the cooldown is over.              *)
(***************************************************************************)
EXTENDS Integers, SequencesExt

CONSTANTS
  Names,      \* names requests use: canonical models and aliases
  BreakerThreshold,  \* BREAKER_THRESHOLD
  Cooldown,   \* BREAKER_COOLDOWN_MS in ticks
  Shut        \* stands for openedAt = null

ASSUME HealthAssumption ==
  /\ BreakerThreshold \in Nat \ {0} /\ Cooldown \in Nat \ {0}
  /\ Shut \notin Nat

VARIABLE breaker  \* states

BreakerStates == [failures : Nat, age : 0..Cooldown \cup {Shut}, probe : BOOLEAN]

Closed == [failures |-> 0, age |-> Shut, probe |-> FALSE]

\* The map after recordSuccess(m).
AfterSuccess(b, m) == [b EXCEPT ![m] = Closed]

\* The map after recordFailure(m).
AfterFailure_Late(b, m) ==
  LET n == b[m].failures + 1 IN
  IF n > BreakerThreshold /\ b[m].age = Shut
  THEN [b EXCEPT ![m] = [failures |-> n, age |-> 0, probe |-> FALSE]]
  ELSE [b EXCEPT ![m].failures = n]

AfterFailure(b, m) ==
  LET n == b[m].failures + 1 IN
  IF n >= BreakerThreshold /\ b[m].age = Shut
  THEN [b EXCEPT ![m] = [failures |-> n, age |-> 0, probe |-> FALSE]]
  ELSE [b EXCEPT ![m].failures = n]

Status(b, m) ==
  CASE b[m].age = Shut -> "closed"
    [] b[m].age = Cooldown /\ ~b[m].probe -> "half_open"
    [] OTHER -> "open"

\* shouldRouteAway: its answer, and the map it leaves, in which a half-open tone
\* has its probe claimed.
RouteAway(b, m) == Status(b, m) = "open"

Claimed_Never(b, m) == b
Claimed(b, m) == IF Status(b, m) = "half_open" THEN [b EXCEPT ![m].probe = TRUE] ELSE b

\* The clock.
Older(b) == [m \in DOMAIN b |->
  IF b[m].age # Shut /\ b[m].age < Cooldown THEN [b[m] EXCEPT !.age = @ + 1] ELSE b[m]]
=============================================================================
