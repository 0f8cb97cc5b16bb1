----------------------------- MODULE StoreMaps -----------------------------
(***************************************************************************)
(* Maps from keys to the records of packages/proxy-lib/src/session-store.ts, *)
(* their expiry and the choice of what a full map loses.                   *)
(***************************************************************************)
EXTENDS Integers, FiniteSets

CONSTANTS
  Keys,         \* fingerprints of conversations
  Values,       \* a conversation id and how many messages it was sent
  NoRecord,     \* null
  Ttl,          \* ttlMs
  MaxSessions,  \* maxSessions
  MaxTime       \* where the clock stops

Records == [value : Values, used : 0..MaxTime]

ASSUME StoreAssumption ==
  /\ IsFiniteSet(Keys) /\ NoRecord \notin Records
  /\ Ttl \in Nat /\ MaxTime \in Nat /\ MaxSessions \in Nat \ {0}

Maps == [Keys -> Records \cup {NoRecord}]
Nothing == [k \in Keys |-> NoRecord]
Present(map) == {k \in Keys : map[k] # NoRecord}
Without(map, K) == [k \in Keys |-> IF k \in K THEN NoRecord ELSE map[k]]

Fresh(map, time) == Without(map, {k \in Present(map) : time - map[k].used > Ttl})

\* What a set may have to give up: the least recently used, as many as there
\* are too many.
Excess(map) == Cardinality(Present(map)) - MaxSessions
Evictions_OneShort(map) ==
  {E \in SUBSET Present(map) : Cardinality(E) = IF Excess(map) > 1 THEN Excess(map) - 1 ELSE 0}
Evictions(map) ==
  IF Excess(map) <= 0 THEN {{}}
  ELSE {E \in SUBSET Present(map) :
          /\ Cardinality(E) = Excess(map)
          /\ \A e \in E, f \in Present(map) \ E : map[e].used <= map[f].used}
=============================================================================
