-------------------------- MODULE PersistenceProofs --------------------------
(***************************************************************************)
(* What outlives a request.                                                *)
(*                                                                         *)
(* Of SessionStore, for any keys, time to live and capacity: both backends *)
(* implement RecordStore, and no snapshot is larger than it may.           *)
(*                                                                         *)
(* Of TurnAccess, for any number of requests, sessions and ids: flights    *)
(* and runs are shared as they should, hosts that take turns make at most  *)
(* one agent, and a refresh ends at an agent that exists.                  *)
(***************************************************************************)
EXTENDS SessionStore, TurnAccess, FiniteSetTheorems, TLAPS

-----------------------------------------------------------------------------
(* Sessions. *)

(* Maps. *)

LEMMA NothingIsMap == Nothing \in Maps /\ Present(Nothing) = {}
BY DEF Nothing, Maps, Present

LEMMA MapApplied ==
  ASSUME NEW map \in Maps, NEW k \in Present(map)
  PROVE  k \in Keys /\ map[k] \in Records /\ map[k].used \in Nat /\ map[k].used \in 0..MaxTime
BY StoreAssumption DEF Maps, Present, Records

\* Taking keys out of a map.
LEMMA WithoutIsMap ==
  ASSUME NEW map \in Maps, NEW K
  PROVE  Without(map, K) \in Maps /\ Present(Without(map, K)) = Present(map) \ K
BY DEF Without, Maps, Present

\* What is fresh at a time: a record that is there and not older than the time to live.
LEMMA FreshApplied ==
  ASSUME NEW map \in Maps, NEW t \in Nat
  PROVE  /\ Fresh(map, t) \in Maps
         /\ \A k \in Keys : Fresh(map, t)[k] =
              IF map[k] # NoRecord /\ t - map[k].used > Ttl THEN NoRecord ELSE map[k]
         /\ Present(Fresh(map, t)) = {k \in Present(map) : t - map[k].used <= Ttl}
<1> DEFINE old == {k \in Present(map) : t - map[k].used > Ttl}
<1>1. Fresh(map, t) = Without(map, old)
  BY DEF Fresh
<1>2. Fresh(map, t) \in Maps /\ Present(Fresh(map, t)) = Present(map) \ old
  BY <1>1, WithoutIsMap
<1>3. \A k \in Keys : Fresh(map, t)[k] = IF k \in old THEN NoRecord ELSE map[k]
  BY <1>1 DEF Without
<1>4. \A k \in Keys : k \in old <=> map[k] # NoRecord /\ t - map[k].used > Ttl
  BY DEF Present
<1>5. \A k \in Present(map) : t - map[k].used <= Ttl <=> ~(t - map[k].used > Ttl)
  BY MapApplied, StoreAssumption
<1> QED
  BY <1>2, <1>3, <1>4, <1>5

\* Maps with the same records are the same.
LEMMA SameMaps ==
  ASSUME NEW f \in Maps, NEW g \in Maps, \A k \in Keys : f[k] = g[k]
  PROVE  f = g
BY DEF Maps

\* What was expired stays expired.
LEMMA FreshLater ==
  ASSUME NEW map \in Maps, NEW t \in Nat, NEW u \in Nat, t <= u
  PROVE  Fresh(Fresh(map, t), u) = Fresh(map, u)
<1>1. Fresh(map, t) \in Maps
  BY FreshApplied
<1>2. \A k \in Present(map) : map[k].used \in Nat
  BY MapApplied
<1>3. Fresh(Fresh(map, t), u) \in Maps /\ Fresh(map, u) \in Maps
  BY <1>1, FreshApplied
<1>4. ASSUME NEW k \in Keys PROVE Fresh(Fresh(map, t), u)[k] = Fresh(map, u)[k]
  <2>1. Fresh(Fresh(map, t), u)[k] =
          IF Fresh(map, t)[k] # NoRecord /\ u - Fresh(map, t)[k].used > Ttl THEN NoRecord ELSE Fresh(map, t)[k]
    BY <1>1, FreshApplied
  <2>2. Fresh(map, t)[k] = IF map[k] # NoRecord /\ t - map[k].used > Ttl THEN NoRecord ELSE map[k]
    BY FreshApplied
  <2>3. Fresh(map, u)[k] = IF map[k] # NoRecord /\ u - map[k].used > Ttl THEN NoRecord ELSE map[k]
    BY FreshApplied
  <2>4. CASE map[k] = NoRecord
    BY <2>1, <2>2, <2>3, <2>4
  <2>5. CASE map[k] # NoRecord
    <3>1. map[k].used \in Nat
      BY <1>2, <2>5 DEF Present
    <3>2. t - map[k].used > Ttl => u - map[k].used > Ttl
      BY <3>1, StoreAssumption
    <3> QED
      BY <2>1, <2>2, <2>3, <2>5, <3>2
  <2> QED
    BY <2>4, <2>5
<1> QED
  BY <1>3, <1>4, SameMaps

LEMMA FreshWithout ==
  ASSUME NEW map \in Maps, NEW t \in Nat, NEW K
  PROVE  Fresh(Without(map, K), t) = Without(Fresh(map, t), K)
<1>1. /\ Without(map, K) \in Maps /\ Fresh(map, t) \in Maps
      /\ Fresh(Without(map, K), t) \in Maps /\ Without(Fresh(map, t), K) \in Maps
  BY WithoutIsMap, FreshApplied
<1>2. ASSUME NEW k \in Keys PROVE Fresh(Without(map, K), t)[k] = Without(Fresh(map, t), K)[k]
  <2>1. Fresh(Without(map, K), t)[k] =
          IF Without(map, K)[k] # NoRecord /\ t - Without(map, K)[k].used > Ttl THEN NoRecord ELSE Without(map, K)[k]
    BY <1>1, FreshApplied
  <2>2. Fresh(map, t)[k] = IF map[k] # NoRecord /\ t - map[k].used > Ttl THEN NoRecord ELSE map[k]
    BY FreshApplied
  <2> QED
    BY <2>1, <2>2 DEF Without
<1> QED
  BY <1>1, <1>2, SameMaps

LEMMA FreshNothing == ASSUME NEW t \in Nat PROVE Fresh(Nothing, t) = Nothing
<1>1. Nothing \in Maps /\ Fresh(Nothing, t) \in Maps
  BY NothingIsMap, FreshApplied
<1>2. \A k \in Keys : Fresh(Nothing, t)[k] = Nothing[k]
  BY <1>1, FreshApplied DEF Nothing
<1> QED
  BY <1>1, <1>2, SameMaps

\* The map with a value of time t put into it.
PutIn(map, k, v, t) == [map EXCEPT ![k] = [value |-> v, used |-> t]]

\* A record of now is fresh, and does not change what else is.
LEMMA FreshPut ==
  ASSUME NEW map \in Maps, NEW t \in 0..MaxTime, NEW k \in Keys, NEW v \in Values
  PROVE  /\ PutIn(map, k, v, t) \in Maps
         /\ Fresh(PutIn(map, k, v, t), t) = PutIn(Fresh(map, t), k, v, t)
<1> DEFINE record == [value |-> v, used |-> t]
           put == [map EXCEPT ![k] = record]
<1>1. record \in Records /\ record # NoRecord /\ record.used = t /\ t \in Nat
  BY StoreAssumption DEF Records
<1> HIDE DEF record
<1>2. put \in Maps /\ \A j \in Keys : put[j] = IF j = k THEN record ELSE map[j]
  BY <1>1 DEF Maps
<1> HIDE DEF put
<1>3. Fresh(map, t) \in Maps /\ Fresh(put, t) \in Maps
  BY <1>1, <1>2, FreshApplied
<1>4. [Fresh(map, t) EXCEPT ![k] = record] \in Maps
  BY <1>1, <1>3 DEF Maps
<1>5. ASSUME NEW j \in Keys PROVE Fresh(put, t)[j] = [Fresh(map, t) EXCEPT ![k] = record][j]
  <2>1. Fresh(put, t)[j] = IF put[j] # NoRecord /\ t - put[j].used > Ttl THEN NoRecord ELSE put[j]
    BY <1>1, <1>2, FreshApplied
  <2>2. Fresh(map, t)[j] = IF map[j] # NoRecord /\ t - map[j].used > Ttl THEN NoRecord ELSE map[j]
    BY <1>1, FreshApplied
  <2>3. [Fresh(map, t) EXCEPT ![k] = record][j] = IF j = k THEN record ELSE Fresh(map, t)[j]
    BY <1>3 DEF Maps
  <2>4. ~(t - t > Ttl)
    BY <1>1, StoreAssumption
  <2> QED
    BY <1>1, <1>2, <2>1, <2>2, <2>3, <2>4
<1> QED
  <2>1. Fresh(put, t) = [Fresh(map, t) EXCEPT ![k] = record]
    BY <1>3, <1>4, <1>5, SameMaps
  <2> QED
    BY <1>2, <2>1 DEF put, record, PutIn

(* The sizes of maps. *)

LEMMA PresentFinite ==
  ASSUME NEW map \in Maps
  PROVE  /\ IsFiniteSet(Present(map)) /\ Cardinality(Present(map)) \in Nat
         /\ Excess(map) \in Int /\ Excess(map) = Cardinality(Present(map)) - MaxSessions
<1>1. Present(map) \in SUBSET Keys
  BY DEF Present
<1>2. IsFiniteSet(Present(map))
  BY <1>1, StoreAssumption, FS_Subset
<1> QED
  BY <1>2, FS_CardinalityType, StoreAssumption DEF Excess

\* A map with fewer records is no larger.
LEMMA SmallerExcess ==
  ASSUME NEW f \in Maps, NEW g \in Maps, Present(f) \subseteq Present(g)
  PROVE  Excess(f) <= Excess(g)
<1>1. Cardinality(Present(f)) <= Cardinality(Present(g))
  BY PresentFinite, FS_Subset
<1> QED
  BY <1>1, PresentFinite, StoreAssumption

\* After an eviction a map is not too large.
LEMMA EvictedFits ==
  ASSUME NEW map \in Maps, NEW E \in Evictions(map)
  PROVE  Excess(Without(map, E)) <= 0
<1>1. Without(map, E) \in Maps /\ Present(Without(map, E)) = Present(map) \ E
  BY WithoutIsMap
<1>2. CASE Excess(map) <= 0
  <2>1. Excess(Without(map, E)) <= Excess(map)
    BY <1>1, SmallerExcess
  <2> QED
    BY <1>1, <1>2, <2>1, PresentFinite
<1>3. CASE ~(Excess(map) <= 0)
  <2>1. E \in SUBSET Present(map) /\ Cardinality(E) = Excess(map)
    BY <1>3 DEF Evictions
  <2>2. Cardinality(Present(map) \ E) = Cardinality(Present(map)) - Cardinality(Present(map) \cap E)
    BY PresentFinite, FS_Difference
  <2>3. Present(map) \cap E = E
    BY <2>1
  <2>4. Cardinality(Present(map) \ E) = MaxSessions
    BY <2>1, <2>2, <2>3, PresentFinite, StoreAssumption
  <2> QED
    BY <1>1, <2>4, PresentFinite, StoreAssumption
<1> QED
  BY <1>2, <1>3

\* Expired records are the least recently used: what an eviction takes of the fresh
\* ones is an eviction of these.
LEMMA EvictedOfFresh ==
  ASSUME NEW map \in Maps, NEW t \in Nat, NEW E \in Evictions(map)
  PROVE  E \cap Present(Fresh(map, t)) \in Evictions(Fresh(map, t))
<1> DEFINE fresh == Fresh(map, t)
           F == Present(fresh)
           old == Present(map) \ F
           D == E \cap F
<1>1. /\ fresh \in Maps /\ F = {k \in Present(map) : t - map[k].used <= Ttl}
      /\ \A k \in F : fresh[k] = map[k]
  <2>1. fresh \in Maps /\ F = {k \in Present(map) : t - map[k].used <= Ttl}
    BY FreshApplied
  <2>2. ASSUME NEW k \in F PROVE fresh[k] = map[k]
    <3>1. k \in Keys /\ fresh[k] # NoRecord
      BY DEF Present
    <3> QED
      BY <3>1, FreshApplied
  <2> QED
    BY <2>1, <2>2
<1>2. /\ IsFiniteSet(Present(map)) /\ IsFiniteSet(F) /\ IsFiniteSet(old)
      /\ Cardinality(F) \in Nat /\ Cardinality(old) \in Nat
      /\ Cardinality(Present(map)) = Cardinality(F) + Cardinality(old)
  <2>1. IsFiniteSet(Present(map)) /\ IsFiniteSet(F) /\ Cardinality(F) \in Nat /\ Cardinality(Present(map)) \in Nat
    BY <1>1, PresentFinite
  <2>2. IsFiniteSet(old) /\ Cardinality(old) = Cardinality(Present(map)) - Cardinality(Present(map) \cap F)
    BY <2>1, FS_Difference
  <2>3. Present(map) \cap F = F
    BY <1>1
  <2>4. Cardinality(old) \in Nat
    BY <2>2, FS_CardinalityType
  <2>5. Cardinality(Present(map) \cap F) = Cardinality(F)
    BY <2>3
  <2> HIDE DEF old, F
  <2> QED
    BY <2>1, <2>2, <2>4, <2>5
<1>3. Excess(map) = Excess(fresh) + Cardinality(old) /\ Excess(fresh) \in Int
  <2>1. Excess(fresh) \in Int /\ Excess(fresh) = Cardinality(F) - MaxSessions
    BY <1>1, PresentFinite
  <2>2. Excess(map) = Cardinality(Present(map)) - MaxSessions
    BY PresentFinite
  <2> HIDE DEF old, F, fresh
  <2> QED
    BY <1>2, <2>1, <2>2, StoreAssumption
<1>4. E \subseteq Present(map) /\ IsFiniteSet(E)
  <2>1. E \subseteq Present(map)
    BY DEF Evictions
  <2> QED
    BY <1>2, <2>1, FS_Subset
<1>5. \A e \in F, f \in old : map[f].used < map[e].used
  <2> SUFFICES ASSUME NEW e \in F, NEW f \in old PROVE map[f].used < map[e].used
    OBVIOUS
  <2>1. map[e].used \in Nat /\ map[f].used \in Nat
    BY <1>1, MapApplied
  <2> QED
    BY <1>1, <2>1, StoreAssumption
<1> HIDE DEF fresh, F, old
<1>6. CASE Excess(map) <= 0
  <2>1. D = {} /\ Excess(fresh) <= 0
    BY <1>2, <1>3, <1>6 DEF Evictions
  <2> QED
    BY <2>1 DEF Evictions, fresh, F
<1>7. CASE ~(Excess(map) <= 0)
  <2>1. Cardinality(E) = Excess(map) /\ \A e \in E, f \in Present(map) \ E : map[e].used <= map[f].used
    BY <1>7 DEF Evictions
  <2>2. CASE Excess(fresh) <= 0
    <3>1. D = {}
      <4> SUFFICES ASSUME NEW e \in D PROVE FALSE
        OBVIOUS
      <4>1. old \subseteq E
        <5> SUFFICES ASSUME NEW f \in old, f \notin E PROVE FALSE
          OBVIOUS
        <5>1. map[e].used <= map[f].used /\ map[f].used < map[e].used
          BY <2>1, <1>5 DEF old
        <5>2. map[e].used \in Nat /\ map[f].used \in Nat
          BY <1>1, MapApplied DEF old
        <5> QED
          BY <5>1, <5>2
      <4>2. Cardinality(old \cup {e}) = Cardinality(old) + 1 /\ IsFiniteSet(old \cup {e})
        BY <1>2, FS_AddElement DEF old
      <4>3. Cardinality(old \cup {e}) <= Cardinality(E)
        BY <4>1, <1>4, FS_Subset
      <4> QED
        BY <1>2, <1>3, <2>1, <2>2, <4>2, <4>3
    <3> QED
      BY <2>2, <3>1 DEF Evictions, fresh, F
  <2>3. CASE ~(Excess(fresh) <= 0)
    <3>1. old \subseteq E
      <4> SUFFICES ASSUME NEW f \in old, f \notin E PROVE FALSE
        OBVIOUS
      <4>1. E \subseteq old \ {f}
        <5> SUFFICES ASSUME NEW e \in E, e \notin old PROVE FALSE
          OBVIOUS
        <5>1. e \in F
          BY <1>4 DEF old
        <5>2. map[e].used <= map[f].used /\ map[f].used < map[e].used
          BY <2>1, <1>5, <5>1 DEF old
        <5>3. map[e].used \in Nat /\ map[f].used \in Nat
          BY <1>1, <5>1, MapApplied DEF old
        <5> QED
          BY <5>2, <5>3
      <4>2. Cardinality(E) <= Cardinality(old)
        BY <4>1, <1>2, FS_Subset
      <4> QED
        BY <1>2, <1>3, <2>1, <2>3, <4>2
    <3>2. D = E \ old /\ E \cap old = old
      BY <3>1, <1>1, <1>4 DEF old
    <3>3. Cardinality(D) = Cardinality(E) - Cardinality(old)
      BY <3>2, <1>4, FS_Difference
    <3>4. Cardinality(D) = Excess(fresh)
      BY <3>3, <1>2, <1>3, <2>1
    <3>5. \A e \in D, f \in F \ D : fresh[e].used <= fresh[f].used
      BY <2>1, <1>1
    <3> QED
      BY <2>3, <3>4, <3>5 DEF Evictions, fresh, F
  <2> QED
    BY <2>2, <2>3
<1> QED
  BY <1>6, <1>7 DEF fresh, F

(* The sizes of snapshots. *)

LEMMA LoadedIsMap == ASSUME TypeOK PROVE Loaded \in Maps /\ now \in Nat /\ Fresh(Loaded, now) \in Maps
<1>1. now \in Nat /\ cache \in Maps /\ file.records \in Maps
  BY StoreAssumption DEF TypeOK
<1>2. Loaded \in Maps
  BY <1>1, FreshApplied, NothingIsMap DEF Loaded
<1> QED
  BY <1>1, <1>2, FreshApplied

\* What a set puts into a map.
LEMMA PutIsMap ==
  ASSUME TypeOK, NEW map \in Maps, NEW k \in Keys, NEW v \in Values
  PROVE  [map EXCEPT ![k] = [value |-> v, used |-> now]] \in Maps
BY FreshPut DEF TypeOK, PutIn

LEMMA CapacityInit == Init => Capacity
<1> SUFFICES ASSUME Init PROVE Capacity
  OBVIOUS
<1>1. file \in [format : {"none", "json", "sqlite"}, records : Maps]
  BY NothingIsMap DEF Init
<1>2. {loaded, readable} \subseteq BOOLEAN /\ cache \in Maps /\ answer \in Records \cup {NoRecord}
  BY NothingIsMap DEF Init
<1>3. now \in 0..MaxTime
  BY StoreAssumption DEF Init
<1>4. TypeOK
  BY <1>1, <1>2, <1>3 DEF Init, TypeOK
<1> QED
  BY <1>4 DEF Init, Capacity

\* Once the cache is loaded, it is what counts.
LEMMA CapacityOfCache ==
  ASSUME Capacity, backend' = "json", loaded' = TRUE, cache' \in Maps, Excess(cache') <= 0,
         UNCHANGED <<readable, now>>, answer' \in Records \cup {NoRecord},
         file' = file \/ file' = [format |-> "json", records |-> cache'], backend = "json"
  PROVE  Capacity'
<1>1. TypeOK'
  BY DEF Capacity, TypeOK
<1>2. Loaded' = cache'
  BY DEF Loaded
<1>3. file'.format = "json" => Excess(file'.records) <= 0
  BY DEF Capacity
<1> QED
  BY <1>1, <1>2, <1>3 DEF Capacity

LEMMA CapacityStep == Capacity /\ [Next]_vars => Capacity'
<1> SUFFICES ASSUME Capacity, [Next]_vars PROVE Capacity'
  OBVIOUS
<1>1. TypeOK /\ Loaded \in Maps /\ now \in Nat /\ Fresh(Loaded, now) \in Maps
  BY LoadedIsMap DEF Capacity
<1>2. backend = "json" => Excess(Loaded) <= 0
  BY DEF Capacity
<1>3. CASE OpenJson
  <2>1. TypeOK'
    BY <1>1, <1>3 DEF OpenJson, TypeOK
  <2>2. Loaded' = Nothing \/ (file.format = "json" /\ Loaded' = Fresh(file.records, now))
    BY <1>3 DEF OpenJson, Loaded
  <2>3. Excess(Nothing) <= 0
    BY NothingIsMap, FS_EmptySet, StoreAssumption DEF Excess
  <2>4. file.format = "json" => Excess(Fresh(file.records, now)) <= 0
    <3>1. file.records \in Maps
      BY <1>1 DEF TypeOK
    <3>2. Fresh(file.records, now) \in Maps /\ Present(Fresh(file.records, now)) \subseteq Present(file.records)
      BY <1>1, <3>1, FreshApplied
    <3> QED
      BY <3>1, <3>2, SmallerExcess, PresentFinite DEF Capacity
  <2> QED
    BY <1>3, <2>1, <2>2, <2>3, <2>4 DEF Capacity, OpenJson
<1>4. CASE OpenSqlite
  <2>1. file.records \in Maps /\ Fresh(file.records, now) \in Maps
    BY <1>1, FreshApplied DEF TypeOK
  <2>2. TypeOK'
    BY <1>1, <1>4, <2>1 DEF OpenSqlite, TypeOK
  <2> QED
    BY <1>4, <2>2 DEF Capacity, OpenSqlite
<1>5. ASSUME NEW k \in Keys, JsonGet(k) PROVE Capacity'
  <2>1. Without(Loaded, {k}) \in Maps /\ Excess(Without(Loaded, {k})) <= Excess(Loaded)
    BY <1>1, WithoutIsMap, SmallerExcess
  <2>2. cache' \in Maps /\ Excess(cache') <= 0
    BY <1>1, <1>2, <1>5, <2>1, PresentFinite DEF JsonGet
  <2>3. answer' \in Records \cup {NoRecord}
    BY <1>1, <1>5 DEF JsonGet, Maps
  <2> QED
    BY <1>5, <2>2, <2>3, CapacityOfCache DEF JsonGet
<1>6. ASSUME NEW k \in Keys, NEW v \in Values, JsonSet(k, v) PROVE Capacity'
  <2> DEFINE put == [Loaded EXCEPT ![k] = [value |-> v, used |-> now]]
  <2>1. PICK E \in Evictions(put) : cache' = Without(put, E)
    BY <1>6 DEF JsonSet
  <2>2. put \in Maps
    BY <1>1, PutIsMap
  <2> HIDE DEF put
  <2>3. cache' \in Maps /\ Excess(cache') <= 0
    BY <2>1, <2>2, WithoutIsMap, EvictedFits
  <2> QED
    BY <1>1, <1>6, <2>3, CapacityOfCache DEF JsonSet, TypeOK
<1>7. ASSUME NEW k \in Keys, JsonDelete(k) PROVE Capacity'
  <2>1. Without(Loaded, {k}) \in Maps /\ Excess(Without(Loaded, {k})) <= Excess(Loaded)
    BY <1>1, WithoutIsMap, SmallerExcess
  <2>2. cache' \in Maps /\ Excess(cache') <= 0
    BY <1>1, <1>2, <1>7, <2>1, PresentFinite DEF JsonDelete
  <2> QED
    BY <1>1, <1>7, <2>2, CapacityOfCache DEF JsonDelete, TypeOK
<1>8. CASE JsonPrune
  <2>1. Excess(Fresh(Loaded, now)) <= Excess(Loaded)
    BY <1>1, FreshApplied, SmallerExcess
  <2>2. cache' \in Maps /\ Excess(cache') <= 0
    BY <1>1, <1>2, <1>8, <2>1, PresentFinite DEF JsonPrune
  <2> QED
    BY <1>1, <1>8, <2>2, CapacityOfCache DEF JsonPrune, TypeOK
<1>9. CASE Flush
  <2>1. cache' \in Maps /\ Excess(cache') <= 0
    BY <1>1, <1>2, <1>9 DEF Flush
  <2> QED
    BY <1>1, <1>9, <2>1, CapacityOfCache DEF Flush, Flushed, TypeOK
<1>10. CASE Close
  <2>1. file' \in [format : {"none", "json", "sqlite"}, records : Maps]
    BY <1>1, <1>10 DEF Close, Flushed, TypeOK
  <2>2. {loaded', readable'} \subseteq BOOLEAN /\ cache' \in Maps
    BY <1>1, <1>10, NothingIsMap DEF Close, TypeOK
  <2>3. TypeOK'
    BY <1>1, <1>10, <2>1, <2>2 DEF Close, TypeOK
  <2> QED
    BY <1>2, <1>10, <2>3 DEF Close, Flushed, Capacity
<1>11. ASSUME UNCHANGED <<backend, loaded, readable, cache, now>>, backend = "sqlite",
              answer' \in Records \cup {NoRecord},
              file' = file \/ \E records \in Maps : Table(records)
       PROVE  Capacity'
  <2>1. file.format = "sqlite" /\ file'.format = "sqlite"
    BY <1>1, <1>11 DEF Table, TypeOK
  <2>2. TypeOK'
    BY <1>1, <1>11 DEF Table, TypeOK
  <2> QED
    BY <1>11, <2>1, <2>2, "sqlite" # "json" DEF Capacity
<1>12. file.records \in Maps /\ Fresh(file.records, now) \in Maps
  BY <1>1, FreshApplied DEF TypeOK
<1>13. ASSUME NEW k \in Keys, SqliteGet(k) PROVE Capacity'
  <2>1. answer' \in Records \cup {NoRecord}
    BY <1>12, <1>13 DEF SqliteGet, Maps
  <2>2. Without(file.records, {k}) \in Maps
    BY <1>12, WithoutIsMap
  <2> QED
    BY <1>11, <1>13, <2>1, <2>2 DEF SqliteGet
<1>14. ASSUME NEW k \in Keys, NEW v \in Values, SqliteSet(k, v) PROVE Capacity'
  <2> DEFINE put == [file.records EXCEPT ![k] = [value |-> v, used |-> now]]
  <2>1. put \in Maps
    BY <1>1, <1>12, PutIsMap
  <2>2. file' = file \/ \E E \in Evictions(put) \cup {{}} : Table(Without(put, E))
    BY <1>14 DEF SqliteSet
  <2> HIDE DEF put
  <2>3. file' = file \/ \E records \in Maps : Table(records)
    BY <2>1, <2>2, WithoutIsMap
  <2> QED
    BY <1>1, <1>11, <1>14, <2>3 DEF SqliteSet, TypeOK
<1>15. ASSUME NEW k \in Keys, SqliteDelete(k) PROVE Capacity'
  <2>1. Without(file.records, {k}) \in Maps
    BY <1>12, WithoutIsMap
  <2> QED
    BY <1>1, <1>11, <1>15, <2>1 DEF SqliteDelete, TypeOK
<1>16. CASE SqlitePrune
  BY <1>1, <1>11, <1>12, <1>16 DEF SqlitePrune, TypeOK
<1>17. CASE Crash
  <2>1. TypeOK'
    BY <1>1, <1>17, NothingIsMap DEF Crash, TypeOK
  <2> QED
    BY <1>17, <2>1 DEF Crash, Capacity
<1>18. CASE Tick
  <2>1. TypeOK'
    BY <1>1, <1>18, StoreAssumption DEF Tick, TypeOK
  <2>2. now' \in Nat
    BY <1>1, <1>18 DEF Tick
  <2>3. Excess(Nothing) <= 0
    BY NothingIsMap, FS_EmptySet, StoreAssumption DEF Excess
  <2>4. file.format = "json" => Excess(Fresh(file.records, now')) <= 0
    <3>1. Fresh(file.records, now') \in Maps /\ Present(Fresh(file.records, now')) \subseteq Present(file.records)
      BY <1>12, <2>2, FreshApplied
    <3> QED
      BY <1>12, <3>1, SmallerExcess, PresentFinite DEF Capacity
  <2>5. ASSUME backend = "json" PROVE Excess(Loaded') <= 0
    BY <1>1, <1>2, <1>18, <2>3, <2>4, <2>5 DEF Tick, Loaded, TypeOK
  <2> QED
    BY <1>18, <2>1, <2>5 DEF Tick, Capacity
<1>19. CASE UNCHANGED vars
  BY <1>19 DEF vars, Capacity, TypeOK, Loaded
<1> QED
  BY <1>3, <1>4, <1>5, <1>6, <1>7, <1>8, <1>9, <1>10, <1>13, <1>14, <1>15, <1>16, <1>17, <1>18, <1>19 DEF Next

(* A snapshot, and what a process reads from it, never holds more sessions *)
(* than the store may: the file grows only by a flush of the cache, and a   *)
(* set evicts what it made too many.                                        *)
THEOREM StoreCapacity == Spec => []Capacity
BY CapacityInit, CapacityStep, PTL DEF Spec

(* The refinement. *)

\* RecordStore's operators on maps are those of this module.
LEMMA StoreOperators ==
  /\ Store!Nothing = Nothing
  /\ \A map, K : Store!Without(map, K) = Without(map, K)
  /\ \A map, t : Store!Fresh(map, t) = Fresh(map, t)
  /\ \A map : Store!Evictions(map) = Evictions(map)
<1>1. Store!Nothing = Nothing
  BY DEF Store!Nothing, Nothing
<1>2. \A map, K : Store!Without(map, K) = Without(map, K)
  BY DEF Store!Without, Without
<1>3. \A map : Store!Present(map) = Present(map)
  BY DEF Store!Present, Present
<1>4. \A map, t : Store!Fresh(map, t) = Fresh(map, t)
  BY <1>2, <1>3 DEF Store!Fresh, Fresh
<1>5. \A S : Store!Cardinality(S) = Cardinality(S)
  BY DEF Store!Cardinality, Cardinality
<1>6. \A map : Store!Excess(map) = Excess(map)
  BY <1>3, <1>5 DEF Store!Excess, Excess
<1>7. \A map : Store!Evictions(map) = Evictions(map)
  BY <1>3, <1>5, <1>6 DEF Store!Evictions, Evictions
<1> QED
  BY <1>1, <1>2, <1>4, <1>7

LEMMA LiveNow ==
  /\ backend = "off" => Live = Nothing
  /\ backend = "json" => Live = Fresh(Loaded, now)
  /\ backend = "sqlite" => Live = Kept
BY DEF Live, Kept

LEMMA LiveThen ==
  /\ backend' = "off" => Live' = Nothing
  /\ backend' = "json" => Live' = Fresh(Loaded', now')
  /\ backend' = "json" /\ loaded' = TRUE => Live' = Fresh(cache', now')
  /\ backend' = "sqlite" => Live' = Kept'
  /\ Kept' = Fresh(file'.records, now')
BY DEF Live, Kept, Loaded

\* Nothing is lost by taking out what is not there.
LEMMA WithoutAbsent ==
  ASSUME NEW map \in Maps
  PROVE  /\ \A k \in Keys : map[k] = NoRecord => Without(map, {k}) = map
         /\ \A K : Without(map, K) = Without(map, K \cap Present(map))
BY DEF Maps, Without, Present

\* What an eviction may leave of a map, or the map itself.
Thinned(map, left) == \E E \in Evictions(map) \cup {{}} : left = Without(map, E)

\* What is left of the fresh records after a put and an eviction.
LEMMA FreshAfterPut ==
  ASSUME NEW map \in Maps, NEW t \in 0..MaxTime, NEW k \in Keys, NEW v \in Values,
         NEW E, E \in Evictions(PutIn(map, k, v, t)) \/ E = {}
  PROVE  Thinned(PutIn(Fresh(map, t), k, v, t), Fresh(Without(PutIn(map, k, v, t), E), t))
<1> DEFINE put == PutIn(map, k, v, t)
           P == PutIn(Fresh(map, t), k, v, t)
<1>1. put \in Maps /\ Fresh(put, t) = P /\ t \in Nat
  BY FreshPut, StoreAssumption
<1> HIDE DEF put, P
<1>2. P \in Maps
  BY <1>1, FreshApplied
<1>3. Fresh(Without(put, E), t) = Without(P, E \cap Present(P))
  <2>1. Fresh(Without(put, E), t) = Without(P, E)
    BY <1>1, FreshWithout
  <2> QED
    BY <1>2, <2>1, WithoutAbsent
<1>4. E \cap Present(P) \in Evictions(P) \cup {{}}
  <2>1. CASE E \in Evictions(put)
    BY <1>1, <2>1, EvictedOfFresh
  <2>2. CASE E = {}
    BY <2>2
  <2> QED
    BY <2>1, <2>2 DEF put
<1> QED
  BY <1>3, <1>4 DEF put, P, Thinned

\* The processes' clocks, and the maps the state holds.
LEMMA MapsNow ==
  ASSUME TypeOK
  PROVE  /\ now \in Nat /\ file.records \in Maps /\ Loaded \in Maps /\ Live \in Maps /\ Kept \in Maps
         /\ Kept = Fresh(file.records, now) /\ backend \in {"off", "json", "sqlite"}
<1>1. now \in Nat /\ file.records \in Maps /\ Loaded \in Maps /\ backend \in {"off", "json", "sqlite"}
  BY LoadedIsMap DEF TypeOK
<1>2. Kept = Fresh(file.records, now) /\ Kept \in Maps
  BY <1>1, FreshApplied DEF Kept
<1>3. Live \in Maps
  BY <1>1, <1>2, LiveNow, LoadedIsMap, NothingIsMap
<1> QED
  BY <1>1, <1>2, <1>3

\* Each action of the abstract store in terms of Live and Kept.
LEMMA StoreActions ==
  /\ \A k : Store!Get(k) <=> answer' \in {Live[k], NoRecord} /\ Live' = Live /\ Kept' = Kept /\ now' = now
  /\ \A k, v : Store!Put(k, v) <=>
       /\ \E E \in Evictions([Live EXCEPT ![k] = [value |-> v, used |-> now]]) \cup {{}} :
            Live' = Without([Live EXCEPT ![k] = [value |-> v, used |-> now]], E)
       /\ Kept' \in {Kept, Live'} /\ now' = now /\ answer' = answer
  /\ \A k : Store!Delete(k) <=>
       Live' = Without(Live, {k}) /\ Kept' \in {Kept, Live'} /\ now' = now /\ answer' = answer
  /\ Store!Keep <=> Kept' = Live /\ Live' = Live /\ now' = now /\ answer' = answer
  /\ Store!Stop <=> Live' = Nothing /\ Kept' \in {Kept, Live} /\ now' = now /\ answer' = answer
  /\ Store!Start <=> /\ Live = Nothing /\ Live' \in {Kept, Nothing}
                     /\ Kept' = Kept /\ now' = now /\ answer' = answer
  /\ Store!Tick <=> /\ now' = now + 1 /\ Live' = Fresh(Live, now') /\ Kept' = Fresh(Kept, now')
                    /\ answer' = answer
<1>1. \A k : Store!Get(k) <=> answer' \in {Live[k], NoRecord} /\ Live' = Live /\ Kept' = Kept /\ now' = now
  BY DEF Store!Get
<1>2. \A k, v : Store!Put(k, v) <=>
       /\ \E E \in Evictions([Live EXCEPT ![k] = [value |-> v, used |-> now]]) \cup {{}} :
            Live' = Without([Live EXCEPT ![k] = [value |-> v, used |-> now]], E)
       /\ Kept' \in {Kept, Live'} /\ now' = now /\ answer' = answer
  BY StoreOperators DEF Store!Put
<1>3. \A k : Store!Delete(k) <=>
       Live' = Without(Live, {k}) /\ Kept' \in {Kept, Live'} /\ now' = now /\ answer' = answer
  BY StoreOperators DEF Store!Delete
<1>4. Store!Keep <=> Kept' = Live /\ Live' = Live /\ now' = now /\ answer' = answer
  BY DEF Store!Keep
<1>5. /\ Store!Stop <=> Live' = Nothing /\ Kept' \in {Kept, Live} /\ now' = now /\ answer' = answer
      /\ Store!Start <=> /\ Live = Nothing /\ Live' \in {Kept, Nothing}
                         /\ Kept' = Kept /\ now' = now /\ answer' = answer
  BY StoreOperators DEF Store!Stop, Store!Start
<1>6. Store!Tick <=> /\ now' = now + 1 /\ Live' = Fresh(Live, now') /\ Kept' = Fresh(Kept, now')
                     /\ answer' = answer
  BY StoreOperators DEF Store!Tick
<1> QED
  BY <1>1, <1>2, <1>3, <1>4, <1>5, <1>6

\* The abstract steps that the operations of both backends take.
LEMMA StoreSteps ==
  ASSUME TypeOK, [Next]_vars
  PROVE  [Store!Next]_(Store!storeVars)
<1> DEFINE same == Live' = Live /\ Kept' = Kept /\ now' = now /\ answer' = answer
<1>1. /\ now \in Nat /\ file.records \in Maps /\ Loaded \in Maps /\ Live \in Maps /\ Kept \in Maps
      /\ Kept = Fresh(file.records, now) /\ backend \in {"off", "json", "sqlite"} /\ now \in 0..MaxTime
  BY MapsNow DEF TypeOK
<1>2. same => [Store!Next]_(Store!storeVars)
  BY DEF Store!storeVars
<1>3. ASSUME OpenJson PROVE Store!Start
  <2>1. Live = Nothing /\ Live' = Fresh(Loaded', now) /\ Kept' = Kept
    BY <1>3, LiveNow, LiveThen, "off" # "json" DEF OpenJson, Kept
  <2>2. Loaded' = Nothing \/ Loaded' = Kept
    BY <1>1, <1>3 DEF OpenJson, Loaded
  <2>3. Fresh(Nothing, now) = Nothing /\ Fresh(Kept, now) = Kept
    BY <1>1, FreshNothing, FreshLater
  <2> QED
    BY <1>3, <2>1, <2>2, <2>3, StoreActions DEF OpenJson
<1>4. ASSUME OpenSqlite PROVE Store!Start
  <2>1. Live = Nothing /\ Live' = Kept'
    BY <1>4, LiveNow, LiveThen DEF OpenSqlite
  <2>2. file'.records = file.records \/ file'.records = Kept
    BY <1>1, <1>4 DEF OpenSqlite
  <2>3. Kept' = Fresh(file'.records, now)
    BY <1>4, LiveThen DEF OpenSqlite
  <2>4. Kept' = Kept
    BY <1>1, <2>2, <2>3, FreshLater
  <2> QED
    BY <1>4, <2>1, <2>4, StoreActions DEF OpenSqlite
<1>5. ASSUME NEW k \in Keys, JsonGet(k) PROVE Store!Get(k)
  <2>1. Live = Fresh(Loaded, now) /\ Live' = Fresh(cache', now) /\ Kept' = Kept
    BY <1>5, LiveNow, LiveThen DEF JsonGet, Kept
  <2>2. Live[k] = NoRecord => Fresh(Without(Loaded, {k}), now) = Live
    BY <1>1, <2>1, FreshWithout, WithoutAbsent
  <2>3. Live' = Live
    BY <1>5, <2>1, <2>2 DEF JsonGet
  <2> QED
    BY <1>5, <2>1, <2>3, StoreActions DEF JsonGet
<1>6. ASSUME NEW k \in Keys, NEW v \in Values, JsonSet(k, v) PROVE Store!Put(k, v)
  <2> DEFINE put == PutIn(Loaded, k, v, now)
             P == PutIn(Live, k, v, now)
  <2>1. Live = Fresh(Loaded, now) /\ Live' = Fresh(cache', now) /\ Kept' = Kept
    BY <1>6, LiveNow, LiveThen DEF JsonSet, Kept
  <2>2. PICK E \in Evictions(put) : cache' = Without(put, E)
    BY <1>6 DEF JsonSet, PutIn
  <2>3. Thinned(P, Fresh(Without(put, E), now))
    BY <1>1, <2>1, <2>2, FreshAfterPut
  <2>4. Thinned(P, Live')
    BY <2>1, <2>2, <2>3
  <2> QED
    <3>1. /\ \E F \in Evictions([Live EXCEPT ![k] = [value |-> v, used |-> now]]) \cup {{}} :
                Live' = Without([Live EXCEPT ![k] = [value |-> v, used |-> now]], F)
          /\ Kept' \in {Kept, Live'} /\ now' = now /\ answer' = answer
      BY <1>6, <2>1, <2>4 DEF JsonSet, PutIn, Thinned
    <3> QED
      BY <3>1, StoreActions
<1>7. ASSUME NEW k \in Keys, JsonDelete(k) PROVE Store!Delete(k)
  <2>1. Live = Fresh(Loaded, now) /\ Live' = Fresh(cache', now) /\ Kept' = Kept
    BY <1>7, LiveNow, LiveThen DEF JsonDelete, Kept
  <2>2. Live' = Without(Live, {k})
    BY <1>1, <1>7, <2>1, FreshWithout DEF JsonDelete
  <2> QED
    BY <1>7, <2>1, <2>2, StoreActions DEF JsonDelete
<1>8. ASSUME JsonPrune PROVE same
  <2>1. Live = Fresh(Loaded, now) /\ Live' = Fresh(cache', now) /\ Kept' = Kept
    BY <1>8, LiveNow, LiveThen DEF JsonPrune, Kept
  <2> QED
    BY <1>1, <1>8, <2>1, FreshLater DEF JsonPrune
<1>9. ASSUME Flush PROVE same \/ Store!Keep
  <2>1. Live = Fresh(Loaded, now) /\ Live' = Live
    BY <1>9, LiveNow, LiveThen DEF Flush
  <2>2. Kept' = Live \/ Kept' = Kept
    BY <1>9, <2>1 DEF Flush, Flushed, Kept
  <2> QED
    BY <1>9, <2>1, <2>2, StoreActions DEF Flush
<1>10. ASSUME Close PROVE Store!Stop
  <2>1. Live' = Nothing
    BY <1>10, LiveThen DEF Close
  <2>2. Kept' = Live \/ Kept' = Kept
    BY <1>10, LiveNow DEF Close, Flushed, Kept
  <2> QED
    BY <1>10, <2>1, <2>2, StoreActions DEF Close
<1>11. ASSUME NEW k \in Keys, SqliteGet(k) PROVE Store!Get(k)
  <2>1. Live = Kept /\ Live' = Kept' /\ Kept' = Fresh(file'.records, now)
    BY <1>11, LiveNow, LiveThen DEF SqliteGet
  <2>2. Kept[k] = NoRecord => Fresh(Without(file.records, {k}), now) = Kept
    BY <1>1, FreshWithout, WithoutAbsent
  <2>3. Kept' = Kept
    BY <1>1, <1>11, <2>1, <2>2 DEF SqliteGet, Table, TypeOK
  <2> QED
    BY <1>1, <1>11, <2>1, <2>3, StoreActions DEF SqliteGet
<1>12. ASSUME NEW k \in Keys, NEW v \in Values, SqliteSet(k, v) PROVE same \/ Store!Put(k, v)
  <2> DEFINE put == PutIn(file.records, k, v, now)
             P == PutIn(Live, k, v, now)
  <2>1. Live = Kept /\ Live' = Kept' /\ Kept' = Fresh(file'.records, now)
    BY <1>12, LiveNow, LiveThen DEF SqliteSet
  <2>2. CASE file' = file
    BY <1>1, <1>12, <2>1, <2>2 DEF SqliteSet
  <2>3. CASE \E E \in Evictions(put) \cup {{}} : Table(Without(put, E))
    <3>1. PICK E \in Evictions(put) \cup {{}} : Table(Without(put, E))
      BY <2>3
    <3>2. Thinned(P, Fresh(Without(put, E), now))
      <4>1. E \in Evictions(put) \/ E = {}
        BY <3>1
      <4>2. Thinned(PutIn(Fresh(file.records, now), k, v, now), Fresh(Without(PutIn(file.records, k, v, now), E), now))
        BY <1>1, <1>12, <4>1, FreshAfterPut
      <4> QED
        BY <1>1, <2>1, <4>2
    <3>3. file'.records = Without(put, E)
      BY <3>1 DEF Table, TypeOK
    <3>4. Thinned(P, Live')
      BY <2>1, <3>2, <3>3
    <3> QED
      <4>1. /\ \E F \in Evictions([Live EXCEPT ![k] = [value |-> v, used |-> now]]) \cup {{}} :
                  Live' = Without([Live EXCEPT ![k] = [value |-> v, used |-> now]], F)
            /\ Kept' \in {Kept, Live'} /\ now' = now /\ answer' = answer
        BY <1>12, <2>1, <3>4 DEF SqliteSet, PutIn, Thinned
      <4> QED
        BY <4>1, StoreActions
  <2> QED
    BY <1>12, <2>2, <2>3 DEF SqliteSet, PutIn
<1>13. ASSUME NEW k \in Keys, SqliteDelete(k) PROVE same \/ Store!Delete(k)
  <2>1. Live = Kept /\ Live' = Kept' /\ Kept' = Fresh(file'.records, now)
    BY <1>13, LiveNow, LiveThen DEF SqliteDelete
  <2>2. file'.records = file.records \/ file'.records = Without(file.records, {k})
    BY <1>13 DEF SqliteDelete, Table, TypeOK
  <2>3. Kept' = Kept \/ Kept' = Without(Kept, {k})
    BY <1>1, <2>1, <2>2, FreshWithout
  <2> QED
    BY <1>13, <2>1, <2>3, StoreActions DEF SqliteDelete
<1>14. ASSUME SqlitePrune PROVE same
  <2>1. Live = Kept /\ Live' = Kept' /\ Kept' = Fresh(file'.records, now)
    BY <1>14, LiveNow, LiveThen DEF SqlitePrune
  <2>2. file'.records = file.records \/ file'.records = Kept
    BY <1>1, <1>14 DEF SqlitePrune, Table, TypeOK
  <2>3. Kept' = Kept
    BY <1>1, <2>1, <2>2, FreshLater
  <2> QED
    BY <1>14, <2>1, <2>3 DEF SqlitePrune
<1>15. ASSUME Crash PROVE Store!Stop
  BY <1>15, LiveThen, StoreActions DEF Crash, Kept
<1>16. ASSUME Tick PROVE Store!Tick
  <2>1. now' \in Nat /\ now' = now + 1 /\ now <= now'
    BY <1>1, <1>16 DEF Tick
  <2>2. Kept' = Fresh(Kept, now')
    BY <1>1, <1>16, <2>1, FreshLater, LiveThen DEF Tick
  <2>3. ASSUME backend = "off" PROVE Live' = Fresh(Live, now')
    BY <1>16, <2>1, <2>3, LiveNow, LiveThen, FreshNothing DEF Tick
  <2>4. ASSUME backend = "sqlite" PROVE Live' = Fresh(Live, now')
    BY <1>16, <2>2, <2>4, LiveNow, LiveThen DEF Tick
  <2>5. ASSUME backend = "json" PROVE Live' = Fresh(Live, now')
    <3>1. Live = Fresh(Loaded, now) /\ Live' = Fresh(Loaded', now')
      BY <1>16, <2>5, LiveNow, LiveThen DEF Tick
    <3>2. Fresh(Live, now') = Fresh(Loaded, now')
      BY <1>1, <2>1, <3>1, FreshLater
    <3>3. Loaded' = Loaded \/ (Loaded = Kept /\ Loaded' = Kept')
      BY <1>1, <1>16, LiveThen DEF Tick, Loaded
    <3>4. Fresh(Kept', now') = Fresh(Kept, now')
      BY <1>1, <2>1, <2>2, FreshLater, FreshApplied
    <3>5. Live' = Fresh(Live, now')
      BY <3>1, <3>2, <3>3, <3>4
    <3> QED
      BY <3>5
  <2>6. Live' = Fresh(Live, now')
    BY <1>1, <2>3, <2>4, <2>5
  <2> QED
    BY <1>16, <2>1, <2>2, <2>6, StoreActions DEF Tick
<1>17. ASSUME UNCHANGED vars PROVE same
  BY <1>17 DEF vars, Live, Kept, Loaded
<1>18. Store!Next => [Store!Next]_(Store!storeVars)
  OBVIOUS
<1>19. /\ \A k \in Keys : Store!Get(k) => Store!Next
       /\ \A k \in Keys : Store!Delete(k) => Store!Next
       /\ \A k \in Keys, v \in Values : Store!Put(k, v) => Store!Next
       /\ (Store!Keep => Store!Next) /\ (Store!Stop => Store!Next)
       /\ (Store!Start => Store!Next) /\ (Store!Tick => Store!Next)
  BY DEF Store!Next
<1>20. CASE Next
  <2>1. same \/ Store!Next
    <3> HIDE DEF same
    <3> QED
      BY <1>3, <1>4, <1>5, <1>6, <1>7, <1>8, <1>9, <1>10, <1>11, <1>12, <1>13, <1>14, <1>15, <1>16, <1>19,
         <1>20 DEF Next
  <2> QED
    BY <1>2, <1>18, <2>1
<1> QED
  BY <1>2, <1>17, <1>20

LEMMA StoreInit == Init => Store!Init
<1> SUFFICES ASSUME Init PROVE Store!Init
  OBVIOUS
<1>1. Live = Nothing /\ Kept = Fresh(Nothing, 0) /\ Fresh(Nothing, 0) = Nothing
  BY LiveNow, FreshNothing DEF Init, Kept
<1> QED
  BY <1>1, StoreOperators DEF Init, Store!Init

(* Whatever fails or crashes between the operations, both backends do what   *)
(* RecordStore says: an answer is the record put last unless it was deleted, *)
(* expired or evicted, and a process starts from what was kept or nothing.   *)
THEOREM StoreImplementsRecordStore == Spec => ImplementsRecordStore
<1>1. Capacity => TypeOK
  BY DEF Capacity
<1>2. TypeOK /\ [Next]_vars => [Store!Next]_(Store!storeVars)
  BY StoreSteps
<1> QED
  BY StoreInit, StoreCapacity, <1>1, <1>2, PTL DEF ImplementsRecordStore, Store!Spec, Spec
-----------------------------------------------------------------------------
(* Tokens and agents. *)

\* A flight that pauses has an attempt left.
Paused == \A s \in Scopes : flight[s] = "pause" => attempt[s] < Attempts

TokenInv == TokenTypeOK /\ FlightsShared /\ Paused

Links ==
  /\ step[First] # "idle" <=> resolving # {}
  /\ \A r \in Requests : stage[r] = "agent" => session[r] \in resolving
  /\ \A r \in Requests : step[r] # "idle" <=> stage[r] = "refresh"
  /\ \A r \in Requests : stage[r] # "idle" => session[r] \in Sessions

\* While nothing disturbed it, a run finds the tenant as it left it.
Tenant ==
  ~disturbed =>
    /\ \A p, q \in Callers : step[p] # "idle" /\ step[q] # "idle" => p = q
    /\ \A a, b \in bots : a = b
    /\ \A p \in Callers :
         /\ step[p] \in {"create", "recreate"} => bots = {}
         /\ step[p] \in {"publish", "published", "delete", "republish"} => target[p] \in bots

AccessIInv == AccessTypeOK /\ FlightsShared /\ Paused /\ Links /\ Tenant

LEMMA CallersAre ==
  /\ First \in Callers /\ First \notin Requests /\ Requests \subseteq Callers
  /\ Callers = Requests \cup {First}
  /\ Chat \in Scopes /\ Bap \in Scopes /\ PowerPlatform \in Scopes
BY AccessAssumption

(* Tokens. *)

LEMMA AskKeeps ==
  ASSUME TokenInv, NEW c \in Callers, NEW s \in Scopes, Ask(c, s), login' = login
  PROVE  TokenInv'
<1>1. CASE told' = [told EXCEPT ![c] = "token"] /\ UNCHANGED <<flight, attempt, waiting>>
  BY <1>1 DEF TokenInv, TokenTypeOK, FlightsShared, Paused
<1>2. CASE /\ waiting' = [waiting EXCEPT ![c] = s] /\ told' = [told EXCEPT ![c] = "nothing"]
           /\ flight' = [flight EXCEPT ![s] = IF @ = "none" THEN "silent" ELSE @]
           /\ UNCHANGED attempt
  <2>1. TokenTypeOK'
    BY <1>2 DEF TokenInv, TokenTypeOK
  <2>2. ASSUME NEW t \in Scopes PROVE flight'[t] # "none" <=> \E d \in Callers : waiting'[d] = t
    <3>1. \A d \in Callers : waiting'[d] = IF d = c THEN s ELSE waiting[d]
      BY <1>2 DEF TokenInv, TokenTypeOK
    <3>2. flight'[t] = IF t = s /\ flight[t] = "none" THEN "silent" ELSE flight[t]
      BY <1>2 DEF TokenInv, TokenTypeOK
    <3>3. waiting[c] = NoScope /\ NoScope # t
      BY TokenAssumption DEF Ask
    <3> QED
      BY <3>1, <3>2, <3>3 DEF TokenInv, FlightsShared
  <2>3. Paused'
    BY <1>2 DEF TokenInv, TokenTypeOK, Paused
  <2> QED
    BY <2>1, <2>2, <2>3 DEF TokenInv, FlightsShared
<1> QED
  BY <1>1, <1>2 DEF Ask

LEMMA SpentKeeps ==
  ASSUME TokenInv, NEW C, Spent(C), login' = login
  PROVE  TokenInv'
BY DEF Spent, TokenInv, TokenTypeOK, FlightsShared, Paused

LEMMA SettleKeeps ==
  ASSUME TokenInv, NEW s \in Scopes, NEW result \in {"token", "null", "rejected"}, Settle(s, result),
         login' = login
  PROVE  TokenInv'
<1>1. TokenTypeOK'
  BY TokenAssumption DEF Settle, TokenInv, TokenTypeOK
<1>2. ASSUME NEW t \in Scopes PROVE flight'[t] # "none" <=> \E d \in Callers : waiting'[d] = t
  <2>1. \A d \in Callers : waiting'[d] = IF waiting[d] = s THEN NoScope ELSE waiting[d]
    BY DEF Settle
  <2>2. flight'[t] = IF t = s THEN "none" ELSE flight[t]
    BY DEF Settle, TokenInv, TokenTypeOK
  <2>3. NoScope # t
    BY TokenAssumption
  <2> QED
    BY <2>1, <2>2, <2>3 DEF TokenInv, FlightsShared
<1>3. Paused'
  BY DEF Settle, TokenInv, TokenTypeOK, Paused
<1> QED
  BY <1>1, <1>2, <1>3 DEF TokenInv, FlightsShared

LEMMA FlightKeeps ==
  ASSUME TokenInv, NEW s \in Scopes, FlightStep(s), login' = login
  PROVE  TokenInv'
<1>1. \A result : Settle(s, result) /\ result \in {"token", "null", "rejected"} => TokenInv'
  BY SettleKeeps
<1>2. Failure(s) \in {"null", "rejected"}
  BY DEF Failure
<1>3. ASSUME flight[s] # "none", NEW f \in {"silent", "browser", "pause"}, flight' = [flight EXCEPT ![s] = f],
             \E n \in 0..Attempts : attempt' = [attempt EXCEPT ![s] = n] /\ (f = "pause" => n < Attempts),
             UNCHANGED <<waiting, told>>
      PROVE  TokenInv'
  BY <1>3 DEF TokenInv, TokenTypeOK, FlightsShared, Paused
<1>4. CASE SilentEnds(s)
  <2>1. 1 \in 0..Attempts
    BY TokenAssumption
  <2> QED
    BY <1>1, <1>2, <1>3, <1>4, <2>1 DEF SilentEnds, TokenInv, TokenTypeOK
<1>5. CASE InteractiveEnds(s)
  BY <1>1, <1>2, <1>5 DEF InteractiveEnds
<1>6. CASE BrowserEnds(s)
  <2>1. \A result : Settle(s, result) /\ result \in {"token", "rejected", Failure(s)} => TokenInv'
    BY <1>1, <1>2
  <2>2. ASSUME attempt[s] < MaxAttempts(s), flight' = [flight EXCEPT ![s] = "pause"],
               UNCHANGED <<attempt, waiting, told>>, flight[s] = "browser"
        PROVE  TokenInv'
    <3>1. attempt[s] \in 0..Attempts /\ attempt[s] < Attempts
      BY <2>2, TokenAssumption DEF TokenInv, TokenTypeOK, MaxAttempts
    <3>2. attempt' = [attempt EXCEPT ![s] = attempt[s]]
      BY <2>2 DEF TokenInv, TokenTypeOK
    <3> QED
      BY <1>3, <2>2, <3>1, <3>2
  <2> QED
    BY <1>6, <2>1, <2>2 DEF BrowserEnds
<1>7. CASE PauseEnds(s)
  <2>1. attempt[s] + 1 \in 0..Attempts
    BY <1>7, TokenAssumption DEF PauseEnds, TokenInv, TokenTypeOK, Paused
  <2> QED
    BY <1>3, <1>7, <2>1 DEF PauseEnds
<1> QED
  BY <1>4, <1>5, <1>6, <1>7 DEF FlightStep

(* Provisioning runs. *)

LEMMA IInvIs ==
  /\ AccessIInv => AccessTypeOK /\ TokenInv /\ Links /\ Tenant
  /\ AccessTypeOK' /\ TokenInv' /\ Links' /\ Tenant' => AccessIInv'
BY DEF AccessIInv, AccessTypeOK, TokenInv

LEMMA StepTypes == ASSUME AccessTypeOK, NEW p \in Callers PROVE step[p] \in Steps /\ target[p] \in Ids
BY DEF AccessTypeOK

\* A run starts in a tenant nobody else works on, or is counted as a disturbance.
LEMMA StartKeeps ==
  ASSUME AccessIInv, NEW p \in Callers, StartRun(p), login' = login, UNCHANGED <<bots, target>>
  PROVE  /\ TokenInv' /\ Tenant' /\ step' = [step EXCEPT ![p] = "bap"] /\ disturbed' \in BOOLEAN
         /\ step' \in [Callers -> Steps]
<1>1. AccessTypeOK /\ TokenInv /\ Tenant
  BY IInvIs
<1>2. TokenInv'
  BY <1>1, AskKeeps, CallersAre DEF StartRun
<1>3. step' = [step EXCEPT ![p] = "bap"] /\ disturbed' \in BOOLEAN /\ step' \in [Callers -> Steps]
  BY <1>1 DEF StartRun, AccessTypeOK, Steps
<1>4. Tenant'
  <2> SUFFICES ASSUME ~disturbed' PROVE Tenant'
    BY DEF Tenant
  <2>1. ~disturbed /\ \A q \in Callers : step[q] = "idle"
    BY DEF StartRun, Running
  <2>2. \A q \in Callers : step'[q] = IF q = p THEN "bap" ELSE "idle"
    BY <1>1, <1>3, <2>1 DEF AccessTypeOK
  <2> QED
    BY <1>1, <2>1, <2>2 DEF Tenant
<1> QED
  BY <1>2, <1>3, <1>4

\* A run that ends leaves the tenant to others.
LEMMA OverKeeps ==
  ASSUME AccessIInv, NEW p \in Callers, step[p] # "idle", NEW id \in Ids, NEW threw \in BOOLEAN,
         Over(p, id, threw), agentFile' \in Ids, disturbed' = disturbed, login' = login
  PROVE  AccessIInv'
<1>1. AccessTypeOK /\ TokenInv /\ Links /\ Tenant
  BY IInvIs
<1>2. /\ step' = [step EXCEPT ![p] = "idle"] /\ target' = [target EXCEPT ![p] = NoAgent]
      /\ UNCHANGED <<session, wantAgent, refreshed, bots, used>>
  BY DEF Over
<1>3. TokenInv'
  BY <1>1, SpentKeeps DEF Over
<1>4. /\ cachedAgent' \in [Sessions -> Ids \cup {Unknown}] /\ resolving' \subseteq Sessions
      /\ stage' \in [Requests -> {"idle", "ready", "token", "agent", "chat", "refresh"}]
  <2>1. CASE p = First
    BY <1>1, <2>1 DEF Over, AccessTypeOK
  <2>2. CASE p # First
    BY <1>1, <2>2 DEF Over, AccessTypeOK
  <2> QED
    BY <2>1, <2>2
<1>5. AccessTypeOK'
  <2>1. step' \in [Callers -> Steps] /\ target' \in [Callers -> Ids]
    BY <1>1, <1>2 DEF AccessTypeOK, Steps, Ids
  <2> QED
    BY <1>1, <1>2, <1>3, <1>4, <2>1 DEF AccessTypeOK, TokenInv
<1>6. Links'
  <2>1. \A q \in Callers : step'[q] = IF q = p THEN "idle" ELSE step[q]
    BY <1>1, <1>2 DEF AccessTypeOK
  <2>2. CASE p = First
    <3>1. /\ resolving' = {} /\ \A r \in Requests : stage'[r] = IF stage[r] = "agent" THEN "chat" ELSE stage[r]
      BY <2>2 DEF Over
    <3> QED
      BY <1>1, <1>2, <2>1, <2>2, <3>1, CallersAre DEF Links
  <2>3. CASE p # First
    <3>1. p \in Requests /\ resolving' = resolving /\ \A r \in Requests : stage'[r] = IF r = p THEN "ready" ELSE stage[r]
      BY <1>1, <2>3, CallersAre DEF Over, AccessTypeOK
    <3> QED
      BY <1>1, <1>2, <2>1, <2>3, <3>1, CallersAre DEF Links
  <2> QED
    BY <2>2, <2>3
<1>7. Tenant'
  <2>1. \A q \in Callers : /\ step'[q] = IF q = p THEN "idle" ELSE step[q]
                           /\ target'[q] = IF q = p THEN NoAgent ELSE target[q]
    BY <1>1, <1>2 DEF AccessTypeOK
  <2> QED
    BY <1>1, <1>2, <2>1 DEF Tenant
<1> QED
  BY <1>3, <1>5, <1>6, <1>7, IInvIs

\* A run that goes on changes only the tenant and what it is about.
LEMMA GoesOnKeeps ==
  ASSUME AccessIInv, NEW p \in Callers, step[p] # "idle", NEW next \in Steps \ {"idle"}, GoesOn(p, next),
         TokenInv', bots' \subseteq used', used' \subseteq Bots, target' \in [Callers -> Ids],
         disturbed' \in BOOLEAN, login' = login,
         \A q \in Callers \ {p} : target'[q] = target[q],
         ~disturbed' => /\ ~disturbed /\ \A a, b \in bots' : a = b
                        /\ next \in {"create", "recreate"} => bots' = {}
                        /\ next \in {"publish", "published", "delete", "republish"} => target'[p] \in bots'
  PROVE  AccessIInv'
<1>1. AccessTypeOK /\ TokenInv /\ Links /\ Tenant
  BY IInvIs
<1>2. step' = [step EXCEPT ![p] = next] /\ UNCHANGED <<requestVars, agentFile, cachedAgent, resolving>>
  BY DEF GoesOn
<1>3. \A q \in Callers : step'[q] = IF q = p THEN next ELSE step[q]
  BY <1>1, <1>2 DEF AccessTypeOK
<1>4. AccessTypeOK'
  BY <1>1, <1>2 DEF AccessTypeOK, TokenInv, requestVars
<1>5. Links'
  BY <1>1, <1>2, <1>3, CallersAre DEF Links, requestVars
<1>6. Tenant'
  <2> SUFFICES ASSUME ~disturbed' PROVE Tenant'
    BY DEF Tenant
  <2>1. ~disturbed /\ \A q \in Callers : step[q] # "idle" => q = p
    BY <1>1 DEF Tenant
  <2>2. \A q \in Callers \ {p} : step'[q] = "idle"
    BY <1>3, <2>1
  <2> QED
    BY <1>3, <2>1, <2>2 DEF Tenant
<1> QED
  BY <1>4, <1>5, <1>6, IInvIs

LEMMA RunKeeps ==
  ASSUME AccessIInv, NEW p \in Callers, RunStep(p), login' = login
  PROVE  AccessIInv'
<1>1. AccessTypeOK /\ TokenInv /\ Tenant /\ target[p] \in Ids
  BY IInvIs, StepTypes
<1>2. /\ NoAgent \in Ids /\ Bots \subseteq Ids /\ agentFile \in Ids /\ target \in [Callers -> Ids]
      /\ bots \subseteq used /\ used \subseteq Bots /\ disturbed \in BOOLEAN
  BY <1>1 DEF AccessTypeOK, Ids
<1>3. ASSUME step[p] # "idle", Fails(p) \/ Throws(p) PROVE AccessIInv'
  BY <1>2, <1>3, OverKeeps DEF Fails, Throws
<1>4. ASSUME step[p] # "idle", NEW next \in {"bap", "powerplatform", "list"}, GoesOn(p, next), TokenInv',
             UNCHANGED <<bots, used, target, disturbed>>
      PROVE  AccessIInv'
  <2>1. next \in Steps \ {"idle"} /\ next \notin {"create", "recreate", "publish", "published", "delete", "republish"}
    BY <1>4 DEF Steps
  <2>2. ~disturbed' => ~disturbed /\ \A a, b \in bots' : a = b
    BY <1>1, <1>4 DEF Tenant
  <2> QED
    BY <1>2, <1>4, <2>1, <2>2, GoesOnKeeps
<1>5. CASE GotBap(p)
  <2>1. step[p] # "idle"
    BY <1>5 DEF GotBap
  <2>2. ASSUME Ask(p, PowerPlatform) PROVE TokenInv'
    BY <1>1, <2>2, AskKeeps, CallersAre
  <2> QED
    BY <1>3, <1>4, <1>5, <2>1, <2>2 DEF GotBap
<1>6. CASE GotPowerPlatform(p)
  <2>1. step[p] # "idle"
    BY <1>6 DEF GotPowerPlatform
  <2>2. ASSUME Spent({p}) PROVE TokenInv'
    BY <1>1, <2>2, SpentKeeps
  <2> QED
    BY <1>3, <1>4, <1>6, <2>1, <2>2 DEF GotPowerPlatform
<1>7. ASSUME UNCHANGED tokenVars PROVE TokenInv'
  BY <1>1, <1>7 DEF tokenVars, TokenInv, TokenTypeOK, FlightsShared, Paused
<1>8. CASE List(p)
  <2>1. step[p] # "idle"
    BY <1>8 DEF List
  <2>2. CASE /\ \E b \in bots : target' = [target EXCEPT ![p] = b]
             /\ GoesOn(p, "publish") /\ UNCHANGED <<tokenVars, bots, used, disturbed>>
    <3>1. PICK b \in bots : target' = [target EXCEPT ![p] = b]
      BY <2>2
    <3>2. /\ target' \in [Callers -> Ids] /\ target'[p] = b /\ \A q \in Callers \ {p} : target'[q] = target[q]
      BY <1>2, <3>1
    <3>3. ~disturbed' => ~disturbed /\ \A a, c \in bots' : a = c
      BY <1>1, <2>2 DEF Tenant
    <3> QED
      BY <1>2, <1>7, <2>1, <2>2, <3>2, <3>3, GoesOnKeeps DEF Steps
  <2>3. CASE /\ bots = {}
             /\ GoesOn(p, "create") /\ UNCHANGED <<tokenVars, bots, used, target, disturbed>>
    BY <1>2, <1>7, <2>1, <2>3, GoesOnKeeps DEF Steps
  <2> QED
    BY <1>3, <1>8, <2>1, <2>2, <2>3 DEF List
<1>9. CASE Create(p)
  <2>1. step[p] # "idle" /\ step[p] \in {"create", "recreate"}
    BY <1>9 DEF Create
  <2>2. CASE /\ \E b \in Bots \ used :
                  bots' = bots \cup {b} /\ used' = used \cup {b} /\ target' = [target EXCEPT ![p] = b]
             /\ GoesOn(p, IF step[p] = "create" THEN "publish" ELSE "republish")
             /\ UNCHANGED <<tokenVars, disturbed>>
    <3>1. PICK b \in Bots \ used :
            bots' = bots \cup {b} /\ used' = used \cup {b} /\ target' = [target EXCEPT ![p] = b]
      BY <2>2
    <3>2. /\ target' \in [Callers -> Ids] /\ target'[p] = b /\ \A q \in Callers \ {p} : target'[q] = target[q]
          /\ bots' \subseteq used' /\ used' \subseteq Bots /\ b \in bots'
      BY <1>2, <3>1
    <3>3. ~disturbed' => ~disturbed /\ bots = {}
      BY <1>1, <2>1, <2>2 DEF Tenant
    <3>4. ~disturbed' => ~disturbed /\ \A a, c \in bots' : a = c
      BY <3>1, <3>3
    <3> DEFINE next == IF step[p] = "create" THEN "publish" ELSE "republish"
    <3>5. next \in Steps \ {"idle"} /\ next \notin {"create", "recreate"} /\ GoesOn(p, next) /\ login' = login
          /\ disturbed' \in BOOLEAN /\ TokenInv'
      BY <1>2, <1>7, <2>2 DEF Steps
    <3> HIDE DEF next
    <3> QED
      BY <2>1, <3>2, <3>4, <3>5, GoesOnKeeps
  <2> QED
    BY <1>3, <1>9, <2>1, <2>2 DEF Create
<1>10. CASE Publish(p)
  <2>1. step[p] # "idle"
    BY <1>10 DEF Publish
  <2>2. ASSUME NEW next \in {"published", "delete"}, GoesOn(p, next),
               UNCHANGED <<tokenVars, bots, used, target, disturbed>>,
               target[p] \in bots \/ step[p] = "publish"
        PROVE  AccessIInv'
    <3>1. ~disturbed' => ~disturbed /\ (\A a, c \in bots' : a = c) /\ target'[p] \in bots'
      BY <1>1, <2>2 DEF Tenant
    <3> QED
      BY <1>2, <1>7, <2>1, <2>2, <3>1, GoesOnKeeps DEF Steps
  <2> QED
    BY <1>3, <1>10, <2>1, <2>2 DEF Publish
<1>11. CASE Published(p)
  BY <1>1, <1>11, OverKeeps DEF Published
<1>12. CASE Delete(p)
  <2>1. step[p] = "delete"
    BY <1>12 DEF Delete
  <2>2. CASE /\ \/ bots' = bots \ {target[p]} /\ UNCHANGED disturbed
                \/ bots' = bots /\ disturbed' = TRUE
             /\ GoesOn(p, "recreate") /\ UNCHANGED <<tokenVars, used, target>>
    <3>1. ~disturbed' => ~disturbed /\ bots' = {}
      BY <1>1, <2>1, <2>2 DEF Tenant
    <3>2. bots' \subseteq used' /\ used' \subseteq Bots /\ disturbed' \in BOOLEAN
      BY <1>2, <2>2
    <3> QED
      BY <1>2, <1>7, <2>1, <2>2, <3>1, <3>2, GoesOnKeeps DEF Steps
  <2> QED
    BY <1>3, <1>12, <2>1, <2>2 DEF Delete
<1> QED
  BY <1>5, <1>6, <1>8, <1>9, <1>10, <1>11, <1>12 DEF RunStep

(* Requests. *)

\* A request that neither waits for a run nor starts one.
LEMMA RequestKeeps ==
  ASSUME AccessIInv, NEW r \in Requests, UNCHANGED agentVars, TokenInv', login' = login,
         stage[r] # "refresh", NEW st \in {"idle", "ready", "token", "chat"}, stage' = [stage EXCEPT ![r] = st],
         NEW s \in Sessions \cup {NoSession}, session' = [session EXCEPT ![r] = s],
         st # "idle" => s \in Sessions,
         wantAgent' \in [Requests -> BOOLEAN], refreshed' \in [Requests -> BOOLEAN]
  PROVE  AccessIInv'
<1>1. AccessTypeOK /\ TokenInv /\ Links /\ Tenant
  BY IInvIs
<1>2. /\ \A q \in Requests : stage'[q] = IF q = r THEN st ELSE stage[q]
      /\ \A q \in Requests : session'[q] = IF q = r THEN s ELSE session[q]
  BY <1>1 DEF AccessTypeOK
<1>3. UNCHANGED <<bots, used, agentFile, step, target, cachedAgent, resolving, disturbed>>
  BY DEF agentVars
<1>4. AccessTypeOK'
  BY <1>1, <1>3 DEF AccessTypeOK, TokenInv
<1>5. Links'
  BY <1>1, <1>2, <1>3 DEF Links
<1>6. Tenant'
  BY <1>1, <1>3 DEF Tenant
<1> QED
  BY <1>4, <1>5, <1>6, IInvIs

LEMMA ResolveKeeps ==
  ASSUME AccessIInv, NEW r \in Requests, ResolveAgent(r), login' = login
  PROVE  AccessIInv'
<1> DEFINE s == session[r]
<1>1. AccessTypeOK /\ TokenInv /\ Links /\ Tenant /\ stage[r] = "token" /\ s \in Sessions
  BY IInvIs DEF ResolveAgent, HasToken, Links
<1>2. UNCHANGED <<bots, used, agentFile, target, session, wantAgent, refreshed>>
  BY DEF ResolveAgent
<1>3. CASE s \notin resolving /\ step[First] = "idle" /\ agentFile # NoAgent
  <2>1. /\ cachedAgent' = [cachedAgent EXCEPT ![s] = agentFile] /\ stage' = [stage EXCEPT ![r] = "chat"]
        /\ Spent({r}) /\ UNCHANGED <<step, resolving, disturbed>>
    BY <1>3 DEF ResolveAgent
  <2>2. TokenInv'
    BY <1>1, <2>1, SpentKeeps
  <2>3. AccessTypeOK'
    BY <1>1, <1>2, <2>1, <2>2 DEF AccessTypeOK, TokenInv
  <2>4. Links'
    BY <1>1, <1>2, <2>1 DEF Links, AccessTypeOK
  <2>5. Tenant'
    BY <1>1, <1>2, <2>1 DEF Tenant
  <2> QED
    BY <2>2, <2>3, <2>4, <2>5, IInvIs
<1>4. CASE ~(s \notin resolving /\ step[First] = "idle" /\ agentFile # NoAgent)
  <2>1. /\ stage' = [stage EXCEPT ![r] = "agent"] /\ resolving' = resolving \cup {s}
        /\ IF step[First] = "idle" THEN StartRun(First) ELSE UNCHANGED <<tokenVars, step, disturbed>>
        /\ UNCHANGED cachedAgent
    BY <1>4 DEF ResolveAgent
  <2>2. /\ TokenInv' /\ Tenant' /\ step' \in [Callers -> Steps] /\ disturbed' \in BOOLEAN
        /\ step'[First] # "idle" /\ \A q \in Requests : step'[q] = step[q]
    <3>1. CASE step[First] = "idle"
      <4>1. StartRun(First)
        BY <2>1, <3>1
      <4>2. /\ TokenInv' /\ Tenant' /\ step' = [step EXCEPT ![First] = "bap"] /\ disturbed' \in BOOLEAN
            /\ step' \in [Callers -> Steps]
        BY <1>2, <4>1, StartKeeps, CallersAre
      <4> QED
        BY <1>1, <4>2, CallersAre DEF AccessTypeOK
    <3>2. CASE step[First] # "idle"
      <4>1. UNCHANGED <<tokenVars, step, disturbed>>
        BY <2>1, <3>2
      <4>2. TokenInv'
        BY <1>1, <4>1 DEF tokenVars, TokenInv, TokenTypeOK, FlightsShared, Paused
      <4>3. Tenant'
        BY <1>1, <1>2, <4>1 DEF Tenant
      <4> QED
        BY <1>1, <3>2, <4>1, <4>2, <4>3 DEF AccessTypeOK
    <3> QED
      BY <3>1, <3>2
  <2>3. AccessTypeOK'
    BY <1>1, <1>2, <2>1, <2>2 DEF AccessTypeOK, TokenInv
  <2>4. Links'
    BY <1>1, <1>2, <2>1, <2>2 DEF Links, AccessTypeOK
  <2> QED
    BY <2>2, <2>3, <2>4, IInvIs
<1> QED
  BY <1>3, <1>4

LEMMA RefreshKeeps ==
  ASSUME AccessIInv, NEW r \in Requests, Refresh(r), login' = login
  PROVE  AccessIInv'
<1>1. AccessTypeOK /\ TokenInv /\ Links /\ Tenant /\ stage[r] = "chat" /\ session[r] \in Sessions
  BY IInvIs DEF Refresh, Links
<1>2. /\ StartRun(r) /\ refreshed' = [refreshed EXCEPT ![r] = TRUE] /\ stage' = [stage EXCEPT ![r] = "refresh"]
      /\ UNCHANGED <<bots, used, agentFile, target, cachedAgent, resolving, session, wantAgent>>
  BY DEF Refresh
<1>3. /\ TokenInv' /\ Tenant' /\ step' = [step EXCEPT ![r] = "bap"] /\ disturbed' \in BOOLEAN
      /\ step' \in [Callers -> Steps]
  BY <1>2, StartKeeps, CallersAre
<1>4. AccessTypeOK'
  BY <1>1, <1>2, <1>3 DEF AccessTypeOK, TokenInv
<1>5. /\ \A q \in Requests : stage'[q] = IF q = r THEN "refresh" ELSE stage[q]
      /\ \A q \in Callers : step'[q] = IF q = r THEN "bap" ELSE step[q]
  BY <1>1, <1>2, <1>3 DEF AccessTypeOK
<1>6. Links'
  BY <1>1, <1>2, <1>5, CallersAre DEF Links
<1> QED
  BY <1>3, <1>4, <1>6, IInvIs

LEMMA AccessStarts == AccessInit => AccessIInv
<1> SUFFICES ASSUME AccessInit PROVE AccessIInv
  OBVIOUS
<1>1. TokenTypeOK
  BY TokenAssumption DEF AccessInit, TokenInit, TokenTypeOK
<1>2. AccessTypeOK
  BY <1>1 DEF AccessInit, AccessTypeOK, Ids, Steps
<1>3. FlightsShared /\ Paused
  BY TokenAssumption DEF AccessInit, TokenInit, FlightsShared, Paused
<1>4. Links /\ Tenant
  BY CallersAre DEF AccessInit, Links, Tenant
<1> QED
  BY <1>2, <1>3, <1>4 DEF AccessIInv

LEMMA AccessStep == AccessIInv /\ [AccessNext]_accessVars => AccessIInv'
<1> SUFFICES ASSUME AccessIInv, [AccessNext]_accessVars PROVE AccessIInv'
  OBVIOUS
<1>1. AccessTypeOK /\ TokenInv /\ Links /\ Tenant
  BY IInvIs
<1>2. ASSUME NEW r \in Requests, login' = login,
             Begin(r) \/ AskToken(r) \/ NoToken(r) \/ ChatAtOnce(r) \/ Ends(r)
      PROVE  AccessIInv'
  <2>1. ASSUME Ask(r, Chat) PROVE TokenInv'
    BY <1>1, <1>2, <2>1, AskKeeps, CallersAre
  <2>2. ASSUME Spent({r}) PROVE TokenInv'
    BY <1>1, <1>2, <2>2, SpentKeeps
  <2>3. session \in [Requests -> Sessions \cup {NoSession}]
    BY <1>1 DEF AccessTypeOK
  <2>4. ASSUME UNCHANGED session PROVE session' = [session EXCEPT ![r] = session[r]]
    BY <2>3, <2>4
  <2>5. CASE Begin(r)
    <3>1. PICK s \in Sessions, want \in BOOLEAN :
            session' = [session EXCEPT ![r] = s] /\ wantAgent' = [wantAgent EXCEPT ![r] = want]
      BY <2>5 DEF Begin
    <3>2. wantAgent' \in [Requests -> BOOLEAN] /\ refreshed' \in [Requests -> BOOLEAN]
      BY <1>1, <2>5, <3>1 DEF Begin, AccessTypeOK
    <3>3. /\ stage[r] # "refresh" /\ stage' = [stage EXCEPT ![r] = "token"] /\ UNCHANGED agentVars
          /\ TokenInv' /\ s \in Sessions \cup {NoSession}
      BY <2>1, <2>5 DEF Begin
    <3> QED
      BY <1>2, <3>1, <3>2, <3>3, RequestKeeps
  <2>6. CASE Leaves(r) /\ stage[r] # "refresh"
    <3>1. wantAgent' \in [Requests -> BOOLEAN] /\ refreshed' \in [Requests -> BOOLEAN]
      BY <1>1, <2>6 DEF Leaves, AccessTypeOK
    <3>2. /\ session' = [session EXCEPT ![r] = NoSession] /\ stage' = [stage EXCEPT ![r] = "idle"]
          /\ UNCHANGED agentVars /\ TokenInv'
      BY <2>2, <2>6 DEF Leaves
    <3> QED
      BY <1>2, <2>6, <3>1, <3>2, RequestKeeps
  <2>7. ASSUME NEW st \in {"token", "chat"}, stage[r] \in {"ready", "token"}, stage' = [stage EXCEPT ![r] = st],
               UNCHANGED <<agentVars, session, wantAgent, refreshed>>, TokenInv'
        PROVE  AccessIInv'
    <3>1. session[r] \in Sessions
      BY <1>1, <2>7 DEF Links
    <3>2. wantAgent' \in [Requests -> BOOLEAN] /\ refreshed' \in [Requests -> BOOLEAN]
      BY <1>1, <2>7 DEF AccessTypeOK
    <3> QED
      BY <1>2, <2>4, <2>7, <3>1, <3>2, RequestKeeps
  <2>8. CASE AskToken(r)
    BY <2>1, <2>7, <2>8 DEF AskToken
  <2>9. CASE ChatAtOnce(r)
    BY <2>2, <2>7, <2>9 DEF ChatAtOnce, HasToken
  <2> QED
    BY <1>2, <2>5, <2>6, <2>8, <2>9 DEF NoToken, Ends
<1>3. ASSUME NEW s \in Scopes, FlightStep(s), UNCHANGED <<agentVars, requestVars>>, login' = login
      PROVE  AccessIInv'
  <2>1. TokenInv'
    BY <1>1, <1>3, FlightKeeps
  <2>2. /\ UNCHANGED <<bots, used, agentFile, step, target, cachedAgent, resolving, disturbed>>
        /\ UNCHANGED <<session, wantAgent, refreshed, stage>>
    BY <1>3 DEF agentVars, requestVars
  <2>3. AccessTypeOK'
    BY <1>1, <2>1, <2>2 DEF AccessTypeOK, TokenInv
  <2>4. Links' /\ Tenant'
    BY <1>1, <2>2 DEF Links, Tenant
  <2> QED
    BY <2>1, <2>3, <2>4, IInvIs
<1>4. ASSUME NEW b \in Bots, Deleted(b), login' = login PROVE AccessIInv'
  <2>1. /\ bots' = bots \ {b} /\ disturbed' = (disturbed \/ Running # {})
        /\ UNCHANGED <<tokenVars, requestVars, used, agentFile, step, target, cachedAgent, resolving>>
    BY <1>4 DEF Deleted
  <2>2. TokenInv'
    BY <1>1, <2>1 DEF tokenVars, TokenInv, TokenTypeOK, FlightsShared, Paused
  <2>3. AccessTypeOK'
    BY <1>1, <2>1, <2>2 DEF AccessTypeOK, TokenInv, requestVars
  <2>4. Links'
    BY <1>1, <2>1 DEF Links, requestVars
  <2>5. Tenant'
    <3> SUFFICES ASSUME ~disturbed' PROVE Tenant'
      BY DEF Tenant
    <3>1. ~disturbed /\ \A p \in Callers : step'[p] = "idle"
      BY <2>1 DEF Running
    <3> QED
      BY <1>1, <2>1, <3>1 DEF Tenant
  <2> QED
    BY <2>2, <2>3, <2>4, <2>5, IInvIs
<1>5. CASE UNCHANGED accessVars
  <2>1. TokenInv'
    BY <1>1, <1>5 DEF accessVars, tokenVars, TokenInv, TokenTypeOK, FlightsShared, Paused
  <2>2. /\ UNCHANGED <<bots, used, agentFile, step, target, cachedAgent, resolving, disturbed>>
        /\ UNCHANGED <<session, wantAgent, refreshed, stage>>
    BY <1>5 DEF accessVars, agentVars, requestVars
  <2>3. AccessTypeOK'
    BY <1>1, <2>1, <2>2 DEF AccessTypeOK, TokenInv
  <2>4. Links' /\ Tenant'
    BY <1>1, <2>2 DEF Links, Tenant
  <2> QED
    BY <2>1, <2>3, <2>4, IInvIs
<1>6. CASE AccessNext
  BY <1>2, <1>3, <1>4, <1>6, ResolveKeeps, RefreshKeeps, RunKeeps DEF AccessNext
<1> QED
  BY <1>5, <1>6

LEMMA AccessIInvariant == AccessSpec => []AccessIInv
BY AccessStarts, AccessStep, PTL DEF AccessSpec

(* A flight is under way exactly when somebody waits for it, requests wait for *)
(* an agent exactly while the shared run is under way, and a refreshing        *)
(* request has a run of its own.                                               *)
THEOREM AccessShared == AccessSpec => []AccessInv
<1>1. AccessIInv => AccessInv
  BY DEF AccessIInv, AccessInv, Links
<1> QED
  BY <1>1, AccessIInvariant, PTL

(* Runs that do not overlap, and whose deletions succeed, leave one agent. *)
THEOREM OneAgentInTenant == AccessSpec => []OneAgent
<1>1. AccessIInv => OneAgent
  <2> SUFFICES ASSUME AccessIInv, ~disturbed PROVE Cardinality(bots) <= 1
    BY DEF OneAgent
  <2>1. \A a, b \in bots : a = b
    BY DEF AccessIInv, Tenant
  <2>2. bots = {} \/ \E a : bots = {a}
    BY <2>1
  <2>3. Cardinality(bots) = 0 \/ Cardinality(bots) = 1
    BY <2>2, FS_EmptySet, FS_Singleton
  <2> QED
    BY <2>3
<1> QED
  BY <1>1, AccessIInvariant, PTL

(* The agent that a refresh gives to a session exists, or is none. *)
THEOREM RefreshFindsAgent == AccessSpec => RefreshHeals
<1>1. AccessIInv /\ [AccessNext]_accessVars =>
        [\A r \in Requests :
           /\ stage[r] \in {"chat", "refresh"} /\ stage'[r] = "ready" /\ ~disturbed
           /\ cachedAgent'[session[r]] # cachedAgent[session[r]]
           => cachedAgent'[session[r]] \in bots \cup {NoAgent}]_accessVars
  <2> SUFFICES ASSUME AccessIInv, AccessNext, NEW r \in Requests, stage[r] \in {"chat", "refresh"}, stage'[r] = "ready",
                      ~disturbed, cachedAgent'[session[r]] # cachedAgent[session[r]]
               PROVE  cachedAgent'[session[r]] \in bots \cup {NoAgent}
    OBVIOUS
  <2>1. AccessTypeOK /\ Links /\ Tenant /\ session[r] \in Sessions
    BY IInvIs DEF Links
  <2>2. ASSUME UNCHANGED agentVars PROVE FALSE
    BY <2>2 DEF agentVars
  <2>3. ASSUME NEW p \in Callers, RunStep(p) PROVE cachedAgent'[session[r]] \in bots \cup {NoAgent}
    <3>1. ASSUME NEW next, GoesOn(p, next) PROVE FALSE
      BY <3>1 DEF GoesOn
    <3>2. ASSUME NEW id, NEW threw, Over(p, id, threw) PROVE cachedAgent'[session[r]] = id
      <4>1. CASE p = First
        BY <2>1, <3>2, <4>1 DEF Over
      <4>2. CASE p # First
        BY <2>1, <3>2, <4>2, CallersAre DEF Over, AccessTypeOK
      <4> QED
        BY <4>1, <4>2
    <3>3. ASSUME Fails(p) \/ Throws(p) PROVE cachedAgent'[session[r]] = NoAgent
      BY <3>2, <3>3 DEF Fails, Throws
    <3>4. ASSUME Published(p) PROVE cachedAgent'[session[r]] \in bots
      BY <2>1, <3>2, <3>4 DEF Published, Tenant
    <3> QED
      BY <2>3, <3>1, <3>3, <3>4 DEF RunStep, GotBap, GotPowerPlatform, List, Create, Publish, Delete
  <2>4. ASSUME NEW q \in Requests, ResolveAgent(q) PROVE FALSE
    BY <2>1, <2>4 DEF ResolveAgent, AccessTypeOK, HasToken
  <2>5. ASSUME NEW q \in Requests, Refresh(q) PROVE FALSE
    BY <2>5 DEF Refresh
  <2>6. ASSUME NEW b \in Bots, Deleted(b) PROVE FALSE
    BY <2>6 DEF Deleted
  <2> QED
    BY <2>2, <2>3, <2>4, <2>5, <2>6 DEF AccessNext, Begin, AskToken, NoToken, Leaves, ChatAtOnce, Ends
<1> QED
  BY <1>1, AccessIInvariant, PTL DEF RefreshHeals, AccessSpec
=============================================================================
