---------------------------- MODULE SessionStore ----------------------------
(***************************************************************************)
(* packages/proxy-lib/src/session-store.ts: the JSON snapshot, loaded at   *)
(* the first access and written whole by a flush, and the SQLite table,    *)
(* written by each operation; the constructor that picks one and falls     *)
(* back to the other at the same path; crashes, and errors that are only   *)
(* logged.  One process uses the file at a time.                           *)
(***************************************************************************)
EXTENDS StoreMaps

VARIABLES
  file,      \* [format, records]
  backend,   \* of the running process, or "off"
  loaded,    \* cache is not null
  readable,  \* the first access finds a snapshot and can read it
  cache,
  now, answer

vars == <<file, backend, loaded, readable, cache, now, answer>>

Init ==
  /\ file = [format |-> "none", records |-> Nothing] /\ backend = "off"
  /\ loaded = FALSE /\ readable = FALSE /\ cache = Nothing /\ now = 0 /\ answer = NoRecord

\* load: what the cache holds from the first access on.
Loaded == IF loaded THEN cache ELSE IF readable THEN Fresh(file.records, now) ELSE Nothing

\* The constructor, also when the other backend's init throws.  The JSON
\* backend reads nothing yet; an unreadable snapshot, or a database, will
\* start it empty.
OpenJson ==
  /\ backend = "off" /\ backend' = "json" /\ loaded' = FALSE
  /\ readable' \in {FALSE, file.format = "json"}
  /\ UNCHANGED <<file, cache, now, answer>>

\* init creates the table and prunes; a snapshot is not a database.
OpenSqlite ==
  /\ backend = "off" /\ file.format # "json" /\ backend' = "sqlite"
  /\ \E records \in {file.records, Fresh(file.records, now)} :
       file' = [format |-> "sqlite", records |-> records]
  /\ UNCHANGED <<loaded, readable, cache, now, answer>>
-----------------------------------------------------------------------------
JsonGet(k) ==
  /\ backend = "json" /\ loaded' = TRUE
  /\ LET fresh == Fresh(Loaded, now)[k] IN
       /\ cache' = IF fresh = NoRecord THEN Without(Loaded, {k}) ELSE Loaded
       /\ answer' = fresh
  /\ UNCHANGED <<file, backend, readable, now>>

\* set, and the eviction behind it: the map is too large only if the key is new,
\* and a stable sort of the entries then puts it last.
JsonSet_FromFile(k, v) ==
  /\ backend = "json" /\ loaded' = TRUE
  /\ LET put == [file.records EXCEPT ![k] = [value |-> v, used |-> now]] IN
       \E E \in Evictions(put) : k \notin E /\ cache' = Without(put, E)
  /\ UNCHANGED <<file, backend, readable, now, answer>>
JsonSet(k, v) ==
  /\ backend = "json" /\ loaded' = TRUE
  /\ LET put == [Loaded EXCEPT ![k] = [value |-> v, used |-> now]] IN
       \E E \in Evictions(put) : k \notin E /\ cache' = Without(put, E)
  /\ UNCHANGED <<file, backend, readable, now, answer>>

JsonDelete(k) ==
  /\ backend = "json" /\ loaded' = TRUE /\ cache' = Without(Loaded, {k})
  /\ UNCHANGED <<file, backend, readable, now, answer>>

JsonPrune ==
  /\ backend = "json" /\ loaded' = TRUE /\ cache' = Fresh(Loaded, now)
  /\ UNCHANGED <<file, backend, readable, now, answer>>

\* flush: a temporary file, then the rename; any error, or a crash before the
\* rename, leaves the file as it was.
Flushed == file' = [format |-> "json", records |-> Loaded]
Flush ==
  /\ backend = "json" /\ loaded' = TRUE /\ cache' = Loaded
  /\ Flushed \/ file' = file
  /\ UNCHANGED <<backend, readable, now, answer>>

\* close: flush, or close the database.
Close ==
  /\ backend # "off" /\ backend' = "off" /\ loaded' = FALSE /\ cache' = Nothing
  /\ IF backend = "json" THEN Flushed \/ file' = file ELSE file' = file
  /\ UNCHANGED <<readable, now, answer>>
-----------------------------------------------------------------------------
Table(records) == file' = [file EXCEPT !.records = records]

\* An expired row is deleted, or the deletion fails; an error reads as null.
SqliteGet(k) ==
  /\ backend = "sqlite"
  /\ LET fresh == Fresh(file.records, now)[k] IN
       \/ answer' = fresh /\ file' = file
       \/ answer' = NoRecord /\ file' = file
       \/ answer' = NoRecord /\ fresh = NoRecord /\ Table(Without(file.records, {k}))
  /\ UNCHANGED <<backend, loaded, readable, cache, now>>

\* Two statements without a transaction: either may fail, which is only logged.
SqliteSet(k, v) ==
  /\ backend = "sqlite"
  /\ LET put == [file.records EXCEPT ![k] = [value |-> v, used |-> now]] IN
       file' = file \/ \E E \in Evictions(put) \cup {{}} : Table(Without(put, E))
  /\ UNCHANGED <<backend, loaded, readable, cache, now, answer>>

SqliteDelete(k) ==
  /\ backend = "sqlite" /\ (file' = file \/ Table(Without(file.records, {k})))
  /\ UNCHANGED <<backend, loaded, readable, cache, now, answer>>

SqlitePrune ==
  /\ backend = "sqlite" /\ (file' = file \/ Table(Fresh(file.records, now)))
  /\ UNCHANGED <<backend, loaded, readable, cache, now, answer>>
-----------------------------------------------------------------------------
Crash ==
  /\ backend # "off" /\ backend' = "off" /\ loaded' = FALSE /\ cache' = Nothing
  /\ UNCHANGED <<file, readable, now, answer>>

Tick ==
  /\ now < MaxTime /\ now' = now + 1
  /\ UNCHANGED <<file, backend, loaded, readable, cache, answer>>

Next ==
  \/ OpenJson \/ OpenSqlite \/ Flush \/ Close \/ Crash \/ Tick \/ JsonPrune \/ SqlitePrune
  \/ \E k \in Keys :
       \/ JsonGet(k) \/ JsonDelete(k) \/ SqliteGet(k) \/ SqliteDelete(k)
       \/ \E v \in Values : JsonSet(k, v) \/ SqliteSet(k, v)

Spec == Init /\ [][Next]_vars
-----------------------------------------------------------------------------
TypeOK ==
  /\ file \in [format : {"none", "json", "sqlite"}, records : Maps]
  /\ backend \in {"off", "json", "sqlite"} /\ {loaded, readable} \subseteq BOOLEAN
  /\ cache \in Maps /\ now \in 0..MaxTime /\ answer \in Records \cup {NoRecord}
  /\ readable => file.format = "json" \/ backend # "json"
  /\ backend = "sqlite" => file.format = "sqlite"

\* What the process answers, and what the next one can find.
Live ==
  CASE backend = "off" -> Nothing
    [] backend = "json" -> Fresh(Loaded, now)
    [] backend = "sqlite" -> Fresh(file.records, now)
Kept == Fresh(file.records, now)

\* A snapshot never holds more sessions than it may, and so no process reads
\* more from it.
Capacity ==
  /\ TypeOK
  /\ file.format = "json" => Excess(file.records) <= 0
  /\ backend = "json" => Excess(Loaded) <= 0

\* Both backends, with lazy loading, fallback, crashes and swallowed errors,
\* do what RecordStore says.
Store == INSTANCE RecordStore WITH live <- Live, kept <- Kept
ImplementsRecordStore == Store!Spec
=============================================================================
