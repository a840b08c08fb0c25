-------------------------- MODULE TelemetrySchema ---------------------------
(***************************************************************************)
(* Opening the telemetry database (storage/sqlite_telemetry_store.go):      *)
(* every operation of the store opens savings-telemetry.db, detects its     *)
(* schema version and applies the missing migrations, each in a transaction *)
(* of its own.  The store's mutex is one of its process: servers and the    *)
(* evaluation command that share a storage directory open it side by side,  *)
(* and may die between two steps.                                           *)
(***************************************************************************)
EXTENDS Naturals

CONSTANT Openers  \* processes that share the storage directory

VARIABLES disk,   \* schema_version (0 when meta has no such row) and what the file has
          opener  \* where each process's openDB is

schemaVars == <<disk, opener>>

Current == 3  \* telemetrySQLiteCurrentSchemaVersion

Disk(version, snapshots, events, runColumn, benchmarks) ==
  [version |-> version, snapshots |-> snapshots, events |-> events,
   runColumn |-> runColumn, benchmarks |-> benchmarks]

\* A new file, files of the releases before schema_version, files of each version, and
\* one of a later release.
Found == {Disk(0, FALSE, FALSE, FALSE, FALSE), Disk(0, TRUE, FALSE, FALSE, FALSE),
          Disk(0, TRUE, TRUE, FALSE, FALSE), Disk(0, TRUE, TRUE, TRUE, TRUE),
          Disk(1, TRUE, FALSE, FALSE, FALSE), Disk(2, TRUE, TRUE, FALSE, FALSE),
          Disk(3, TRUE, TRUE, TRUE, TRUE), Disk(4, TRUE, TRUE, TRUE, TRUE)}

SchemaInit ==
  /\ disk \in Found
  /\ opener = [o \in Openers |-> [at |-> "closed", next |-> 0]]

\* A mutation: a file with call_events counts as current.
DetectedByEvents ==
  IF disk.version > 0 THEN disk.version
  ELSE IF disk.events THEN Current
  ELSE IF disk.snapshots THEN 1 ELSE 0

Detected ==
  IF disk.version > 0 THEN disk.version
  ELSE IF disk.events THEN IF disk.benchmarks /\ disk.runColumn THEN Current ELSE 2
  ELSE IF disk.snapshots THEN 1 ELSE 0

Detect(o) ==
  /\ opener[o].at = "closed"
  /\ opener' = [opener EXCEPT ![o] =
       [at |-> IF Detected > Current THEN "failed" ELSE "migrating", next |-> Detected + 1]]
  /\ UNCHANGED disk

\* ALTER TABLE needs the table and refuses a column that is there; the other statements
\* say IF NOT EXISTS.
Applies(v) == v = 3 => disk.snapshots /\ ~disk.runColumn

Migrated(v) ==
  CASE v = 1 -> [disk EXCEPT !.version = 1, !.snapshots = TRUE]
    [] v = 2 -> [disk EXCEPT !.version = 2, !.events = TRUE]
    [] v = 3 -> [disk EXCEPT !.version = 3, !.runColumn = TRUE, !.benchmarks = TRUE]

\* One transaction; one that fails, or whose commit fails, is rolled back.
Migrate(o) ==
  LET v == opener[o].next IN
  /\ opener[o].at = "migrating" /\ v <= Current
  /\ \/ Applies(v) /\ disk' = Migrated(v) /\ opener' = [opener EXCEPT ![o].next = v + 1]
     \/ opener' = [opener EXCEPT ![o].at = "failed"] /\ UNCHANGED disk

Opened(o) ==
  /\ opener[o].at = "migrating" /\ opener[o].next > Current
  /\ opener' = [opener EXCEPT ![o].at = "ready"] /\ UNCHANGED disk

\* The operation is over, or its process dies.
Leave(o) ==
  /\ opener[o].at # "closed"
  /\ opener' = [opener EXCEPT ![o] = [at |-> "closed", next |-> 0]] /\ UNCHANGED disk

SchemaNext == \E o \in Openers : Detect(o) \/ Migrate(o) \/ Opened(o) \/ Leave(o)

SchemaSpec == SchemaInit /\ [][SchemaNext]_schemaVars
-----------------------------------------------------------------------------
\* The statements that follow a successful openDB find every table and column they name,
\* whatever another process has migrated in the meantime and wherever one died.
ReadyMeansCurrent ==
  \A o \in Openers : opener[o].at = "ready" =>
    disk.snapshots /\ disk.events /\ disk.runColumn /\ disk.benchmarks
=============================================================================
