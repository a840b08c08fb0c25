----------------------------- MODULE IndexStore -----------------------------
(***************************************************************************)
(* SQLiteIndexStore: the file <slug>.db, its JSON sidecar <slug>.json and  *)
(* the sidecar's temporary file, for the repositories whose IDs have the   *)
(* same slug.                                                              *)
(*                                                                         *)
(* A store object guards its methods with an RWMutex; server processes on  *)
(* one storage directory have an object each.  The methods that only read  *)
(* take the mutex for reading and still write: Load imports a sidecar when *)
(* the database has no row, List imports every sidecar it finds.           *)
(*                                                                         *)
(* Every system call and every SQL transaction is a step.  A snapshot is   *)
(* the repository it belongs to and the number of the save it comes from;  *)
(* number 0 was written as plain JSON before the database existed.  The    *)
(* -wal and -shm files are part of the database.                           *)
(***************************************************************************)
EXTENDS Naturals, FiniteSets

CONSTANTS
    Repos,      \* repositories with the same slug
    Callers,    \* goroutines that call the store
    Processes,  \* server processes with this storage directory
    ProcessOf,  \* ProcessOf[c]: the process goroutine c runs in
    None,       \* no snapshot, no file
    Torn,       \* a file that is empty or written in part
    KindsOf,    \* KindsOf[c]: the methods goroutine c calls
    MaxSaves, MaxCalls, MaxFaults   \* bounds of a run

Kinds == {"load", "list", "save", "delete"}
Snapshot == [repo : Repos, ver : Nat]
NoDb == {None}

ASSUME IndexStoreAssumption ==
    /\ Repos # {}
    /\ ProcessOf \in [Callers -> Processes]
    /\ KindsOf \in [Callers -> SUBSET Kinds]
    /\ None \notin [repo : Repos, ver : Nat] /\ Torn \notin [repo : Repos, ver : Nat]
    /\ None # Torn
    /\ {MaxSaves, MaxCalls, MaxFaults} \subseteq Nat

VARIABLES
    db,         \* rows of repo_snapshot, or NoDb while <slug>.db does not exist
    json,       \* <slug>.json
    tmp,        \* <slug>.json.tmp
    op,         \* the call each goroutine is running
    ended,      \* history: saves that returned or were cut off
    superseded, \* history: saves that ended before an acknowledged save or delete began
    kept,       \* history: a save was acknowledged and no delete has run since it began
    saves, calls, faults    \* counters for the bounds

vars == <<db, json, tmp, op, ended, superseded, kept, saves, calls, faults>>

-----------------------------------------------------------------------------
Steps == {"idle", "lock", "stat", "query", "legacy", "open", "commit", "create",
          "write", "rename", "dropdb", "dropjson"}

Op == [pc : Steps, kind : Kinds, repo : Repos,
       data : Snapshot \cup {None},     \* what writePersisted writes
       row : Snapshot \cup {None},      \* what List read from the database
       linked : BOOLEAN,                \* the database it opened is still <slug>.db
       fd : {"none", "tmp", "json"},    \* the name of the sidecar file it has open
       older : SUBSET Nat,              \* history: what its result must not be
       keeps : BOOLEAN,                 \* history: no delete has run since it began
       answer : {"none", "done", "found", "not found", "failure"},
       got : Snapshot \cup {None}]

Idle(r) == [pc |-> "idle", kind |-> "load", repo |-> r, data |-> None, row |-> None,
            linked |-> FALSE, fd |-> "none", older |-> {}, keeps |-> TRUE,
            answer |-> "none", got |-> None]

Call(k, r) ==
    [Idle(r) EXCEPT !.pc = "lock", !.kind = k,
                    !.data = IF k = "save" THEN [repo |-> r, ver |-> saves + 1] ELSE None,
                    !.older = IF k \in {"save", "delete"} THEN ended ELSE superseded,
                    !.keeps = ~ \E d \in Callers : op[d].pc # "idle" /\ op[d].kind = "delete"]

Init ==
    /\ db = NoDb
    /\ json \in {None} \cup {[repo |-> r, ver |-> 0] : r \in Repos}
    /\ tmp = None
    /\ op = [c \in Callers |-> Idle(CHOOSE r \in Repos : TRUE)]
    /\ ended = {0} /\ superseded = {} /\ kept = (json # None)
    /\ saves = 0 /\ calls = 0 /\ faults = 0

Running(c) == op[c].pc # "idle"
Reads(c) == op[c].kind \in {"load", "list"}
\* Past the RWMutex.
Inside(c) == op[c].pc \notin {"idle", "lock"}

Files == <<db, json, tmp>>
History == <<ended, superseded, kept>>
Counters == <<saves, calls, faults>>

Goto(c, place) == op' = [op EXCEPT ![c].pc = place]

-----------------------------------------------------------------------------
(* A call begins, takes the mutex and returns.                             *)

BeginCall(c, k, r) ==
    /\ ~Running(c) /\ calls < MaxCalls /\ (k = "save" => saves < MaxSaves)
    /\ calls' = calls + 1
    /\ saves' = IF k = "save" THEN saves + 1 ELSE saves
    /\ op' = [d \in Callers |-> IF d = c THEN Call(k, r)
                                ELSE [op[d] EXCEPT !.keeps = @ /\ k # "delete"]]
    /\ kept' = (kept /\ k # "delete")
    /\ UNCHANGED <<Files, ended, superseded, faults>>

Entry(k) == CASE k = "save" -> "open" [] k = "delete" -> "dropdb" [] OTHER -> "stat"

\* mu.Lock or mu.RLock
Lock(c) ==
    /\ op[c].pc = "lock"
    /\ \A d \in Callers \ {c} :
          ProcessOf[d] = ProcessOf[c] /\ Inside(d) => Reads(c) /\ Reads(d)
    /\ Goto(c, Entry(op[c].kind))
    /\ UNCHANGED <<Files, History, Counters>>

\* A call that has returned.
Returned(c, answer, got) ==
    [Idle(op[c].repo) EXCEPT !.answer = answer, !.got = got]

\* What returning does to the history.
Ends(c, answer) ==
    LET acknowledged == op[c].kind \in {"save", "delete"} /\ answer = "done"
    IN  /\ ended' = IF op[c].kind = "save" THEN ended \cup {op[c].data.ver} ELSE ended
        /\ superseded' = IF acknowledged THEN superseded \cup op[c].older ELSE superseded
        /\ kept' = (kept \/ (acknowledged /\ op[c].kind = "save" /\ op[c].keeps))

Return(c, answer, got) ==
    /\ op' = [op EXCEPT ![c] = Returned(c, answer, got)]
    /\ Ends(c, answer)

\* List skips what it cannot read or import and returns the rows it has.
ReturnList(c, got) == Return(c, IF got = None THEN "not found" ELSE "found", got)

-----------------------------------------------------------------------------
(* readPersisted, and what List does for the database and for the sidecar  *)

StatDb(c) ==
    /\ op[c].pc = "stat"
    /\ Goto(c, IF db = NoDb THEN "legacy" ELSE "query")
    /\ UNCHANGED <<Files, History, Counters>>

Opened == IF db = NoDb THEN {} ELSE db

\* openDB, which creates the file, and SELECT ... LIMIT 1, which takes any row.
QueryDb(c) ==
    /\ op[c].pc = "query"
    /\ db' = Opened
    /\ \/ /\ Opened = {}
          /\ Goto(c, "legacy") /\ UNCHANGED History
       \/ \E s \in Opened :
             IF op[c].kind = "load" THEN Return(c, "found", s)
             ELSE /\ op' = [op EXCEPT ![c].row = s, ![c].pc = "legacy"]
                  /\ UNCHANGED History
    /\ UNCHANGED <<json, tmp, Counters>>

\* Mutants: the import moves the sidecar away; it does not check what it decodes.
ReadSidecarMoves(c) ==
    /\ op[c].pc = "legacy" /\ json \in Snapshot
    /\ op' = [op EXCEPT ![c].data = json, ![c].pc = "open"]
    /\ json' = None
    /\ UNCHANGED <<db, tmp, History, Counters>>

\* readLegacyJSONByPath reads and decodes the sidecar.
ReadSidecar(c) ==
    /\ op[c].pc = "legacy"
    /\ \/ /\ json \in Snapshot
          /\ op' = [op EXCEPT ![c].data = json, ![c].pc = "open"]
          /\ UNCHANGED History
       \/ /\ json \notin Snapshot
          /\ IF op[c].kind = "list" THEN ReturnList(c, op[c].row)
             ELSE Return(c, IF json = None THEN "not found" ELSE "failure", None)
    /\ UNCHANGED <<Files, Counters>>

-----------------------------------------------------------------------------
(* writePersisted: the transaction, then the sidecar                       *)

OpenDb(c) ==
    /\ op[c].pc = "open"
    /\ db' = Opened
    /\ op' = [op EXCEPT ![c].linked = TRUE, ![c].pc = "commit"]
    /\ UNCHANGED <<json, tmp, History, Counters>>

\* INSERT OR REPLACE by repository, in one transaction.  A database that was removed
\* after it was opened takes the row with it.
CommitRow(c) ==
    LET s == op[c].data
    IN  /\ op[c].pc = "commit"
        /\ db' = IF op[c].linked THEN {t \in Opened : t.repo # s.repo} \cup {s} ELSE db
        /\ Goto(c, "create")
        /\ UNCHANGED <<json, tmp, History, Counters>>

\* os.WriteFile opens the temporary file with O_TRUNC, whoever else has it open.
CreateTmp(c) ==
    /\ op[c].pc = "create"
    /\ tmp' = Torn
    /\ op' = [op EXCEPT ![c].fd = "tmp", ![c].pc = "write"]
    /\ UNCHANGED <<db, json, History, Counters>>

\* It writes to the file it opened, under the name this has by now.
WriteTmp(c) ==
    /\ op[c].pc = "write"
    /\ tmp' = IF op[c].fd = "tmp" THEN op[c].data ELSE tmp
    /\ json' = IF op[c].fd = "json" THEN op[c].data ELSE json
    /\ Goto(c, "rename")
    /\ UNCHANGED <<db, History, Counters>>

\* Who has the old file of a name open, has it no more under a name.
Renamed == [d \in Callers |->
    [op[d] EXCEPT !.fd = IF @ = "tmp" THEN "json" ELSE "none"]]

Finish(c, o) ==
    CASE o.kind = "save" -> Returned(c, "done", None)
      [] o.kind = "load" -> Returned(c, "found", o.data)
      [] o.kind = "list" -> Returned(c, "found", IF o.row = None THEN o.data ELSE o.row)

\* os.Rename of whatever is the temporary file now.
RenameTmp(c) ==
    /\ op[c].pc = "rename" /\ tmp # None
    /\ json' = tmp /\ tmp' = None
    /\ op' = [Renamed EXCEPT ![c] = Finish(c, op[c])]
    /\ Ends(c, "done")
    /\ UNCHANGED <<db, Counters>>

Abandon(c) == IF op[c].kind = "list" THEN ReturnList(c, op[c].row)
              ELSE Return(c, "failure", None)

\* The temporary file was renamed by someone else.
RenameMissing(c) ==
    /\ op[c].pc = "rename" /\ tmp = None
    /\ Abandon(c)
    /\ UNCHANGED <<Files, Counters>>

-----------------------------------------------------------------------------
(* Delete                                                                  *)

RemoveDb(c) ==
    /\ op[c].pc = "dropdb"
    /\ db' = NoDb
    /\ op' = [d \in Callers |-> IF d = c THEN [op[d] EXCEPT !.pc = "dropjson"]
                                ELSE [op[d] EXCEPT !.linked = FALSE]]
    /\ UNCHANGED <<json, tmp, History, Counters>>

\* Mutant: Delete leaves the sidecar.
KeepSidecar(c) ==
    /\ op[c].pc = "dropjson"
    /\ Return(c, "done", None)
    /\ UNCHANGED <<Files, Counters>>

RemoveSidecar(c) ==
    /\ op[c].pc = "dropjson"
    /\ json' = None
    /\ op' = [d \in Callers |-> IF d = c THEN Returned(c, "done", None)
                                ELSE [op[d] EXCEPT !.fd = IF @ = "json" THEN "none" ELSE @]]
    /\ Ends(c, "done")
    /\ UNCHANGED <<db, tmp, Counters>>

-----------------------------------------------------------------------------
(* Failures                                                                *)

\* A system call or a transaction fails, after its retries, and changes nothing, but that
\* opening may create an empty database.  A write that fails leaves the torn file.  List
\* goes on to the sidecar when it cannot read the database.
StepFails(c) ==
    /\ Inside(c) /\ faults < MaxFaults
    /\ faults' = faults + 1
    /\ IF op[c].kind = "list" /\ op[c].pc \in {"stat", "query"}
       THEN Goto(c, "legacy") /\ UNCHANGED History
       ELSE Abandon(c)
    /\ db' \in {db} \cup (IF op[c].pc \in {"query", "open"} THEN {Opened} ELSE {})
    /\ UNCHANGED <<json, tmp, saves, calls>>

\* The process dies and is started again.
Crash(q) ==
    LET dead == {c \in Callers : ProcessOf[c] = q /\ Running(c)}
        cut == {op[c].data.ver : c \in {d \in dead : op[d].kind = "save"}}
    IN  /\ dead # {} /\ faults < MaxFaults
        /\ faults' = faults + 1
        /\ op' = [c \in Callers |-> IF c \in dead THEN Idle(op[c].repo) ELSE op[c]]
        /\ ended' = ended \cup cut
        /\ UNCHANGED <<Files, superseded, kept, saves, calls>>

ReadStep(c) == StatDb(c) \/ QueryDb(c) \/ ReadSidecar(c)
WriteStep(c) == \/ OpenDb(c) \/ CommitRow(c) \/ CreateTmp(c) \/ WriteTmp(c)
                \/ RenameTmp(c) \/ RenameMissing(c)
DeleteStep(c) == RemoveDb(c) \/ RemoveSidecar(c)

Next ==
    \/ \E c \in Callers : \E k \in KindsOf[c], r \in Repos : BeginCall(c, k, r)
    \/ \E c \in Callers : Lock(c) \/ ReadStep(c) \/ WriteStep(c) \/ DeleteStep(c) \/ StepFails(c)
    \/ \E q \in Processes : Crash(q)

Spec == Init /\ [][Next]_vars

-----------------------------------------------------------------------------
File == Snapshot \cup {None, Torn}

TypeOK ==
    /\ db \in (SUBSET Snapshot) \cup {NoDb}
    /\ json \in File /\ tmp \in File
    /\ op \in [Callers -> Op]
    /\ ended \subseteq Nat /\ superseded \subseteq Nat /\ kept \in BOOLEAN
    /\ saves \in Nat /\ calls \in Nat /\ faults \in Nat

\* "Load returns the current persisted index": no Load and no List returns a snapshot that
\* was saved before a save or delete which was acknowledged before the Load began, through
\* failed and cut-off saves, imports of sidecars and restarts.
Answers(c) == Running(c) /\ op'[c].pc = "idle" /\ op'[c].answer = "found"
LoadsAreRecent ==
    [][\A c \in Callers : Answers(c) => op'[c].got.ver \notin op[c].older]_vars

\* What a Load would read: a row, or the sidecar.
Readable == Opened # {} \/ json \in Snapshot

\* An acknowledged save is there to be read until a delete begins: the database always
\* holds a row before the sidecar that holds the only copy is touched.
AcknowledgedSurvives == kept => Readable

\* Calls of one process that write at the same time write the same snapshot: readers
\* import the sidecar under the read lock, and nobody changes it meanwhile.
Writing(c) == op[c].pc \in {"open", "commit", "create", "write", "rename"}
WritersAgree ==
    \A c, d \in Callers :
        ProcessOf[c] = ProcessOf[d] /\ Writing(c) /\ Writing(d) => op[c].data = op[d].data
=============================================================================
