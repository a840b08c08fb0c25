------------------------------ MODULE IndexSync ------------------------------
(***************************************************************************)
(* One repository as index_folder, index_file and invalidate_cache see it: *)
(* the working tree, the persisted index (file hashes, git HEAD and the    *)
(* chunk map kept in ContextMetadata) and the vector store's namespace.    *)
(*                                                                         *)
(* The handlers write the two stores one after the other: first save of    *)
(* the index, vector upserts batch by batch, deletes of stale vectors      *)
(* batch by batch, second save with the new chunk map.  Reindexing calls   *)
(* of one process are serialised by the repository mutex;                  *)
(* invalidate_cache is not.  A request to the vector store whose attempt   *)
(* timed out may arrive later, even in a later call (VectorContract).      *)
(*                                                                         *)
(* A content hash is identified with the content.  A chunk ID hashes       *)
(* repo, path, line span and text, so it is a pair <<path, part>>.         *)
(***************************************************************************)
EXTENDS Naturals, FiniteSets

CONSTANTS
    Paths,          \* source files the repository may hold
    Ignored,        \* those discoverFolderFiles filters out (.gitignore, size, ...)
    Contents,       \* what a file may contain
    PartsOf,        \* PartsOf[c]: the chunk texts of content c
    Callers,        \* goroutines running a tool call (MCP loop, watcher loop)
    InitialTrees,   \* the working trees a run starts from
    Processes,      \* server processes sharing the storage directory
    ProcessOf,      \* ProcessOf[c]: the process caller c runs in
    Absent,         \* no such file / no such entry
    Unreadable,     \* the file is there, but os.Stat or reading it fails
    NoIndex,        \* ErrRepoNotFound
    Nobody,         \* the repository mutex is free
    KindsOf,        \* KindsOf[c]: the calls caller c issues (the watcher loop: "changed")
    BatchSize,      \* vectorUpsertBatchSize / vectorDeleteBatchSize
    MaxEdits, MaxCommits, MaxCalls, MaxFaults   \* bounds of a run

AllKinds == {"full", "incremental", "changed", "file", "invalidate"}

ASSUME IndexSyncAssumption ==
    /\ Ignored \subseteq Paths
    /\ {Absent, Unreadable} \cap Contents = {} /\ Unreadable # Absent
    /\ Nobody \notin Callers
    /\ KindsOf \in [Callers -> SUBSET AllKinds]
    /\ PartsOf \in [Contents -> SUBSET UNION {PartsOf[c] : c \in Contents}]
    /\ ProcessOf \in [Callers -> Processes]
    /\ InitialTrees \subseteq [Paths -> Contents \cup {Absent}]
    /\ BatchSize \in Nat \ {0}
    /\ {MaxEdits, MaxCommits, MaxCalls, MaxFaults} \subseteq Nat

VARIABLES
    fs,         \* the working tree: content, Absent or Unreadable per path
    head,       \* current git HEAD; 0 while the folder is not a git repository
    stray,      \* requests to the vector store that timed out and may still arrive
    idx,        \* the persisted index, or NoIndex
    vec,        \* chunk IDs in the vector store's namespace of the repository
    mutex,      \* repoReindexMutex of each process
    op,         \* the call each caller is running
    unsynced,   \* history: indexed paths whose last vector sync did not complete
    leaked,     \* history: vectors a call gave up track of
    edits, calls, faults    \* counters for the bounds

vars == <<fs, head, stray, idx, vec, mutex, op, unsynced, leaked, edits, calls, faults>>

-----------------------------------------------------------------------------
Tree == [Paths -> Contents \cup {Absent}]
Ids == Paths \X UNION {PartsOf[c] : c \in Contents}
\* A request to the vector store; attempt tells the attempts of one request apart.
Requests == [put : BOOLEAN, ids : SUBSET Ids, attempt : Nat]
ChunkMap == [Paths -> SUBSET Ids]
Index == [files : Tree, head : Nat, chunks : ChunkMap]
ASSUME NoIndexAssumption == NoIndex \notin Index

\* buildDeterministicChunkMetadata: the chunk IDs of path p with content c.
IdsOf(p, c) == IF c = Absent THEN {} ELSE {p} \X PartsOf[c]
AllIds(m) == UNION {m[p] : p \in Paths}

NoFiles == [p \in Paths |-> Absent]
NoChunks == [p \in Paths |-> {}]
EmptyIndex == [files |-> NoFiles, head |-> 0, chunks |-> NoChunks]

Readable == {p \in Paths : fs[p] # Unreadable}

\* Mutant: the discovery filters are not applied.
UnfilteredDiscovery == [p \in Paths |-> IF p \in Readable THEN fs[p] ELSE Absent]

\* discoverFolderFiles: the hashes of the files that pass its filters.  A file whose stat
\* or hash fails is left out with a warning, as if it did not exist.
Discovered == [p \in Paths |-> IF p \in Readable \ Ignored THEN fs[p] ELSE Absent]

PathsIn(t) == {p \in Paths : t[p] # Absent}
\* diffFileHashes: (changed or new, deleted) from tree s to tree t.
ChangedOrNew(s, t) == {p \in PathsIn(t) : s[p] # t[p]}
Deleted(s, t) == PathsIn(s) \ PathsIn(t)

Steps == {"idle", "lock", "load", "scan", "save", "collect", "upsert", "prune",
          "resolve", "namespace", "drop"}

Op == [pc : Steps, kind : AllKinds, args : SUBSET Paths, mem : Index,
       found : BOOLEAN, head : Nat, todo : SUBSET Paths, gone : SUBSET Paths,
       texts : Tree, pending : SUBSET Ids,
       dirty : SUBSET Paths, touched : SUBSET Paths,
       result : {"none", "success", "failure"}]

NewCall(k, ps) ==
    [pc |-> IF k = "invalidate" THEN "resolve" ELSE "lock", kind |-> k, args |-> ps,
     mem |-> EmptyIndex, found |-> FALSE, head |-> 0, todo |-> {}, gone |-> {},
     texts |-> NoFiles, pending |-> {}, dirty |-> {}, touched |-> {},
     result |-> "none"]

Idle == [NewCall("full", {}) EXCEPT !.pc = "idle"]

Running(c) == op[c].pc # "idle"
Reindexing(c) == Running(c) /\ op[c].kind # "invalidate"

\* index_folder with changed_paths over an existing index (indexFolderFromChangedPaths).
FastPath(o) == o.kind = "changed" /\ o.found /\ o.args # {}
\* index_folder that rebuilds the RepoIndex from nothing.
Rebuild(o) == o.kind = "full" \/ (o.kind \in {"incremental", "changed"} /\ ~o.found)

Init ==
    /\ fs \in InitialTrees
    /\ head = 0
    /\ stray = {}
    /\ idx = NoIndex
    /\ vec = {}
    /\ mutex = [q \in Processes |-> Nobody]
    /\ op = [c \in Callers |-> Idle]
    /\ unsynced = {}
    /\ leaked = {}
    /\ edits = 0 /\ calls = 0 /\ faults = 0

Stores == <<idx, vec>>
Outside == <<fs, head, stray>>
Counters == <<edits, calls, faults>>
History == <<unsynced, leaked>>

-----------------------------------------------------------------------------
(* The environment: the user edits, commits and takes files out of reach   *)
(* (permissions, locks, an I/O error) while calls are running.             *)

EditFile(p, x) ==
    /\ edits < MaxEdits /\ x # fs[p]
    /\ edits' = edits + 1
    /\ fs' = [fs EXCEPT ![p] = x]
    /\ op' = [c \in Callers |-> IF Running(c) THEN [op[c] EXCEPT !.touched = @ \cup {p}]
                                ELSE op[c]]
    /\ UNCHANGED <<head, stray, Stores, mutex, History, calls, faults>>

GitCommit ==
    /\ head < MaxCommits
    /\ head' = head + 1
    /\ UNCHANGED <<fs, stray, Stores, mutex, op, History, Counters>>

-----------------------------------------------------------------------------
(* A call is dispatched.  Calls that fail validation before they touch any *)
(* state (no such folder, unsupported file type, ...) are left out; what   *)
(* index_file checks before the mutex is its guard.                        *)

CanStart(k, ps) ==
    /\ k \in {"full", "incremental", "invalidate"} => ps = {}
    /\ k = "changed" => ps # {}
    /\ k = "file" => /\ \E p \in Paths : ps = {p} /\ fs[p] # Absent
                     /\ idx # NoIndex

StartCall(c, k, ps) ==
    /\ ~Running(c) /\ calls < MaxCalls /\ CanStart(k, ps)
    /\ calls' = calls + 1
    /\ op' = [op EXCEPT ![c] = NewCall(k, ps)]
    /\ UNCHANGED <<Outside, Stores, mutex, History, edits, faults>>

\* Mutant: the handler does not wait for the repository mutex.
LockRepoNoWait(c) ==
    /\ op[c].pc = "lock"
    /\ mutex' = [mutex EXCEPT ![ProcessOf[c]] = c]
    /\ op' = [op EXCEPT ![c].pc = "load"]
    /\ UNCHANGED <<Outside, Stores, History, Counters>>

\* runWithReindexLifecycle: repoMu.Lock().
LockRepo(c) ==
    /\ op[c].pc = "lock" /\ mutex[ProcessOf[c]] = Nobody
    /\ mutex' = [mutex EXCEPT ![ProcessOf[c]] = c]
    /\ op' = [op EXCEPT ![c].pc = "load"]
    /\ UNCHANGED <<Outside, Stores, History, Counters>>

\* Mutant: an early return leaves the mutex locked.
ReturnStillLocked(c, r) ==
    /\ op' = [op EXCEPT ![c] = [Idle EXCEPT !.result = r]]
    /\ UNCHANGED mutex

\* The handler returns; the deferred repoMu.Unlock() runs whatever the result.
Return(c, r) ==
    /\ op' = [op EXCEPT ![c] = [Idle EXCEPT !.result = r]]
    /\ mutex' = IF mutex[ProcessOf[c]] = c THEN [mutex EXCEPT ![ProcessOf[c]] = Nobody]
                ELSE mutex

Continue(c, o) == op' = [op EXCEPT ![c] = o] /\ UNCHANGED mutex

-----------------------------------------------------------------------------
(* index_folder                                                            *)

\* store.Load and gitHeadAtPath.
LoadFolder(c) ==
    /\ op[c].pc = "load" /\ op[c].kind # "file"
    /\ Continue(c, [op[c] EXCEPT !.pc = "scan", !.found = idx # NoIndex,
                                 !.mem = IF idx = NoIndex THEN EmptyIndex ELSE idx,
                                 !.head = head, !.touched = {}])
    /\ UNCHANGED <<Outside, Stores, History, Counters>>

\* The changed_paths branch.  `existing` is passed by value: its maps are shared
\* with the caller, its scalar fields (GitHead) are not, so mem.head stays as loaded.
\* No discovery filter applies.  A file whose stat or hash fails keeps its entry, with a
\* warning.  With nothing changed and every mtime as stored, it returns at once and only
\* the caller's second save runs.
ScanChanged(c) ==
    LET o == op[c]
        t == [p \in Paths |-> IF p \in o.args \cap Readable THEN fs[p]
                           ELSE o.mem.files[p]]
        scanned == [o EXCEPT !.mem.files = t, !.todo = ChangedOrNew(o.mem.files, t),
                             !.gone = Deleted(o.mem.files, t), !.touched = {}]
    IN  /\ o.pc = "scan" /\ FastPath(o)
        /\ \/ Continue(c, [scanned EXCEPT !.pc = "save"])
           \/ /\ t = o.mem.files
              /\ Continue(c, [scanned EXCEPT !.pc = "collect"])
        /\ UNCHANGED <<Outside, Stores, History, Counters>>

\* discoverFolderFiles over an existing index.
ScanIncremental(c) ==
    LET o == op[c]
        old == o.mem.files
    IN  /\ o.pc = "scan" /\ ~FastPath(o) /\ ~Rebuild(o)
        /\ IF PathsIn(Discovered) = {} THEN Return(c, "failure")
           ELSE IF Discovered = old THEN Return(c, "success")
           ELSE Continue(c, [o EXCEPT !.pc = "save", !.mem.files = Discovered,
                                      !.mem.head = o.head, !.touched = {},
                                      !.todo = ChangedOrNew(old, Discovered),
                                      !.gone = Deleted(old, Discovered)])
        /\ UNCHANGED <<Outside, Stores, History, Counters>>

\* discoverFolderFiles, then a RepoIndex built without the old ContextMetadata.
ScanFull(c) ==
    LET o == op[c]
    IN  /\ o.pc = "scan" /\ Rebuild(o)
        /\ IF PathsIn(Discovered) = {} THEN Return(c, "failure")
           ELSE Continue(c, [o EXCEPT !.pc = "save", !.touched = {},
                                      !.mem = [files |-> Discovered, head |-> o.head,
                                               chunks |-> NoChunks],
                                      !.todo = PathsIn(Discovered)])
        /\ UNCHANGED <<Outside, Stores, History, Counters>>

-----------------------------------------------------------------------------
(* index_file                                                              *)

\* ReadFile, store.Load, gitHeadAtPath and the comparison with the stored hash.  An
\* unchanged file is saved again, with the new HEAD, only when its mtime differs.
LoadFile(c) == \E p \in Paths :
    LET o == op[c]
        h == IF head = 0 THEN idx.head ELSE head
        got == [o EXCEPT !.texts = [NoFiles EXCEPT ![p] = fs[p]], !.found = TRUE,
                         !.mem = [idx EXCEPT !.head = h, !.files[p] = fs[p]],
                         !.head = head, !.touched = {}]
    IN  /\ o.pc = "load" /\ o.kind = "file" /\ o.args = {p}
        /\ \/ /\ fs[p] \in {Absent, Unreadable} \/ idx = NoIndex
              /\ Return(c, "failure")
              /\ UNCHANGED idx
           \/ /\ fs[p] \in Contents /\ idx # NoIndex
              /\ IF idx.files[p] = fs[p]
                 THEN /\ Return(c, "success")
                      /\ idx' \in {idx, got.mem}
                 ELSE /\ Continue(c, [got EXCEPT !.pc = "save", !.todo = {p}])
                      /\ UNCHANGED idx
        /\ UNCHANGED <<Outside, vec, History, Counters>>

\* store.Load or the walk of the folder fails, or the context ends while files are read:
\* nothing is written.
LoadFails(c) ==
    /\ op[c].pc \in {"load", "scan"} /\ faults < MaxFaults
    /\ faults' = faults + 1
    /\ Return(c, "failure")
    /\ UNCHANGED <<Outside, Stores, History, edits, calls>>

-----------------------------------------------------------------------------
(* First save, vector synchronisation, second save.                        *)

\* What the first save writes.  The fast path saves the callee's copy.
FirstSave(o) == IF FastPath(o) THEN [o.mem EXCEPT !.head = o.head] ELSE o.mem

\* For the history variable leaked: the chunks this call may have put in the vector
\* store, those the index knows of, and those a save drops from the chunk map.
Uploaded(o) == UNION {IdsOf(p, o.texts[p]) : p \in o.todo}
UploadedBy(cs) == UNION {Uploaded(op[c]) : c \in cs}
Known(i) == IF i = NoIndex THEN {} ELSE AllIds(i.chunks)
Forgotten(i, j) == Known(i) \ Known(j)

SaveIndex(c) ==
    LET o == op[c]
    IN  /\ o.pc = "save"
        /\ Continue(c, [o EXCEPT !.pc = "collect"])
        /\ idx' = FirstSave(o)
        /\ unsynced' = unsynced \cup o.todo
        /\ leaked' = leaked \cup Forgotten(idx, FirstSave(o))
        /\ UNCHANGED <<Outside, vec, Counters>>

\* The save returns an error: the transaction failed, or it committed and writing the
\* JSON sidecar failed.  The handler returns the error.
SaveIndexFails(c) ==
    LET o == op[c]
    IN  /\ o.pc = "save" /\ faults < MaxFaults
        /\ faults' = faults + 1
        /\ Return(c, "failure")
        /\ \/ UNCHANGED <<idx, History>>
           \/ /\ idx' = FirstSave(o)
              /\ unsynced' = unsynced \cup o.todo
              /\ leaked' = leaked \cup Forgotten(idx, FirstSave(o))
        /\ UNCHANGED <<Outside, vec, edits, calls>>

CanCollect(o) == o.kind = "file" \/ o.todo \subseteq Readable

\* collectIndexableLocalFiles reads the changed files a second time; index_file chunks
\* the content it hashed.  Files that vanished meanwhile are skipped.
CollectChunks(c) ==
    LET o == op[c]
        texts == IF o.kind = "file" THEN o.texts
                 ELSE [p \in Paths |-> IF p \in o.todo THEN fs[p] ELSE Absent]
        read == [o EXCEPT !.texts = texts]
    IN  /\ o.pc = "collect" /\ CanCollect(o)
        /\ Continue(c, [read EXCEPT !.pc = "upsert", !.pending = Uploaded(read),
                            !.dirty = @ \cup {p \in o.todo : texts[p] # o.mem.files[p]}])
        /\ UNCHANGED <<Outside, Stores, History, Counters>>

\* A changed file can no longer be read: the call succeeds with "Vector sync skipped".
CollectFails(c) ==
    /\ op[c].pc = "collect" /\ ~CanCollect(op[c])
    /\ Return(c, "success")
    /\ UNCHANGED <<Outside, Stores, History, Counters>>

\* What one request may carry, in full or in part, and the batches a set is sent in.
Portions(s) == {b \in SUBSET s : b # {} /\ Cardinality(b) <= BatchSize}
Batches(s) == {b \in Portions(s) : b = s \/ Cardinality(b) = BatchSize}

UpsertBatch(c) ==
    /\ op[c].pc = "upsert"
    /\ \E b \in Batches(op[c].pending) :
        /\ vec' = vec \cup b
        /\ Continue(c, [op[c] EXCEPT !.pending = @ \ b])
    /\ UNCHANGED <<Outside, idx, History, Counters>>

\* Mutants: chunks shared between two versions are pruned; changed files are not pruned.
PruneAllPrevious(o) == UNION {o.mem.chunks[p] : p \in o.gone \cup o.todo}
PruneDeletedOnly(o) == UNION {o.mem.chunks[p] : p \in o.gone}

\* syncVectorIndexMetadata: IDs of the old chunk map that the new one does not hold.
Stale(o) == (UNION {o.mem.chunks[p] : p \in o.gone})
            \cup (UNION {o.mem.chunks[p] \ IdsOf(p, o.texts[p]) : p \in o.todo})

PlanPrune(c) ==
    /\ op[c].pc = "upsert" /\ op[c].pending = {}
    /\ Continue(c, [op[c] EXCEPT !.pc = "prune", !.pending = Stale(op[c])])
    /\ UNCHANGED <<Outside, Stores, History, Counters>>

PruneBatch(c) ==
    /\ op[c].pc = "prune"
    /\ \E b \in Batches(op[c].pending) :
        /\ vec' = vec \ b
        /\ Continue(c, [op[c] EXCEPT !.pending = @ \ b])
    /\ UNCHANGED <<Outside, idx, History, Counters>>

\* writeVectorChunkIDsByPath
NewChunks(o) == [p \in Paths |-> IF p \in o.todo THEN IdsOf(p, o.texts[p])
                                 ELSE IF p \in o.gone THEN {} ELSE o.mem.chunks[p]]

\* The requests a call may be waiting for, of which a backend may carry out a part, and the
\* vectors once a request is carried out.
Request(insert, ps) == [put |-> insert, ids |-> ps, attempt |-> faults]
InFlight(o) == IF o.pc = "namespace" THEN {Request(FALSE, Ids)}
               ELSE {Request(o.pc = "upsert", b) : b \in Portions(o.pending)}
Done(r) == IF r.put THEN vec \cup r.ids ELSE vec \ r.ids

\* runVectorOperation: an attempt times out and the next one begins, or the process dies
\* next; the request of this one may arrive whenever it likes.
AttemptTimesOut(c) ==
    /\ op[c].pc \in {"upsert", "prune", "namespace"} /\ faults < MaxFaults
    /\ faults' = faults + 1
    /\ \E r \in InFlight(op[c]) : stray' = stray \cup {r}
    /\ UNCHANGED <<fs, head, Stores, mutex, op, History, edits, calls>>

\* An embedding, upsert or delete request fails after its retries.  The last attempt had
\* no effect, was carried out, or is still on its way.  The call succeeds with "Vector
\* sync skipped".
SyncFails(c) ==
    LET o == op[c]
    IN  /\ o.pc \in {"upsert", "prune"} /\ o.pending # {} /\ faults < MaxFaults
        /\ faults' = faults + 1
        /\ Return(c, "success")
        /\ \/ UNCHANGED <<vec, stray>>
           \/ \E r \in InFlight(o) : vec' = Done(r) /\ UNCHANGED stray
           \/ \E r \in InFlight(o) : stray' = stray \cup {r} /\ UNCHANGED vec
        /\ leaked' = leaked \cup (Uploaded(o) \ Known(idx))
        /\ UNCHANGED <<fs, head, idx, unsynced, edits, calls>>

\* The second save, with the chunk map of what was uploaded.
SecondSave(o) == [o.mem EXCEPT !.chunks = NewChunks(o)]

CommitIndex(c) ==
    LET o == op[c]
    IN  /\ o.pc = "prune" /\ o.pending = {}
        /\ Return(c, "success")
        /\ idx' = SecondSave(o)
        /\ unsynced' = unsynced \ (o.todo \ o.dirty)
        /\ UNCHANGED <<Outside, vec, leaked, Counters>>

CommitIndexFails(c) ==
    LET o == op[c]
    IN  /\ o.pc = "prune" /\ o.pending = {} /\ faults < MaxFaults
        /\ faults' = faults + 1
        /\ Return(c, "failure")
        /\ \/ idx' = SecondSave(o) /\ UNCHANGED leaked
           \/ UNCHANGED idx /\ leaked' = leaked \cup (Uploaded(o) \ Known(idx))
        /\ UNCHANGED <<Outside, vec, unsynced, edits, calls>>

-----------------------------------------------------------------------------
(* invalidate_cache: load, drop the namespace, delete the index.           *)

ResolveRepo(c) ==
    /\ op[c].pc = "resolve"
    /\ IF idx = NoIndex THEN Return(c, "failure")
       ELSE Continue(c, [op[c] EXCEPT !.pc = "namespace"])
    /\ UNCHANGED <<Outside, Stores, History, Counters>>

\* A reindex that is under way loses what it has uploaded so far.
Overtaken(c) == [d \in Callers |-> IF d = c THEN [op[d] EXCEPT !.pc = "drop"]
                                   ELSE IF Reindexing(d) THEN [op[d] EXCEPT !.dirty = Paths]
                                   ELSE op[d]]

DropNamespace(c) ==
    /\ op[c].pc = "namespace"
    /\ vec' = {}
    /\ op' = Overtaken(c)
    /\ unsynced' = Paths
    /\ UNCHANGED <<Outside, idx, mutex, leaked, Counters>>

\* The failure is a warning; a request that timed out may have been carried out, or may
\* still arrive.
DropNamespaceFails(c) ==
    /\ op[c].pc = "namespace" /\ faults < MaxFaults
    /\ faults' = faults + 1
    /\ \/ vec' = {} /\ op' = Overtaken(c) /\ unsynced' = Paths /\ UNCHANGED stray
       \/ /\ op' = [op EXCEPT ![c].pc = "drop"]
          /\ stray' \in {stray, stray \cup InFlight(op[c])}
          /\ UNCHANGED <<vec, unsynced>>
    /\ UNCHANGED <<fs, head, idx, mutex, leaked, edits, calls>>

DeleteIndex(c) ==
    /\ op[c].pc = "drop"
    /\ idx' = NoIndex
    /\ leaked' = leaked \cup Known(idx)
    /\ Return(c, "success")
    /\ UNCHANGED <<Outside, vec, unsynced, Counters>>

DeleteIndexFails(c) ==
    /\ op[c].pc = "drop" /\ faults < MaxFaults
    /\ faults' = faults + 1
    /\ Return(c, "failure")
    /\ UNCHANGED <<Outside, Stores, History, edits, calls>>

-----------------------------------------------------------------------------
(* A request that timed out arrives after all; if it never does, it is     *)
(* lost.                                                                   *)

\* For the history variables: the chunks of path p that the index, or a call that goes on,
\* takes for stored, the paths that lose one of them, and the calls that are told.
Trees == {IF idx = NoIndex THEN NoFiles ELSE idx.files}
         \cup {op[c].mem.files : c \in Callers} \cup {op[c].texts : c \in Callers}
Needed(p) == UNION {IdsOf(p, t[p]) : t \in Trees}
Losers(r) == {p \in Paths : Needed(p) \cap (vec \ Done(r)) # {}}
Losing(ps) == [c \in Callers |-> IF Reindexing(c) THEN [op[c] EXCEPT !.dirty = @ \cup ps]
                                  ELSE op[c]]

Arrive(r) ==
    /\ r \in stray
    /\ stray' = stray \ {r}
    /\ vec' = Done(r)
    /\ op' = Losing(Losers(r))
    /\ unsynced' = unsynced \cup Losers(r)
    /\ leaked' = leaked \cup (Done(r) \ vec)
    /\ UNCHANGED <<fs, head, idx, mutex, Counters>>

-----------------------------------------------------------------------------
\* A process dies: its calls and its mutex are gone, both stores stay.
Crash(q) ==
    LET dead == {c \in Callers : ProcessOf[c] = q /\ Running(c)}
    IN  /\ dead # {} /\ faults < MaxFaults
        /\ faults' = faults + 1
        /\ op' = [c \in Callers |-> IF c \in dead THEN Idle ELSE op[c]]
        /\ mutex' = [mutex EXCEPT ![q] = Nobody]
        /\ leaked' = leaked \cup (UploadedBy(dead) \ Known(idx))
        /\ UNCHANGED <<Outside, Stores, unsynced, edits, calls>>

FolderStep(c) == LoadFolder(c) \/ ScanChanged(c) \/ ScanIncremental(c) \/ ScanFull(c)
SyncStep(c) == \/ SaveIndex(c) \/ CollectChunks(c) \/ CollectFails(c) \/ UpsertBatch(c)
               \/ PlanPrune(c) \/ PruneBatch(c) \/ CommitIndex(c)
InvalidateStep(c) == ResolveRepo(c) \/ DropNamespace(c) \/ DeleteIndex(c)
Step(c) == FolderStep(c) \/ LoadFile(c) \/ SyncStep(c) \/ InvalidateStep(c)
Fault(c) == \/ LoadFails(c) \/ SaveIndexFails(c) \/ SyncFails(c) \/ CommitIndexFails(c)
            \/ DropNamespaceFails(c) \/ DeleteIndexFails(c) \/ AttemptTimesOut(c)

Next ==
    \/ \E p \in Paths, x \in Contents \cup {Absent, Unreadable} : EditFile(p, x)
    \/ GitCommit
    \/ \E c \in Callers : \E k \in KindsOf[c], ps \in SUBSET Paths : StartCall(c, k, ps)
    \/ \E c \in Callers : LockRepo(c) \/ Step(c) \/ Fault(c)
    \/ \E q \in Processes : Crash(q)
    \/ \E r \in stray : Arrive(r)

-----------------------------------------------------------------------------
TypeOK ==
    /\ fs \in [Paths -> Contents \cup {Absent, Unreadable}]
    /\ head \in Nat
    /\ stray \subseteq Requests
    /\ idx \in Index \cup {NoIndex}
    /\ vec \subseteq Ids
    /\ mutex \in [Processes -> Callers \cup {Nobody}]
    /\ op \in [Callers -> Op]
    /\ unsynced \subseteq Paths
    /\ leaked \subseteq Ids
    /\ edits \in Nat /\ calls \in Nat /\ faults \in Nat

\* At most one reindexing call per process is past the mutex, and it is the holder:
\* runWithReindexLifecycle serialises the read-modify-write of the index.
Holds(c) == op[c].pc \in Steps \ {"idle", "lock", "resolve", "namespace", "drop"}
OneReindexPerProcess == \A c \in Callers : Holds(c) <=> mutex[ProcessOf[c]] = c

\* Semantic search finds every indexed file, unless the file's last vector sync failed,
\* was cut off, was overtaken by invalidate_cache, or read another content than the one
\* hashed, or unless a delete request that had timed out arrived later and took a chunk of
\* the file with it.  In particular no later sync of another file, and no prune of stale
\* chunks shared between versions, takes a live chunk away.
SearchComplete ==
    idx # NoIndex =>
        \A p \in PathsIn(idx.files) \ unsynced : IdsOf(p, idx.files[p]) \subseteq vec

\* A vector nothing tracks was left by one of the events recorded in `leaked`: a failed
\* or crashed sync, a full reindex over an existing chunk map, an index deleted while its
\* namespace was in use, or an upsert request that had timed out and arrived when nobody
\* awaited it.  Incremental, changed_paths and index_file syncs that complete never lose
\* track of a vector themselves, whatever is edited while they run.
OrphansAccounted ==
    vec \subseteq Known(idx) \cup leaked \cup UploadedBy(Callers)

\* When a reindexing call reports success, what it recorded agrees with the working tree
\* on every path it covers that was not edited since it read it, whatever was edited,
\* invalidated or indexed by others meanwhile.  A file that could not be read is recorded
\* as absent where the folder was walked, and is not covered by changed_paths, where it
\* keeps its entry (NoLostUpdate).
Walks(o) == ~FastPath(o) /\ o.kind # "file"
Covered(o) == IF Walks(o) THEN Paths ELSE o.args \cap Readable
Seen(o, p) == IF Walks(o) /\ (p \in Ignored \/ p \notin Readable) THEN Absent ELSE fs[p]
Succeeds(c) == Reindexing(c) /\ op'[c].pc = "idle" /\ op'[c].result = "success"
SuccessIsCurrent ==
    [][\A c \in Callers : Succeeds(c) /\ idx' # NoIndex =>
          \A p \in Covered(op[c]) \ op[c].touched : idx'.files[p] = Seen(op[c], p)]_vars

\* A save changes no entry of the index that the call did not find changed: between the
\* load and the last save of a call, no other call's entry or chunk list is overwritten
\* by an older one.
Updated(o) == IF Rebuild(o) THEN Paths ELSE o.todo \cup o.gone
KeepsEntries(i, j, ps) == \A p \in ps : i.files[p] = j.files[p] /\ i.chunks[p] = j.chunks[p]
NoLostUpdate ==
    [][\A c \in Callers :
          Reindexing(c) /\ op'[c] # op[c] /\ idx # NoIndex /\ idx' # NoIndex =>
              KeepsEntries(idx', idx, Paths \ Updated(op[c]))]_vars

\* Every call returns: no early return leaves the repository mutex locked.
CallsReturn == \A c \in Callers : Running(c) ~> ~Running(c)

Spec == Init /\ [][Next]_vars

\* A running call makes progress, and sync.Mutex does not starve a waiter.
FairSpec == Spec /\ \A c \in Callers : WF_vars(Step(c)) /\ SF_vars(LockRepo(c))
=============================================================================
