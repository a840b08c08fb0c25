# Verification of gocodemunch-mcp

TLA+ models of the MCP server in `src/src`, TLC instances that check them, and
proofs that TLAPS checks. Paths below are relative to `src/src/internal` unless
they say otherwise.

## 1. The system

One server process (`cmd/gocodemunch-mcp/main.go`) runs an MCP loop over stdin
and, with `--watch`, an embedded watcher, both over one `orchestration.Service`.
Several server processes may share the storage directory.

| Component | State | Operations | Where |
|---|---|---|---|
| Local indexing and vector synchronisation | the persisted index (file hashes, git HEAD, chunk map), the vector store's namespace, one mutex per repository | `index_folder` (full, incremental, `changed_paths`), `index_file` | `orchestration/handlers_indexing.go`, `chunking.go` |
| Cache invalidation | the same two stores | `invalidate_cache` | `orchestration/handlers_retrieval.go` |
| Reindex lifecycle and freshness | per repository: active runs, flags, failures, wait channel | `runWithReindexLifecycle`, `MarkReindexStart/Done/Failed`, `Query`, `WaitForFresh` | `orchestration/watcher_lifecycle.go`, `watcher/state_controller.go` |
| Folder watch ownership | lock file, `watched` set, lock manager's map | `StateController.Start/Stop`, `folderLockManager` | `watcher/state_controller.go`, `folder_lock.go` |
| Embedded watcher | snapshot, events channel, pending changes, debounce timer, published runtime state | polling source, folder loop, `Start`, `Stop` | `watcher/embedded_worker.go`, `polling_source.go`, `orchestration/watcher_batch_processor.go` |
| Index store | SQLite tables and JSON sidecars | `Save`, `IncrementalSave`, `Load`, `Delete` | `storage/` |
| Vector adapters | collections in SQLite or Qdrant, the dimension each process has cached | ensure, upsert, query, delete, drop, health | `storage/vector/` |
| Retries and embeddings | one call | `runVectorCallWithRetry`, the Ollama and vLLM clients | `orchestration/vector_resilience.go`, `orchestration/embeddings` |
| Remote acquisition | one run of `index_repo` | `.gitignore`, tree and content requests, the incremental merge | `domain/indexing/github_acquirer.go`, `orchestration/handlers_indexing.go` |
| Batch fan-out | workers and results of one call | `runBatchFanout` | `orchestration/batch_fanout.go` |
| Retrieval | the index, the source files and two caches of one call | searches, import graph, references, hierarchy, diff, bundles | `orchestration/handlers_retrieval.go` |
| Telemetry | totals, event queue, snapshots, events, schema version | record, flush, close, migrate, trends | `telemetry/`, `storage/sqlite_telemetry_store.go` |
| Tool dispatch, transport | the message, the call and the shutdown in progress | serve loop, coercion, validation, panic recovery, `_meta` policy | `orchestration/service.go`, `validation.go`, `service_telemetry.go`, `service_project_config.go`, `transport/mcp`, `../server` |
| Savings benchmark store | SQL rows | append, list | `storage/sqlite_savings_benchmark_store.go` |
| Configuration | none after the start | reading and merging of settings | `config/` |
| Evaluation commands | none kept | sequential reports | `cmd/gocodemunch-eval`, `-slo-bench`, `-parity`, `vector-smoke`, `orchestration/fanout_benchmark.go` |

How they interact:

* The MCP loop and every folder loop of the watcher call `Service.CallTool` from
  goroutines of their own. Reindexing calls of one repository go through the
  repository mutex of `runWithReindexLifecycle`; `invalidate_cache` does not.
* A reindexing call reports its start and its end to the `StateController`.
  `wait_for_fresh` sleeps on the controller's wait channel.
* A reindexing call writes two stores that share no transaction: the index, then
  the vectors batch by batch, then the index again with the new chunk map.
* The watcher owns a folder through a lock file that all processes see.
* The polling source hands changes to the folder loop over a channel of bounded
  capacity. The loop hands batches to `index_folder` with `changed_paths`.
* Every request to the vector backend and to an embedding server runs in the retry
  loop. An attempt that timed out may still arrive.
* The read tools load the index once and then read the source files one after the
  other, some of them on several workers, while the files may be edited.
* Every call of a tool is recorded in the telemetry when it has been answered. A
  ticker flushes totals and events, and Close flushes once more.

What is hard: the two-store protocol under failures and crashes, calls that do not
take the mutex, runs that overlap in the controller, a lock file that is created
and written in two steps, changes that are collapsed while files go on changing, the
shutdown of goroutines that may each be blocked, requests that are retried although
an earlier attempt may still take effect, read tools and remote runs that see several
versions of the tree, and totals that are copied while calls go on adding to them.
`PROJECT.json` lists these hazards at the lines where they bite.

## 2. The modules

| Module | Models | Checked by | Proved in |
|---|---|---|---|
| `IndexSync` | local indexing, vector synchronisation, cache invalidation | `MCIndexSync` | `IndexSyncProofs` |
| `RemoteSync` | `index_repo` and the GitHub acquirer | `MCReindex` | `ReindexProofs` |
| `ReindexState` | lifecycle and freshness | `MCReindex`, `MCReindexState` | `ReindexProofs` |
| `FolderLock` | watch ownership | `MCFolderLock` | `FolderLockProofs` |
| `EmbeddedWorker` | the watcher of one folder | `MCEmbeddedWorker` | `EmbeddedWorkerProofs` |
| `IndexStore` | the SQLite index store with its JSON sidecar | `MCIndexStore` | `IndexStoreProofs` |
| `VectorContract` | what a vector backend promises | through `VectorBackend` | `VectorBackendProofs` |
| `VectorBackend` | retry loop, SQLite and Qdrant adapters, embedding clients | `MCVectorBackend` | `VectorBackendProofs` |
| `CodeBase` | source files, imports and lines as the read tools see them | `MCRetrieval` | `RetrievalProofs` |
| `ImportGraph` | importers, references, dependency graph, blast radius | `MCRetrieval` | `RetrievalProofs` |
| `SymbolTools` | ranking, packing, diff, class hierarchy, context bundles | `MCRetrieval` | `RetrievalProofs` |
| `TextSearch` | `search_text`: lexical, semantic, hybrid | `MCRetrieval` | `RetrievalProofs` |
| `Retrieval` | the read tools of one service | `MCRetrieval` | `RetrievalProofs` |
| `BatchFanout` | the worker pool of a batch call | `MCService` | `ServiceProofs` |
| `ToolServer` | a server process from start to exit | `MCService`, `MCToolServer` | `ServiceProofs` |
| `Telemetry` | totals, events, flush and store | `MCService` | `ServiceProofs` |
| `TelemetrySchema` | schema detection and migrations | `MCService` | `ServiceProofs` |
| `TelemetryTrends` | windows and buckets | `MCService` | `ServiceProofs` |

What a module takes from another it takes as a rule stated in its header:
`ReindexState` has the mutex that `IndexSync` also has, `EmbeddedWorker` reduces
`index_folder` to "read the files of the batch one by one, then commit or fail", and
`IndexSync` takes the index store as a register whose writes may fail before or after
they take effect, where `IndexStore` has the steps, and the vector store as requests
that may fail after they were applied in full or in part, or arrive after their attempt
timed out, which is what `VectorContract` allows.

`MCReindex`, `MCRetrieval` and `MCService` run several machines, one per behaviour: the
variable `part` says which, and the others stay in one initial state. Their state
spaces add up and share a run.

Definitions with the comment "A mutation" are faulty variants of the definition below
them. No specification uses them; each shows that a property would notice that fault.

### IndexSync

State: `fs` and `head` are the working tree and git HEAD, `stray` the requests to the
vector store that timed out and may still arrive, `idx` and `vec` the two stores, `mutex` the repository mutex of each process, `op` the call each goroutine
is running. `op[c]` holds the local variables of the handler: `mem` is the
`RepoIndex` in memory, `todo` and `gone` the change set, `texts` what was read for
chunking, `pending` what is left of the current sequence of batches.

A call goes through `StartCall`, `LockRepo`, `LoadFolder` or `LoadFile`, one of the
`Scan...` actions, `SaveIndex`, `CollectChunks`, `UpsertBatch`, `PlanPrune`,
`PruneBatch`, `CommitIndex`. `invalidate_cache` is `ResolveRepo`, `DropNamespace`,
`DeleteIndex`. Every step that talks to the file system or to a store has a failing
twin. An attempt of a vector request may time out (`AttemptTimesOut`), and a request that
fails after its retries (`SyncFails`, `DropNamespaceFails`) has had no effect, was applied
in part or in full, or is still on its way; `Arrive` carries such a request out at any
later time, in another call if need be. `Crash` ends a process
anywhere. `EditFile` and `GitCommit` change the tree under a running call.

A file may be `Unreadable`. A walk of the folder leaves it out, a `changed_paths` call
keeps its entry, both with a warning only; if it cannot be read when the chunks are
collected, the vector synchronisation is skipped (`CollectFails`). The call succeeds in
all three cases. `index_file` fails on it.

`unsynced`, `leaked`, `dirty` and `touched` are history variables. The first two
list the files and the vectors that failures, cut-off calls, full reindexes and
invalidations have touched, and those that a late delete took or a late upsert brought
in. `dirty` and `touched` mark the paths that were edited
while a call was running. No guard reads them.

Abstractions: a hash is its content; a chunk ID is a path and a part, where the
code hashes repository, path, line span and text; the embedder and the vector
backend are configured; a save is atomic, and so is the save of an unchanged file
with a new mtime in `index_file`; the embedding requests of a batch fail with it.
Calls that fail validation change no state and are left out.

Properties: `SearchComplete` (no live chunk is lost),
`OrphansAccounted` (no vector is forgotten, except by the events listed),
`SuccessIsCurrent` (what a successful call recorded is what it saw on disk, on the paths
it covers that were not edited since; a file it could not read counts as absent for a
walk, and as not covered by `changed_paths`), `NoLostUpdate` (no save overwrites what another call recorded),
`CallsReturn`. `OneReindexPerProcess`, on which `NoLostUpdate` rests, is proved only.

Three things the model has and no property forbids: an unreadable file that a walk leaves
out is dropped from the index although it exists, a reindex that was under way when
`invalidate_cache` ran writes the deleted index back, and an `index_folder` that finds
no change records no git HEAD.

### ReindexState

State: `st` is the controller's `repoState`; the wait channel is a generation
number and `closed` the generations already closed. `run` is where each run is
between asking for the mutex and releasing it, `wait` what each caller of
`WaitForFresh` keeps. One action per critical section of the controller's mutex.
Workers are folder loops that use the fallback batch processor
(`embedded_worker.go:468`), which reports without the repository mutex: their runs
overlap those of the tool calls. `Panic` is a handler that panics: the deferred
unlock runs, the `Mark...` call does not.

Properties: `NoLostWakeup`, `WokenAfterAwaited`, `RepeatedFailureShows`,
`FreshMeansSettled`, `WokenWhenIdle`. That the counter counts (`ActiveIsCounted`) is
proved only.

### FolderLock

State: `file` is the directory entry of the lock file, named by the goroutine that
created the inode, with the PID written to it or `NoPid`. `held` and `watched` are
the lock manager's and the controller's maps of each live process. Each
system call and each critical section is one action, so a Start takes up to eight
steps. `Crash` clears the maps of a process and leaves the file; so does `UnlinkFails`, a
Release whose unlock, close or remove fails, and the history variable `stuck` has the
processes it happened to. Other failing file operations end the call where it is: a failed
write is `WriteFails`, a failed create or a failed remove of a stale file changes nothing.

`contended` and `raced` are history variables of what a call has met.

Properties: `NoWedge`, `OneOwnerUnlessRaced`, `AloneAcquires`.

### EmbeddedWorker

State: `fs` and `index` hold the stamp of each file on disk and as `index_folder`
last read it. `snap`, `unsent` and `source` are the polling source, `events` the
channel, `pending`, `timer` and `loop` the folder loop, `batch` and `read` the batch
in flight, `runtime` the published `RuntimeBackpressure`. `Poll`, `Send`, `ScanFails`
and `SourceStops` are the source; `ReceiveChange`, `ReceiveError`, `LoopEnds` and
`StartBatch` are the branches of the loop's select; `ReadFile`, `CommitBatch` and
`BatchFails` the batch. `SkipFile` is a file whose stat or hash fails: it keeps its
entry, with a warning in an answer nobody reads, and the batch succeeds.

`untold` and `skipped` are history variables: the paths whose change failed batches gave
up or that changed before `Open`, and those the last batch that looked at them could not
read. No guard reads them.

Properties: `NoEditLost`, `RuntimeAgrees`, `FailureShows`,
`StopReturns`, `CatchesUp`.

### IndexStore

State: `db` is the set of rows of `<slug>.db`, or `NoDb`; `json` and `tmp` are the
sidecar and its temporary file, `Torn` when they are empty or cut off. `op` has the
call of each goroutine: where it is, what it writes, what `List` read from the
database, whether the database it opened is still the file of that name, and under
which name the sidecar file it has open is found now. The RWMutex is not a variable:
`Lock` looks at who is inside. One action per system call or transaction: `StatDb`,
`QueryDb`, `ReadSidecar` read; `OpenDb`, `CommitRow`, `CreateTmp`, `WriteTmp`,
`RenameTmp` are `writePersisted`, which the import of a sidecar runs under the read
lock; `RemoveDb`, `RemoveSidecar` are `Delete`. `StepFails` lets any of them fail,
`Crash` ends a process anywhere.

`ended`, `superseded` and `kept` are history: the saves that are over, those that
ended before an acknowledged save or delete began, and whether an acknowledged save
has to be there. No guard reads them.

Abstractions: a snapshot is its repository and the number of its save; `DetectChanges`
reads as `Load` does; the retries of a busy database are one attempt that works or
fails; a failing write leaves a torn file; -wal and -shm belong to the database; a
crash of a process loses nothing the operating system has taken.

Properties: `AcknowledgedSurvives` (an acknowledged save can be read until a delete
begins), `LoadsAreRecent` (no read returns what an acknowledged save or delete superseded).
`LoadsAreRecent` is claimed for one process: an import in a second process can undo an
acknowledged save. And only for what was acknowledged: after a save that failed at its sidecar, `List` puts the
older sidecar back into the database, a step `IndexSync`, whose failed save stays, does
not have. `WritersAgree`, that calls which write at the same time write the same, is
proved only.

### RemoteSync

State: `remote` is the tree of HEAD and `repoIndex` the persisted index. The others are
the local variables of one run of `handleIndexRepo`: `old` the index it loaded, `asof`
the tree it listed, `plan` and `todo` the paths to fetch, `got` the contents, `mem` the
index it saves. `StartRepo`, `ReadGitignore`, `ListTree`, `FetchFile` (one per path, in
any order), `Discover`, `SaveRepo`, `SyncVectors`, `SaveAgain` are its steps; every
request may fail. `Push` moves HEAD between any two, `EndContext` ends the context,
`Invalidate` deletes the index. The first index may be one of an earlier release,
without blobs or with a hash missing, as the tests start from.

`bad` and an index's `basis` and `suspect` are history: the tree an index was made from
and the paths whose own request failed or came after a push. A failing request drops its
file in silence, so no property can promise more for those; the properties say that the
damage stays there.

Properties: `IndexIsOneTree` (over any number of incremental runs the index is that of
one tree), `NoChangesIsTrue` (each of the three ways to answer "No changes detected" is
right, unless the ignore patterns differ over the same tree), `UpsertsAreFetched` (no
missing content stops the vector synchronisation).

### VectorContract and VectorBackend

`VectorContract` is the abstract specification: a call wants some records to hold a
value, its change takes effect in one or more steps while it runs, success means it has
been carried out in full, and an abandoned request may still arrive. `VectorBackend` has
the retry loop with attempts, timeouts, backoff and cancellation, and under it one
transaction (SQLite), several HTTP requests (Qdrant, with the collection created on first
use and its dimension cached per process) or batches of embedding requests.
`KeepsContract` is the refinement, by `INSTANCE VectorContract WITH` a mapping of the
program counters to what the caller waits for.

Properties: `KeepsContract`, `BootAgrees`, `EmbeddingsInOrder`, `CallEnds`.

### The read tools

`CodeBase` has what they share: a file is a sequence of lines, a line the words it
mentions and what it imports; a specifier has candidate paths. In `ImportGraph` and
`TextSearch` a call reads the files in steps between which `EditSource` and `EditText`
change them, and `had` and `before` remember the versions since it began.
`ReadsBetweenSnapshots` compares the answers with those versions: nothing that held
throughout is missing, nothing is there that never held. Its parts are
`GraphBetweenSnapshots`, `VerdictsWereTrue` and `UnreferencedIsUnused` of `ImportGraph`
(for `check_references` with and without `search_content`),
`TextBetweenSnapshots` of `TextSearch`, and `OneImportListPerFile` for a context bundle,
which workers build that share two caches. In `SymbolTools` a ranking and a diff are one
step each, and packing into a token budget takes one symbol after the other.
`get_related_symbols` has no flag for a list that was cut: a caller knows that nothing was
only when there are fewer symbols than asked for (`LooksComplete`). `NothingLeftOut`
checks them against definitions over sets (`RankingHonest`, `DiffAccountsForAll`), and
with `HybridMonotone` the normalised and weighted sum of two scores, which never puts a
line before one that is at least as good in both. A class hierarchy is walked step by
step: `HierarchyExact` says that the walk ends, on cyclic inheritance too, with exactly
the ancestors and the descendants. `Retrieval` composes the three machines: calls of
different tools share the index and the files, which they only read.

### BatchFanout

`at`, `next`, `item`, `worker`, `pool`, `firstErr` follow `runBatchFanout` and its
goroutines; `policy` is one of the outcomes of the overload policy. `Refuse`, the serial
steps and `Take` to `Report` of each worker, the item's deadline, and the caller's
cancellation. Properties: `NilMeansAll`, `ErrorIsPrimary`, and `BatchReturns` as part of
`EverythingEnds`.

### ToolServer

`loop` is where the process is: reading, in `CallTool` (lookup, strict freshness, gate,
handler, finalize), writing, or in its shutdown. The client's messages, edits of the
project's file, SIGTERM and the end of the input come at any time. Bad frames are what
`readRPCMessage` makes of them: a blank line before any header, and an input that ends in
the headers of a frame or right after them, are the end of the input and no error. A
payload that cannot be encoded, which an infinite weight of a hybrid search makes of its
NaN, is answered by an error of the protocol (`Encodable`, `ProtocolError`). Coercion and
validation are operators on kinds of values. `ServerAccounts` says that what the server
tells is what happened: `OneAnswerEach`, `RecordedOnce`, `MetaAsConfigured`,
`DisabledNeverRuns`, `ExitCodeHonest` (exit code 0 without a signal: the input was over,
every request read was answered, nothing failed). `HangUpEnds` is part of `EverythingEnds`;
`SignalEnds` fails, see section 4.

### Telemetry, TelemetrySchema, TelemetryTrends

In `Telemetry` a call stands for the numbers it adds, so totals are sets of calls and
"short of" is "subset of". `RecordCall` and `EnqueueCallEvent` are the two critical
sections of a call. The serve loop and the watcher's folder loops call tools at the same
time, so up to `MaxCallers` calls are between the two (`callers`), and events may be
enqueued in another order than the calls were recorded; the history variable `order` keeps
it. Close comes when no call is under way: the serve loop has ended by then, and
`EmbeddedWorker.Stop` has waited for the folder loops. `BeginFlush` to `Mark` are the steps
of a flush, with the store's retries; `Crash` and `Start` are a process that dies and one
that restores the last snapshot.
`TelemetrySchema` opens one database from several processes, which detect its version
and migrate it in separate transactions. `TelemetryTrends` has the textual order of
times and the alignment of buckets. Properties: `NothingForgotten`, `OldestRollOff`,
`CloseStoresAll`, `TotalsNeverShrink`, `ReadyMeansCurrent`, `TrendsHonest`, and
`StoreCatchesUp` as part of `EverythingEnds`.

## 3. The runs that pass

| Run | Instance | Why the bounds are enough |
|---|---|---|
| `index_sync` | a watcher loop and a client in one process, a tracked and an ignored path, two contents that share a chunk, 3 calls, 2 edits, 1 fault | Three calls are a full index, a second version of it and one call in parallel. Two edits change a file and change it back or delete it. With batches of two chunks a fault can hit the first or the last batch, as an error or as an attempt that times out and arrives up to two calls later. Any file may become unreadable. |
| `index_returns` | both callers may run any tool, 2 calls, 1 edit, 1 commit, 1 fault | A call waits for at most one other. |
| `reindex` | lifecycle: two tool calls, a worker, two waiters, 4 runs, 1 panic; remote: three paths and a secret, four trees, room for two files, 2 runs, 1 push, 1 error | Three runs overlap and a fourth follows them, so channels are replaced while a waiter holds an older one. An index of an earlier release, a first run over it and a second over that one; the push, the error and the end of the context can fall between any two requests, and the file limit cuts the listing. More runs are covered by the proof. |
| `folder_lock` | three processes, one with two goroutines, 4 starts, 2 stops, 2 faults | An owner, a process that takes over and one that arrives in between; the two faults can be any of a crash, a failing write and a failing Release. |
| `embedded_worker` | two files, a channel of one slot, 3 edits after the folder was created, 1 fault | A file can be added, changed and removed while the other keeps the channel full. The fault is a failing scan or batch or a file that cannot be read, and an edit may follow it. |
| `index_store` | three goroutines of one process, one repository, 2 saves, 5 calls, 2 faults | A save, one that replaces it and three readers or deletes; a failing sidecar and a crash can both hit. The goroutines are interchangeable, which the run uses as symmetry. |
| `vector_backend` | two goroutines of one process and one of another, two records, two dimensions, batches of one, 2 calls, 2 attempts, 1 fault | Two overlapping calls are retried once, each in two requests, and an abandoned request arrives during the other. |
| `retrieval` | three files and a fourth candidate path, two or three versions of each, one edit; all tables over five symbols; two workers on three symbols of one file, 2 edits | Cycles, files that come and go, a candidate that stands for another file, symbols that share name or kind, and an edit between any two reads. |
| `service` | 2 messages of each kind; 3 items on 2 workers; 3 calls of 2 goroutines, a queue of 2, 2 faults, 2 starts; two openers and databases of every release; all sets of events over 12 instants, two windows | A request and what follows it; an error, a cancellation and a late item; two events enqueued in another order than they were recorded, a flush that fails while the queue overflows, a crash, a restart; one migration overtaking another. |

Bounds are the constants `Max...`; each is a guard of the actions it counts. The
systems may stop when their bounds are used up, so deadlock is not checked; the
liveness properties say what must not get stuck.

Fairness:

* `IndexSync`: a running call takes its next step, and `sync.Mutex` lets every
  waiter in. Go's mutex hands over to a waiter after one millisecond, which
  justifies the strong fairness of `LockRepo`.
* `ReindexState`: a run that began ends and unlocks; a goroutine whose channel is
  closed is scheduled. Timers and cancellations get none. `WokenWhenIdle` assumes
  besides that the repository becomes idle again and again, which a panic prevents.
* `EmbeddedWorker`: source and loop run; a cancelled batch ends; and since Go's
  select picks among ready branches at random, the branch of a cancelled context is
  taken at last (`SF_vars(LoopEnds)`).
* `VectorBackend`: a call that has begun goes on: each request is answered, fails or
  times out. The HTTP clients and the attempts have timeouts.
* `SymbolTools`: the walk of a hierarchy, a loop of one goroutine, goes on.
* `BatchFanout`: the caller and each worker are scheduled. Items have no fairness of
  their own: their functions return, which is a step of the worker.
* `Telemetry`: the ticker fires, and a flush goes on. Faults are bounded, so a store that fails for ever is not one of the behaviours.
* `ToolServer`: the process goes on where it can; a read waits for the client.

## 4. The runs that find a violation

| Run | Property | What the code does |
|---|---|---|
| `reindex_panic` | `SleepersHaveARun` | After a panic the repository counts as reindexing for ever. |
| `folder_lock_race` | `OneOwner` | Two overlapping Starts both own the folder. |
| `server_signal` | `SignalEnds` | SIGTERM cancels the context while the server waits for a message, and nothing wakes the read. |

`PROJECT.json` quotes the sentence each of them contradicts.

## 5. Proofs

For every value of the constants allowed by the named assumptions of the modules:

* `IndexSyncProofs`: `TypeCorrect` and `Serialised`. `OneReindexPerProcess` is
  inductive beside `TypeOK`: a call past the mutex is its holder because `LockRepo`
  requires the mutex to be free, every return and every crash frees it, and
  `invalidate_cache` has program points of its own.
  Under one more assumption, `OneProcess` (all callers run in the same server process),
  `UpdatesSurvive`, `SearchStaysComplete`, `NoSilentOrphans` and
  `SuccessRecordsTheTree`. With two processes two calls of one repository are past their
  mutexes at once and none of the four is claimed.
  - `NoLostUpdate` follows from `CopyAgrees`: outside the change set of a call, its
    index in memory is the persisted one. Only the holder of the mutex writes the
    index, and `invalidate_cache` deletes it.
  - `SearchComplete` needs `SearchInv`, one conjunct for the stores and two per call.
    `Sound` says what a call knows by itself: which texts it read, what is left to
    upload, and that the IDs it prunes belong to no file it will record. `Tracks`
    relates a call to the stores: the files that are neither unsynced nor in its
    change set have all their chunks, and so do those of its own files whose upload
    is over and whose content it hashed. A late delete marks the files that lose a chunk
    as unsynced and dirty (`Losers`), which keeps `Tracks` (`ArriveInv`).
  - `OrphansAccounted` needs `OrphanInv`. `Tracked`: every vector is in the chunk map, in
    the record of what failures and late upserts leaked, or among what a running call has uploaded.
    `Carries`: a call works from the chunk map that is persisted, uploads only what it
    will record, and what it has pruned is gone. So each call hands its vectors over to
    the chunk map of its last save (`HandsOn`).
  - `SuccessIsCurrent` is an action property: a call records with its last step what it
    read much earlier. `Recorded` says at each of its points where the content it read
    is kept, in its index in memory or, after the first save, in the persisted one, and
    that it is the working tree's on every path it covers that is not marked as edited since.
* `ReindexProofs`, lifecycle: all safety properties of `ReindexState`. The invariant is
  `TypeOK /\ ActiveIsCounted /\ ChannelInv /\ SleeperInv /\ FailureInv /\ WorkerInv`.
  `ChannelInv` is the missing link between a closed channel and the counter: the
  current channel is open exactly while the counter is positive, and no later
  generation exists. `SleeperInv` keeps the runs a sleeper waits for among those
  that are marked while its channel is open. `FailureInv` bounds the failure count
  below by the streak.
* `FolderLockProofs`: all properties that pass. The invariant is
  `TypeOK /\ AliveInv /\ WedgeInv /\ RaceInv /\ AloneInv`. `WedgeInv` follows a
  file from its creation to its removal, or to the Release that failed to remove it; `RaceInv` says that without overlapping
  Starts the file of a holder is the one it wrote; `AloneInv` says what a Start that
  met nobody knows at each of its points.
* `IndexStoreProofs`: `TypeCorrect`, and under two more assumptions `StoreSound`
  (`AcknowledgedSurvives`, `WritersAgree`) and `LoadsRecent` (`LoadsAreRecent`):
  `OneProcess`, all callers share one mutex, and `OwnSlug`, the repository shares its
  slug with no other. The invariant is `StoreInv`. `LockInv`: a save or a delete is alone
  inside. `FilesInv` says for each point of a call what the files hold, in particular
  that a save past its commit has the only row, that the temporary file it renames is
  the one it wrote, and that whoever imports a sidecar will find there what it writes
  or a torn file, which nobody reads back. `NumbersInv` and `RecentInv` then keep what
  is superseded out of the files and out of every call inside, and `KeptInv` takes the
  promise of `AcknowledgedSurvives` back when a delete begins.

* `ReindexProofs`, remote runs: all three properties of `RemoteSync`. The invariant is `RemoteInv`. `Sound`
  says of an index that its files are those of its basis but for the suspect ones, and
  that its blobs are those of its files; it holds of the persisted index, the loaded one
  and the one to save. `FetchInv` says that what is neither to fetch nor bad has arrived
  as the listing has it. The step that matters is `Discover`: `ListedAgrees` shows that
  fetched and kept files together are the index of the listed tree (a kept file has an
  unchanged blob, so by `Sound` it has its text), `FullAgrees` the same for a full run,
  where the file limit needs `FirstOfFew`, and `ResultFetched` that no kept file counts
  as changed. `SameHead`, `SameBlobs` and `SameResult` are the three comparisons behind
  "No changes detected".
* `RetrievalProofs`: `ReadsAreBetween`, `AnswersAreComplete` and `HierarchyIsExact`, for any
  repository, index, query, list of hits and number of workers. The invariant has one part
  per machine, since a step of one is a stutter of the others.
  - Sequences first: `RankOnto` shows that the ranks of a strict order on a finite set are
    exactly its positions, so `InOrder` lists each element once and in order.
  - `GraphInvariant`. `Collected`: the import records so far are those of some version of
    each file read (`RecordsTrue`), and hold what all its versions have (`RecordsCover`).
    `WalkUnderWay` follows the breadth-first walk: the levels found are distances, the
    queue is in the order of its levels, and what is off the queue has been expanded
    (`Walking`); so a walk that ends has found exactly what is within its depth
    (`WalkEnded`), and distances shrink when edges are added (`ReachMonotone`), which puts
    the answer between `Always` and `Sometime`. `Classified`, `Looked` and `ReferencesMatch`
    have, for each verdict given so far, the version of the file it was read from.
  - `TextInvariant`. `Scanned`: a file that is no longer queued has all its lines in the
    result, or the result is truncated. `WeighedWell`: a merged line has the best scores of
    its chunks, and its weighted sum grows with both (`NormalizedGrows`, `WeighKeeps`), so
    ranking and cutting keep the best lines (`Best`).
  - `SymbolInvariant`. `Packing`: while symbols are packed, the rows are ahead of what is
    queued, and what is neither does not fit, because the room only shrinks. `DiffIs`
    counts: the first symbols by place stand one to one for the names and kinds. `Climbing`
    keeps a hierarchy's walk inside the smallest closed set and everything it left behind
    closed up to its queue; `UnderReverses` turns a path down into a path up. `Shared`: all
    entries of a bundle have the import list that was stored first.
* `EmbeddedWorkerProofs`: `EditsReachIndex`, `RuntimeIsTheLoops` and `FailuresShow`, for
  every finite folder. Stamps are never in the future (`FolderInv`), so a write is always
  a difference. `ChainInv` follows the last change of a path through scan, channel and
  collapse: it says "deleted" only if the last scan did not see the file, which is why
  an "added" that collapses with a "deleted" to nothing loses no edit. `CoveredInv` then
  keeps every file that was scanned as it is on disk in the index, in one of the stages
  on the way there or among those given up or skipped. `RuntimeInv` ties the published state to the loop.
* `VectorBackendProofs`: `BootstrapsAgree`, `InputsKeepTheirOrder` and the refinement
  `BackendKeepsContract`, for any number of callers, processes, records and dimensions.
  The invariant is `CallsInv /\ StoreInv /\ BootInv`: which operations come to which
  point, that what a call has done and has left make up what it was asked, that a
  request for points is sent only to a collection of its dimension and that there are no
  points without a collection. The refinement maps each caller
  by `View`; each action is then one step of the contract for one caller, or a stutter,
  and `Seen` is what the contract sees of all of them.
* `ServiceProofs`, tool server: `ServerTellsTheTruth`. `ServerInv` has `AnswersInv`, that
  the answers are those to the requests read so far, except the one in hand, `MetaInv`,
  that what is about to be written is what the policy leaves, `ToolInv`, that a call past
  the lookup names a registered tool, `ExitInv`, that a process that exits with 0 has
  seen a signal or no error, and `EndInv`, that a loop that ended without an error or a
  signal had read all its input and answered every request, beside `RecordedOnce`, which is inductive with them.
* `ServiceProofs`, fan-out: `FanoutTypeOK`, `NilMeansAll` and `ErrorIsPrimary`, for any number
  of items and workers. The invariant has one conjunct per phase. While the pool runs,
  every item before the head of the channel is done, with exactly one worker, or has left
  an error that its worker is about to report; a worker stops only at the end of the
  channel, after an error or after a cancellation; and the pool is cancelled by a first
  error only after that error was kept.
* `ServiceProofs`, telemetry: `TelemetryTypeOK`, `NothingForgotten`, `CloseStoresAll` and
  `TotalsNeverShrink`. The invariant is `Shapes`, `Bounded`, `RevisionInv`, `GrowthInv`,
  `CloseInv`. `RevisionInv` is the core: the revision noted for a flush was read before
  its totals were copied, so the copy has at least the calls that revision counts, and
  sets of calls that only grow are equal when they are as large. `GrowthInv` keeps the
  stored totals within those of the tracker, from which every snapshot is taken.
  `OldestRollOff` needs `QueueInv`: the queue is the end of what was enqueued (`EndsWith`),
  and so is the batch of a flush with the queue behind it, unless the queue has filled up
  since, in which case nothing of the batch can come back; and of what was enqueued, the
  last `MaxPending` are in the queue, in the batch, stored or too old (`KeptInv`).
* `ServiceProofs`, schema: `ReadyIsCurrent`. Migrations only add tables and columns, and a
  version is written after what it stands for. The version may go back when a process
  applies a migration another one has overtaken; what an opener has detected or made
  (`OpenerInv`) stays.
* `ServiceProofs`, trends: `RecentIsCounted` and `EveryCallHasABucket`, about times as
  text and the alignment of buckets, for every base of the fractions, and
  `TrendsAreHonest`, the property of the run. For the total of a window, `PointsOfWindow`
  maps the counts of its points, one mark for each, one to one onto the calls it counted.

The type invariants (`TypeOK`, `FanoutTypeOK`, `TelemetryTypeOK`) are part of these
inductive invariants. They are proved, and no run spends time on them.

The assumptions are those the code justifies and no more: names stand for different
things, sets that the program holds in memory are finite, and a value that means "none"
is not one of the values (`EmbeddedWorkerAssumption`, `RuntimeAssumption`,
`NoIndexAssumption` and the like). TLC evaluates them on every run.

Only model-checked are the liveness properties (`CallsReturn`, `WokenWhenIdle`,
`StopReturns`, `CatchesUp`, `CallEnds`, `EverythingEnds`, and of `HierarchyExact` that the
walk ends): fairness and ENABLED are beyond the prover.

## 6. Not modelled

`PROJECT.json` has the full list of components with reasons.

* Configuration: its files are read once, merged and validated; what the server does with
  the result is in the modules (project files, which are read at every call, are in
  `ToolServer`).
* The savings benchmark store: rows that are appended by one call and listed by another.
* The evaluation and benchmark commands: sequential reports over fixtures.
* Retrieval: outlines, file trees, file contents and suggestions reshape the loaded index.
* In the modelled parts: `FSIndexStore`, which only tests use, indexing without an
  embedder, symbol extraction, scores and vectors as numbers, weights of a hybrid search
  that are infinite or whose sum is (the scores are then NaN, and the answer the error of
  `ToolServer`, or they are all 0), wire formats, enum
  constraints of arguments, PIDs that are reused, and two processes that reindex one
  repository at the same time, about which the code promises nothing.

Hazards the code has beyond those `PROJECT.json` lists, most of them covered by no property:

* A reindex that loaded the index before `invalidate_cache` deleted it writes it back
  (`handlers_retrieval.go:400`).
* The PID in a lock file may be reused by another program (`folder_lock.go:196`).
* A second server that watches a folder is refused the lock without an error
  (`embedded_worker.go:138`).
* A watched file that cannot be read when its batch comes to it stays as it was in the
  index until it changes again, and nothing tells (`handlers_indexing.go:2141`, `2154`):
  `NoEditLost` lists it among the causes.
* A Release that fails before it removes the lock file keeps the folder locked for as long
  as its process lives (`folder_lock.go:112`): `NoWedge` and `AloneAcquires` except it.
* Two servers on one storage directory write cumulative totals over each other
  (`telemetry/runtime.go:202`), and the slower migration writes its lower version over the
  faster one's (`sqlite_telemetry_store.go:484`).
* A crash between events and snapshot leaves the totals short (`telemetry/runtime.go:193`).
* An item of a pool that panics does so outside `CallTool`'s recover (`batch_fanout.go:92`).
* One message that cannot be decoded ends the server (`transport/mcp/server.go:52`). A
  blank line before a frame ends it too, with exit code 0 and although the client may go on
  (`codec.go:109`), and so does an input cut in the headers of a frame or right after them
  (`codec.go:39`, `78`): `ExitCodeHonest` takes them for the end of the input.
* A call whose event is enqueued late is behind calls that were recorded after it, and may
  outlive them in a full queue (`telemetry/runtime.go:114`): `OldestRollOff` is about the
  order of enqueueing.
* Vectors of files that are no longer indexed show in a semantic search
  (`handlers_retrieval.go:4339`).

## 7. Plan

1. `IndexStore` as an implementation of a register with failing writes, which is what
   `IndexSync` and `RemoteSync` take it for.
2. Two servers over one storage directory: cumulative totals and reindexing without a
   common mutex.

Runs stay few and small enough to finish within minutes: a component that needs larger
instances gets a reduced instance and a proof, and machines that are checked apart share
a run.
