--------------------------- MODULE EmbeddedWorker ---------------------------
(***************************************************************************)
(* The embedded watcher of one folder: the polling source that diffs       *)
(* snapshots of the folder into a bounded channel, the folder loop that    *)
(* collapses and debounces the changes and runs one batch at a time        *)
(* through index_folder, and Start and Stop of the worker around them.     *)
(* The watch lock that Start takes and Stop releases is FolderLock's.      *)
(*                                                                         *)
(* A file's state is the stamp of its last write (the source compares size *)
(* and mtime), 0 when it does not exist.  `index` holds the stamp that     *)
(* index_folder read last.  Hidden files are left out of Paths: neither    *)
(* the source nor the loop lets them through.                              *)
(***************************************************************************)
EXTENDS Naturals, Sequences, FiniteSets

CONSTANTS
    Paths,          \* regular files of the folder
    BufferSize,     \* defaultEventBufferSize
    None,           \* nothing pending, nothing published
    MaxEdits, MaxFaults   \* bounds of a run

ASSUME EmbeddedWorkerAssumption ==
    /\ IsFiniteSet(Paths)
    /\ BufferSize \in Nat \ {0}
    /\ None \notin {"added", "modified", "deleted"}
    /\ {MaxEdits, MaxFaults} \subseteq Nat

VARIABLES
    fs,         \* the folder
    index,      \* the folder as index_folder last read it
    snap,       \* the source's last snapshot
    unsent,     \* changes of the last diff the source has not sent yet
    events,     \* the events channel
    source,     \* the source goroutine; "failed" is an unread error on errs
    pending,    \* the loop's pending changes
    timer,      \* the debounce timer is armed
    loop,       \* the folder loop
    batch,      \* paths of the batch in flight index_folder has not read yet
    read,       \* what it read of the others
    worker,     \* the EmbeddedWorker
    runtime,    \* the RuntimeBackpressure published for the folder
    untold,     \* history: paths whose change no batch will bring to the index
    skipped,    \* history: paths the last batch that looked at them could not read
    edits, faults   \* counters for the bounds

disk == <<fs, index>>
src == <<snap, unsent, source>>
flight == <<batch, read>>
lost == <<untold, skipped>>
counters == <<edits, faults>>
vars == <<disk, src, events, pending, timer, loop, flight, worker, runtime, lost,
          counters>>

-----------------------------------------------------------------------------
NothingPending == [p \in Paths |-> None]
PendingPaths(t) == {p \in Paths : t[p] # None}
Runtime == [events : Nat, inFlight : BOOLEAN, error : BOOLEAN]
ASSUME RuntimeAssumption == None \notin Runtime
Cancelled == worker \in {"stopping", "stopped"}

Init ==
    /\ fs \in [Paths -> {0, 1}] /\ index = fs
    /\ snap = fs /\ unsent = {} /\ events = <<>> /\ source = "off"
    /\ pending = NothingPending /\ timer = FALSE
    /\ loop = "off" /\ batch = {} /\ read = fs
    /\ worker = "new" /\ runtime = None
    /\ untold = {} /\ skipped = {}
    /\ edits = 1 /\ faults = 0

-----------------------------------------------------------------------------
(* The environment: the user's edits.                                       *)

Write(p) ==
    /\ edits < MaxEdits
    /\ edits' = edits + 1
    /\ fs' = [fs EXCEPT ![p] = edits + 1]
    /\ UNCHANGED <<index, src, events, pending, timer, loop, flight, worker, runtime,
                   lost, faults>>

Remove(p) ==
    /\ edits < MaxEdits /\ fs[p] # 0
    /\ edits' = edits + 1
    /\ fs' = [fs EXCEPT ![p] = 0]
    /\ UNCHANGED <<index, src, events, pending, timer, loop, flight, worker, runtime,
                   lost, faults>>

-----------------------------------------------------------------------------
(* EmbeddedWorker.Start and Stop                                            *)

Publish(n, flying, err) == runtime' = [events |-> n, inFlight |-> flying, error |-> err]

\* The loop runs whether or not the watch was granted: a refusal is not an error.
StartWorker ==
    /\ worker = "new"
    /\ worker' = "running" /\ loop' = "opening"
    /\ Publish(0, FALSE, FALSE)
    /\ UNCHANGED <<disk, src, events, pending, timer, flight, lost, counters>>

\* cancel(), while Serve has returned.
StopWorker ==
    /\ worker = "running"
    /\ worker' = "stopping"
    /\ UNCHANGED <<disk, src, events, pending, timer, loop, flight, runtime, lost,
                   counters>>

\* Mutant: Stop does not wait for the loops.
ClearNoWait ==
    /\ worker = "stopping"
    /\ worker' = "stopped" /\ runtime' = None
    /\ UNCHANGED <<disk, src, events, pending, timer, loop, flight, lost, counters>>

\* After wg.Wait(): clear the runtime state and release the watch.
FinishStop ==
    /\ worker = "stopping" /\ loop = "done"
    /\ worker' = "stopped" /\ runtime' = None
    /\ UNCHANGED <<disk, src, events, pending, timer, loop, flight, lost, counters>>

-----------------------------------------------------------------------------
(* pollingEventSource                                                       *)

\* Mutant: the loop's early return skips wg.Done().
OpenLeaks ==
    /\ loop = "opening" /\ source = "off"
    /\ \/ /\ loop' = "select" /\ source' = "polling" /\ snap' = fs
          /\ untold' = untold \cup {p \in Paths : index[p] # fs[p]}
          /\ UNCHANGED <<runtime, faults>>
       \/ /\ faults < MaxFaults
          /\ faults' = faults + 1
          /\ loop' = "off"
          /\ Publish(0, FALSE, TRUE)
          /\ UNCHANGED <<source, snap, untold>>
    /\ UNCHANGED <<disk, unsent, events, pending, timer, flight, worker, skipped, edits>>

\* Open scans the folder once; what changed since it was indexed is not reported.
Open ==
    /\ loop = "opening" /\ source = "off"
    /\ \/ /\ loop' = "select" /\ source' = "polling" /\ snap' = fs
          /\ untold' = untold \cup {p \in Paths : index[p] # fs[p]}
          /\ UNCHANGED <<runtime, faults>>
       \/ /\ faults < MaxFaults
          /\ faults' = faults + 1
          /\ loop' = "done"
          /\ Publish(0, FALSE, TRUE)
          /\ UNCHANGED <<source, snap, untold>>
    /\ UNCHANGED <<disk, unsent, events, pending, timer, flight, worker, skipped, edits>>

\* diffFolderSnapshots
Diff(s, t) == {[path |-> p, type |-> IF s[p] = 0 THEN "added"
                                     ELSE IF t[p] = 0 THEN "deleted" ELSE "modified"] :
                  p \in {q \in Paths : s[q] # t[q]}}

\* A tick: scan, diff, and remember the scan.
Poll ==
    /\ source = "polling" /\ unsent = {} /\ snap # fs
    /\ snap' = fs /\ unsent' = Diff(snap, fs)
    /\ UNCHANGED <<disk, source, events, pending, timer, loop, flight, worker, runtime,
                   lost, counters>>

\* Mutant: a full channel drops the change.
SendDropping ==
    /\ source = "polling"
    /\ \E c \in unsent :
        /\ events' = IF Len(events) < BufferSize THEN Append(events, c) ELSE events
        /\ unsent' = unsent \ {c}
    /\ UNCHANGED <<disk, snap, source, pending, timer, loop, flight, worker, runtime,
                   lost, counters>>

\* When the channel is full the send waits for the loop.  (In path order; here in any.)
Send ==
    /\ source = "polling" /\ Len(events) < BufferSize
    /\ \E c \in unsent :
        /\ events' = Append(events, c)
        /\ unsent' = unsent \ {c}
    /\ UNCHANGED <<disk, snap, source, pending, timer, loop, flight, worker, runtime,
                   lost, counters>>

\* A scan fails for good: the error is the source's last word.
ScanFails ==
    /\ source = "polling" /\ unsent = {} /\ faults < MaxFaults
    /\ faults' = faults + 1
    /\ source' = "failed"
    /\ UNCHANGED <<disk, snap, unsent, events, pending, timer, loop, flight, worker,
                   runtime, lost, edits>>

SourceStops ==
    /\ source = "polling" /\ Cancelled
    /\ source' = "closed"
    /\ UNCHANGED <<disk, snap, unsent, events, pending, timer, loop, flight, worker,
                   runtime, lost, counters>>

-----------------------------------------------------------------------------
(* runFolderLoop.  Its select takes any branch that is ready.               *)

\* collapseChangeTypes
Collapse(cur, next) ==
    CASE cur = None -> next
      [] cur = "added" -> IF next = "deleted" THEN None ELSE "added"
      [] cur = "modified" -> IF next = "deleted" THEN "deleted" ELSE "modified"
      [] cur = "deleted" -> IF next = "added" THEN "modified" ELSE "deleted"

LastError == runtime # None /\ runtime.error

\* Mutant: a change that collapses away stops the timer of the others.
ReceiveChangeDisarms ==
    /\ loop = "select" /\ events # <<>>
    /\ LET c == Head(events)
       IN  /\ pending' = [pending EXCEPT ![c.path] = Collapse(@, c.type)]
           /\ timer' = (pending'[c.path] # None)
    /\ events' = Tail(events)
    /\ Publish(Cardinality(PendingPaths(pending')), FALSE, LastError)
    /\ UNCHANGED <<disk, src, loop, flight, worker, lost, counters>>

ReceiveChange ==
    /\ loop = "select" /\ events # <<>>
    /\ LET c == Head(events)
       IN  pending' = [pending EXCEPT ![c.path] = Collapse(@, c.type)]
    /\ events' = Tail(events)
    /\ timer' = (PendingPaths(pending') # {})
    /\ Publish(Cardinality(PendingPaths(pending')), FALSE, LastError)
    /\ UNCHANGED <<disk, src, loop, flight, worker, lost, counters>>

\* The error ends the loop, what is pending is given up.
ReceiveError ==
    /\ loop = "select" /\ source = "failed"
    /\ loop' = "done" /\ timer' = FALSE
    /\ Publish(Cardinality(PendingPaths(pending)), FALSE, TRUE)
    /\ UNCHANGED <<disk, src, events, pending, flight, worker, lost, counters>>

\* ctx.Done(), or both channels closed and drained.
LoopEnds ==
    /\ loop = "select" /\ Cancelled
    /\ loop' = "done" /\ timer' = FALSE
    /\ UNCHANGED <<disk, src, events, pending, flight, worker, runtime, lost,
                   counters>>

\* The timer fires: the pending changes become the batch in flight.
StartBatch ==
    /\ loop = "select" /\ timer
    /\ loop' = "processing" /\ timer' = FALSE
    /\ batch' = PendingPaths(pending) /\ read' = index
    /\ pending' = NothingPending
    /\ Publish(0, TRUE, LastError)
    /\ UNCHANGED <<disk, src, events, worker, lost, counters>>

\* index_folder looks at the files of changed_paths, whatever their change type.
ReadFile(p) ==
    /\ loop = "processing" /\ p \in batch
    /\ read' = [read EXCEPT ![p] = fs[p]]
    /\ batch' = batch \ {p} /\ skipped' = skipped \ {p}
    /\ UNCHANGED <<disk, src, events, pending, timer, loop, worker, runtime, untold,
                   counters>>

\* The stat or the hash of a file fails: it keeps its entry, with a warning, and the batch
\* goes on.
SkipFile(p) ==
    /\ loop = "processing" /\ p \in batch /\ faults < MaxFaults
    /\ faults' = faults + 1
    /\ batch' = batch \ {p} /\ skipped' = skipped \cup {p}
    /\ UNCHANGED <<disk, src, events, pending, timer, loop, read, worker, runtime, untold,
                   edits>>

BatchEnds(err) == loop' = "select" /\ batch' = {} /\ Publish(0, FALSE, err)

CommitBatch ==
    /\ loop = "processing" /\ batch = {}
    /\ BatchEnds(FALSE)
    /\ index' = read
    /\ untold' = untold \ {p \in Paths : read[p] # index[p]}
    /\ UNCHANGED <<fs, src, events, pending, timer, read, worker, skipped, counters>>

\* Mutant: a failed batch is taken for a batch that found nothing to do.
BatchUnreported ==
    /\ loop = "processing" /\ (faults < MaxFaults \/ Cancelled)
    /\ faults' = IF Cancelled THEN faults ELSE faults + 1
    /\ BatchEnds(FALSE)
    /\ untold' = untold \cup batch \cup {p \in Paths : read[p] # index[p]}
    /\ UNCHANGED <<disk, src, events, pending, timer, read, worker, skipped, edits>>

\* ProcessBatch returns an error, or the context was cancelled.  The batch is not retried.
BatchFails ==
    /\ loop = "processing" /\ (faults < MaxFaults \/ Cancelled)
    /\ faults' = IF Cancelled THEN faults ELSE faults + 1
    /\ BatchEnds(~Cancelled)
    /\ untold' = untold \cup batch \cup {p \in Paths : read[p] # index[p]}
    /\ UNCHANGED <<disk, src, events, pending, timer, read, worker, skipped, edits>>

Source == Poll \/ Send \/ SourceStops
Loop == \/ Open \/ ReceiveChange \/ ReceiveError \/ LoopEnds \/ StartBatch
        \/ (\E p \in Paths : ReadFile(p)) \/ CommitBatch
Next ==
    \/ \E p \in Paths : Write(p) \/ Remove(p)
    \/ StartWorker \/ StopWorker \/ FinishStop
    \/ Source \/ ScanFails
    \/ Loop \/ BatchFails \/ (\E p \in Paths : SkipFile(p))

-----------------------------------------------------------------------------

Watching == loop \in {"select", "processing"} /\ source = "polling"
OnTheWay == {c.path : c \in unsent} \cup {events[i].path : i \in 1 .. Len(events)}
            \cup PendingPaths(pending) \cup batch

\* While the folder is watched, a file the index does not hold as it is on disk will still
\* be looked at: the next scan sees it, or it is on its way, or it was read by the batch in
\* flight.  No interleaving of scans, sends, collapsed changes and batches loses an edit of
\* a file that exists, except those of failed batches, those made before Open, and those of
\* a file that the last batch to look at it could not read.
NoEditLost ==
    Watching =>
        \A p \in Paths : fs[p] # 0 /\ index[p] # fs[p] =>
            \/ snap[p] # fs[p]
            \/ p \in OnTheWay \cup untold \cup skipped
            \/ loop = "processing" /\ read[p] = fs[p]

\* The published runtime state is the loop's: it says in flight exactly while a batch runs,
\* counts the pending paths while the loop waits, and is gone once the worker stopped.
RuntimeAgrees ==
    /\ worker \in {"new", "stopped"} <=> runtime = None
    /\ loop \in {"select", "processing"} =>
          /\ runtime \in Runtime
          /\ runtime.inFlight <=> loop = "processing"
          /\ runtime.events = Cardinality(PendingPaths(pending))

\* Changes that a failed batch gives up show as an error of the folder while the server
\* runs, and the error stays until the next batch ends or the worker stops.
FailureShows ==
    [][/\ loop = "processing" /\ untold' \ untold # {} /\ ~Cancelled => LastError'
       /\ LastError /\ ~LastError' =>
             \/ loop = "processing" /\ loop' = "select"
             \/ worker' = "stopped"]_vars

\* Stop returns, whatever the source and the loop are doing: no send, batch or scan keeps
\* the goroutines from seeing the cancellation.
StopReturns == worker = "stopping" ~> worker = "stopped"

\* When edits cease and nothing fails, the index catches up with every file that exists and
\* could be read.
CatchesUp ==
    []<>(\/ ~Watching
         \/ \A p \in Paths \ (untold \cup skipped) : fs[p] # 0 => index[p] = fs[p])

Spec == Init /\ [][Next]_vars

\* The goroutines run; Go's select is fair to a branch that stays ready.
FairSpec ==
    /\ Spec
    /\ WF_vars(Source) /\ WF_vars(FinishStop)
    /\ WF_vars(Loop \/ (Cancelled /\ BatchFails))
    /\ SF_vars(LoopEnds)
=============================================================================
