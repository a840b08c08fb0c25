------------------------ MODULE EmbeddedWorkerProofs ------------------------
(***************************************************************************)
(* The embedded watcher, for every finite folder, size of channel, number   *)
(* of edits and number of failures: no interleaving of scans, sends,        *)
(* collapsed changes and batches loses an edit, and the published runtime   *)
(* state says what the folder loop is doing and shows its failures.         *)
(***************************************************************************)
EXTENDS EmbeddedWorker, FiniteSetTheorems, SequenceTheorems, TLAPS

-----------------------------------------------------------------------------
(* The invariant. *)
Types == {"added", "modified", "deleted"}
Change == [path : Paths, type : Types]

\* No file has a stamp that is yet to come, so that a write is always a difference.
FolderInv ==
  /\ edits \in Nat
  /\ fs \in [Paths -> 0 .. edits] /\ snap \in [Paths -> 0 .. edits]
  /\ index \in [Paths -> 0 .. edits] /\ read \in [Paths -> 0 .. edits]

PipeInv ==
  /\ unsent \subseteq Change /\ events \in Seq(Change)
  /\ pending \in [Paths -> Types \cup {None}]
  /\ batch \subseteq Paths /\ untold \subseteq Paths /\ skipped \subseteq Paths

Sent == {events[i].path : i \in 1 .. Len(events)}
Unsent == {c.path : c \in unsent}

\* The last change of a path says deleted only if the last scan did not see the file:
\* what collapses to nothing leaves nothing to do.
ChainInv ==
  /\ \A c \in unsent : c.type = "deleted" => snap[c.path] = 0
  /\ \A i \in 1 .. Len(events) :
       events[i].type = "deleted" =>
         \/ snap[events[i].path] = 0
         \/ \E j \in i + 1 .. Len(events) : events[j].path = events[i].path
         \/ events[i].path \in Unsent

\* What a batch has read is the file of the last scan, or a newer scan's change is coming.
ReadInv ==
  loop = "processing" =>
    \A p \in Paths :
      fs[p] # 0 /\ snap[p] = fs[p] /\ read[p] # index[p] =>
        read[p] = fs[p] \/ p \in Unsent \cup Sent

\* A file that the last scan saw as it is on disk is in the index, or is looked at.
CoveredInv ==
  \A p \in Paths :
    fs[p] # 0 /\ snap[p] = fs[p] =>
      \/ index[p] = fs[p]
      \/ p \in Unsent \cup Sent \cup PendingPaths(pending) \cup untold \cup skipped
      \/ loop = "processing" /\ (p \in batch \/ read[p] = fs[p])

EditInv == FolderInv /\ PipeInv /\ ChainInv /\ ReadInv /\ CoveredInv

\* What is published, at each stage of the worker and its loop.
RuntimeInv ==
  /\ worker \in {"new", "running", "stopping", "stopped"}
  /\ loop \in {"off", "opening", "select", "processing", "done"}
  /\ IF worker \in {"new", "stopped"} THEN runtime = None ELSE runtime \in Runtime
  /\ worker = "new" <=> loop = "off"
  /\ worker = "stopped" => loop = "done"
  /\ loop \in {"off", "opening", "processing"} => pending = NothingPending
  /\ loop = "opening" => runtime.events = 0 /\ ~runtime.inFlight
  /\ loop \in {"select", "processing"} =>
       /\ runtime.inFlight <=> loop = "processing"
       /\ runtime.events = Cardinality(PendingPaths(pending))

\* The source has reported nothing before it is opened.
OpenInv ==
  loop \in {"off", "opening"} => source = "off" /\ unsent = {} /\ events = <<>>

WorkerInv == EditInv /\ OpenInv /\ RuntimeInv
-----------------------------------------------------------------------------
(* The change channel and the pending changes. *)

\* The channel after a send, and after a receive.
LEMMA Sending ==
  ASSUME events \in Seq(Change), NEW c \in Change, events' = Append(events, c)
  PROVE  /\ events' \in Seq(Change) /\ Len(events') = Len(events) + 1
         /\ \A i \in 1 .. Len(events) : events'[i] = events[i]
         /\ events'[Len(events) + 1] = c
         /\ Sent' = Sent \cup {c.path}
<1>1. /\ events' \in Seq(Change) /\ Len(events') = Len(events) + 1 /\ Len(events) \in Nat
      /\ \A i \in 1 .. Len(events) : events'[i] = events[i]
      /\ events'[Len(events) + 1] = c
  OBVIOUS
<1>2. Sent' = Sent \cup {c.path}
  BY <1>1 DEF Sent
<1> QED
  BY <1>1, <1>2

LEMMA Receiving ==
  ASSUME events \in Seq(Change), events # <<>>, events' = Tail(events)
  PROVE  /\ events' \in Seq(Change) /\ Len(events') = Len(events) - 1 /\ Len(events) \in Nat \ {0}
         /\ \A i \in 1 .. Len(events') : events'[i] = events[i + 1]
         /\ Head(events) = events[1] /\ Head(events) \in Change
         /\ Sent = Sent' \cup {Head(events).path}
<1>1. /\ events' \in Seq(Change) /\ Len(events') = Len(events) - 1 /\ Len(events) \in Nat \ {0}
      /\ \A i \in 1 .. Len(events') : events'[i] = events[i + 1]
      /\ Head(events) = events[1] /\ Head(events) \in Change
  OBVIOUS
<1>2. ASSUME NEW i \in 1 .. Len(events) PROVE events[i].path \in Sent' \cup {Head(events).path}
  <2>1. CASE i = 1
    BY <1>1, <2>1
  <2>2. CASE i # 1
    <3>1. i - 1 \in 1 .. Len(events') /\ events'[i - 1] = events[i]
      BY <1>1, <1>2, <2>2
    <3> QED
      BY <3>1 DEF Sent
  <2> QED
    BY <2>1, <2>2
<1>3. ASSUME NEW i \in 1 .. Len(events') PROVE events'[i].path \in Sent
  <2>1. i + 1 \in 1 .. Len(events) /\ events'[i] = events[i + 1]
    BY <1>1, <1>3
  <2> QED
    BY <2>1 DEF Sent
<1>4. Head(events).path \in Sent
  BY <1>1 DEF Sent
<1> QED
  BY <1>1, <1>2, <1>3, <1>4 DEF Sent

\* A change collapses to nothing only where a file came and went.
LEMMA CollapseIs ==
  ASSUME NEW cur \in Types \cup {None}, NEW next \in Types
  PROVE  /\ Collapse(cur, next) \in Types \cup {None}
         /\ Collapse(cur, next) = None => cur = "added" /\ next = "deleted"
BY EmbeddedWorkerAssumption DEF Collapse, Types

\* The changes of a scan name the files that differ; those deleted are gone.
LEMMA DiffIs ==
  ASSUME NEW s, NEW t
  PROVE  /\ Diff(s, t) \subseteq Change
         /\ {c.path : c \in Diff(s, t)} = {p \in Paths : s[p] # t[p]}
         /\ \A c \in Diff(s, t) : c.type = "deleted" => t[c.path] = 0
<1> DEFINE named(p) == [path |-> p, type |-> IF s[p] = 0 THEN "added"
                                             ELSE IF t[p] = 0 THEN "deleted" ELSE "modified"]
<1>1. Diff(s, t) = {named(p) : p \in {q \in Paths : s[q] # t[q]}}
  BY DEF Diff
<1>2. ASSUME NEW p \in Paths
      PROVE  /\ named(p) \in Change /\ named(p).path = p
             /\ named(p).type = "deleted" => t[p] = 0
  BY DEF Change, Types
<1> HIDE DEF named
<1> QED
  BY <1>1, <1>2
-----------------------------------------------------------------------------
(* No step loses an edit. *)
LEMMA EditInitHolds == Init => EditInv
<1> SUFFICES ASSUME Init PROVE EditInv
  OBVIOUS
<1>1. /\ fs \in [Paths -> {0, 1}] /\ index = fs /\ snap = fs /\ read = fs /\ unsent = {}
      /\ events = <<>> /\ pending = NothingPending /\ batch = {} /\ untold = {}
      /\ skipped = {} /\ edits = 1 /\ loop = "off"
  BY DEF Init
<1>2. FolderInv
  BY <1>1 DEF FolderInv
<1>3. PipeInv
  BY <1>1 DEF PipeInv, NothingPending
<1>4. ChainInv /\ ReadInv /\ CoveredInv
  BY <1>1 DEF ChainInv, ReadInv, CoveredInv
<1> QED
  BY <1>2, <1>3, <1>4 DEF EditInv

\* The user changes a file: its stamp is that of no scan.
LEMMA UserKeeps ==
  ASSUME EditInv, NEW p \in Paths, Write(p) \/ Remove(p)
  PROVE  EditInv'
<1>1. /\ edits' = edits + 1 /\ \E v \in {0, edits + 1} : fs' = [fs EXCEPT ![p] = v]
      /\ UNCHANGED <<index, snap, unsent, events, pending, loop, batch, read, untold, skipped>>
  BY DEF Write, Remove, src, flight, lost
<1>2. FolderInv'
  BY <1>1 DEF EditInv, FolderInv
<1>3. PipeInv' /\ ChainInv'
  BY <1>1 DEF EditInv, PipeInv, ChainInv, Unsent
<1>4. \A q \in Paths : fs'[q] # 0 /\ snap'[q] = fs'[q] => fs'[q] = fs[q]
  BY <1>1 DEF EditInv, FolderInv
<1>5. ReadInv'
  BY <1>1, <1>4 DEF EditInv, ReadInv, Unsent, Sent
<1>6. CoveredInv'
  BY <1>1, <1>4 DEF EditInv, CoveredInv, Unsent, Sent, PendingPaths
<1> QED
  BY <1>2, <1>3, <1>5, <1>6 DEF EditInv

\* A scan: what it saw for the first time is to be sent.
LEMMA PollKeeps ==
  ASSUME EditInv, Poll
  PROVE  EditInv'
<1>1. /\ unsent = {} /\ snap' = fs /\ unsent' = Diff(snap, fs)
      /\ UNCHANGED <<fs, index, events, pending, loop, batch, read, untold, skipped, edits>>
  BY DEF Poll, disk, flight, counters, lost
<1>2. /\ unsent' \subseteq Change /\ Unsent = {}
      /\ Unsent' = {p \in Paths : snap[p] # fs[p]}
      /\ \A c \in unsent' : c.type = "deleted" => snap'[c.path] = 0
  BY <1>1, DiffIs DEF Unsent
<1>3. FolderInv'
  BY <1>1 DEF EditInv, FolderInv
<1>4. PipeInv'
  BY <1>1, <1>2 DEF EditInv, PipeInv
<1>5. ChainInv'
  <2>1. ASSUME NEW i \in 1 .. Len(events), events[i].type = "deleted"
        PROVE  \/ snap'[events[i].path] = 0
               \/ \E j \in i + 1 .. Len(events) : events[j].path = events[i].path
               \/ events[i].path \in Unsent'
    <3>1. events[i].path \in Paths
      <4>1. events[i] \in Change
        BY <2>1 DEF EditInv, PipeInv
      <4> QED
        BY <4>1 DEF Change
    <3>2. \/ snap[events[i].path] = 0
          \/ \E j \in i + 1 .. Len(events) : events[j].path = events[i].path
      BY <1>2, <2>1 DEF EditInv, ChainInv
    <3> QED
      BY <1>1, <1>2, <3>1, <3>2
  <2> QED
    BY <1>1, <1>2, <2>1 DEF ChainInv
<1>6. ReadInv'
  BY <1>1, <1>2 DEF EditInv, ReadInv, Sent
<1>7. CoveredInv'
  BY <1>1, <1>2 DEF EditInv, CoveredInv, Sent, PendingPaths
<1> QED
  BY <1>3, <1>4, <1>5, <1>6, <1>7 DEF EditInv

LEMMA SendKeeps ==
  ASSUME EditInv, Send
  PROVE  EditInv'
<1>1. PICK c \in unsent : events' = Append(events, c) /\ unsent' = unsent \ {c}
  BY DEF Send
<1>2. UNCHANGED <<fs, index, snap, pending, loop, batch, read, untold, skipped, edits>>
  BY DEF Send, disk, flight, counters, lost
<1>3. c \in Change /\ events \in Seq(Change)
  BY DEF EditInv, PipeInv
<1>4. /\ events' \in Seq(Change) /\ Len(events') = Len(events) + 1
      /\ \A i \in 1 .. Len(events) : events'[i] = events[i]
      /\ events'[Len(events) + 1] = c
      /\ Sent' = Sent \cup {c.path}
  BY <1>1, <1>3, Sending
<1>5. Unsent \subseteq Unsent' \cup {c.path} /\ Unsent' \subseteq Unsent
  BY <1>1 DEF Unsent
<1>6. FolderInv'
  BY <1>2 DEF EditInv, FolderInv
<1>7. PipeInv'
  BY <1>1, <1>2, <1>4 DEF EditInv, PipeInv
<1>8. ChainInv'
  <2>1. Len(events) \in Nat
    BY <1>3
  <2>2. ASSUME NEW i \in 1 .. Len(events'), events'[i].type = "deleted"
        PROVE  \/ snap'[events'[i].path] = 0
               \/ \E j \in i + 1 .. Len(events') : events'[j].path = events'[i].path
               \/ events'[i].path \in Unsent'
    <3>1. CASE i = Len(events) + 1
      BY <1>2, <1>4, <2>2, <3>1 DEF EditInv, ChainInv
    <3>2. CASE i \in 1 .. Len(events)
      <4>1. events'[i] = events[i]
        BY <1>4, <3>2
      <4>2. \/ snap[events[i].path] = 0
            \/ \E j \in i + 1 .. Len(events) : events[j].path = events[i].path
            \/ events[i].path \in Unsent
        BY <2>2, <3>2, <4>1 DEF EditInv, ChainInv
      <4>3. ASSUME NEW j \in i + 1 .. Len(events), events[j].path = events[i].path
            PROVE  \E k \in i + 1 .. Len(events') : events'[k].path = events'[i].path
        <5>1. j \in i + 1 .. Len(events') /\ events'[j] = events[j]
          BY <1>4, <2>1, <3>2, <4>3
        <5> QED
          BY <4>1, <4>3, <5>1
      <4>4. ASSUME events[i].path = c.path
            PROVE  \E k \in i + 1 .. Len(events') : events'[k].path = events'[i].path
        <5>1. Len(events) + 1 \in i + 1 .. Len(events')
          BY <1>4, <2>1, <3>2
        <5> QED
          BY <1>4, <4>1, <4>4, <5>1
      <4> QED
        BY <1>2, <1>5, <4>1, <4>2, <4>3, <4>4
    <3> QED
      BY <1>4, <2>1, <2>2, <3>1, <3>2
  <2> QED
    BY <1>1, <1>2, <2>2 DEF EditInv, ChainInv
<1>9. ReadInv'
  BY <1>2, <1>4, <1>5 DEF EditInv, ReadInv
<1>10. CoveredInv'
  BY <1>2, <1>4, <1>5 DEF EditInv, CoveredInv, PendingPaths
<1> QED
  BY <1>6, <1>7, <1>8, <1>9, <1>10 DEF EditInv

\* A change that came and went leaves nothing to do, or a later one is coming.
LEMMA ReceiveChangeKeeps ==
  ASSUME EditInv, ReceiveChange
  PROVE  EditInv'
<1> DEFINE c == Head(events)
<1>1. /\ loop = "select" /\ events # <<>> /\ events' = Tail(events)
      /\ pending' = [pending EXCEPT ![c.path] = Collapse(@, c.type)]
      /\ UNCHANGED <<fs, index, snap, unsent, loop, batch, read, untold, skipped, edits>>
  BY DEF ReceiveChange, disk, src, flight, counters, lost
<1>2. /\ events' \in Seq(Change) /\ Len(events') = Len(events) - 1 /\ Len(events) \in Nat \ {0}
      /\ \A i \in 1 .. Len(events') : events'[i] = events[i + 1]
      /\ c = events[1] /\ c \in Change
      /\ Sent = Sent' \cup {c.path}
  BY <1>1, Receiving DEF EditInv, PipeInv
<1> HIDE DEF c
<1>3. c.path \in Paths /\ c.type \in Types
  BY <1>2 DEF Change
<1>4. /\ pending' \in [Paths -> Types \cup {None}]
      /\ \A p \in Paths : p # c.path => pending'[p] = pending[p]
      /\ pending'[c.path] = None => c.type = "deleted"
  <2>1. pending \in [Paths -> Types \cup {None}]
    BY DEF EditInv, PipeInv
  <2>2. /\ Collapse(pending[c.path], c.type) \in Types \cup {None}
        /\ Collapse(pending[c.path], c.type) = None => c.type = "deleted"
    BY <1>3, <2>1, CollapseIs
  <2> QED
    BY <1>1, <1>3, <2>1, <2>2
<1>5. FolderInv'
  BY <1>1 DEF EditInv, FolderInv
<1>6. PipeInv'
  BY <1>1, <1>2, <1>4 DEF EditInv, PipeInv
<1>7. ChainInv'
  <2>1. ASSUME NEW i \in 1 .. Len(events'), events'[i].type = "deleted"
        PROVE  \/ snap'[events'[i].path] = 0
               \/ \E j \in i + 1 .. Len(events') : events'[j].path = events'[i].path
               \/ events'[i].path \in Unsent'
    <3>1. i + 1 \in 1 .. Len(events) /\ events'[i] = events[i + 1]
      BY <1>2
    <3>2. \/ snap[events[i + 1].path] = 0
          \/ \E j \in (i + 1) + 1 .. Len(events) : events[j].path = events[i + 1].path
          \/ events[i + 1].path \in Unsent
      BY <2>1, <3>1 DEF EditInv, ChainInv
    <3>3. ASSUME NEW j \in (i + 1) + 1 .. Len(events), events[j].path = events[i + 1].path
          PROVE  \E k \in i + 1 .. Len(events') : events'[k].path = events'[i].path
      <4>1. j - 1 \in i + 1 .. Len(events') /\ events'[j - 1] = events[j]
        BY <1>2, <3>3
      <4> QED
        BY <3>1, <3>3, <4>1
    <3> QED
      BY <1>1, <3>1, <3>2, <3>3 DEF Unsent
  <2> QED
    BY <1>1, <2>1 DEF EditInv, ChainInv, Unsent
<1>8. ReadInv'
  BY <1>1 DEF ReadInv
<1>9. pending'[c.path] = None => snap[c.path] = 0 \/ c.path \in Sent' \cup Unsent
  <2> SUFFICES ASSUME pending'[c.path] = None PROVE snap[c.path] = 0 \/ c.path \in Sent' \cup Unsent
    OBVIOUS
  <2>1. \/ snap[c.path] = 0
        \/ \E j \in 1 + 1 .. Len(events) : events[j].path = c.path
        \/ c.path \in Unsent
    <3>1. 1 \in 1 .. Len(events) /\ events[1].type = "deleted" /\ events[1] = c
      BY <1>2, <1>4
    <3> QED
      BY <3>1 DEF EditInv, ChainInv
  <2>2. ASSUME NEW j \in 1 + 1 .. Len(events), events[j].path = c.path PROVE c.path \in Sent'
    <3>1. j - 1 \in 1 .. Len(events') /\ events'[j - 1] = events[j]
      BY <1>2, <2>2
    <3> QED
      BY <2>2, <3>1 DEF Sent
  <2> QED
    BY <2>1, <2>2
<1>10. CoveredInv'
  <2>1. ASSUME NEW p \in Paths, fs[p] # 0, snap[p] = fs[p]
        PROVE  \/ index[p] = fs[p]
               \/ p \in Unsent \cup Sent' \cup PendingPaths(pending') \cup untold \cup skipped
    <3>1. \/ index[p] = fs[p]
          \/ p \in Unsent \cup Sent \cup PendingPaths(pending) \cup untold \cup skipped
      BY <1>1, <2>1 DEF EditInv, CoveredInv
    <3>2. CASE p = c.path
      <4>1. CASE pending'[p] = None
        BY <1>9, <2>1, <3>2, <4>1
      <4>2. CASE pending'[p] # None
        BY <2>1, <4>2 DEF PendingPaths
      <4> QED
        BY <4>1, <4>2
    <3>3. CASE p # c.path
      BY <1>2, <1>4, <3>1, <3>3 DEF PendingPaths
    <3> QED
      BY <3>2, <3>3
  <2> QED
    BY <1>1, <2>1 DEF CoveredInv, Unsent
<1> QED
  BY <1>5, <1>6, <1>7, <1>8, <1>10 DEF EditInv

\* The timer fires: what was pending is the batch.
LEMMA StartBatchKeeps ==
  ASSUME EditInv, StartBatch
  PROVE  EditInv'
<1>1. /\ batch' = PendingPaths(pending) /\ read' = index /\ pending' = NothingPending
      /\ loop = "select" /\ loop' = "processing"
      /\ UNCHANGED <<fs, index, snap, unsent, events, untold, skipped, edits>>
  BY DEF StartBatch, disk, src, counters, lost
<1>2. FolderInv'
  BY <1>1 DEF EditInv, FolderInv
<1>3. PipeInv'
  BY <1>1 DEF EditInv, PipeInv, NothingPending, PendingPaths
<1>4. ChainInv' /\ ReadInv'
  BY <1>1 DEF EditInv, ChainInv, ReadInv, Unsent
<1>5. CoveredInv'
  <2>1. ASSUME NEW p \in Paths, fs[p] # 0, snap[p] = fs[p]
        PROVE  index[p] = fs[p] \/ p \in Unsent \cup Sent \cup batch' \cup untold \cup skipped
    BY <1>1, <2>1 DEF EditInv, CoveredInv
  <2> QED
    BY <1>1, <2>1 DEF CoveredInv, Unsent, Sent
<1> QED
  BY <1>2, <1>3, <1>4, <1>5 DEF EditInv

LEMMA ReadFileKeeps ==
  ASSUME EditInv, NEW p \in Paths, ReadFile(p)
  PROVE  EditInv'
<1>1. /\ loop = "processing" /\ batch' = batch \ {p} /\ read' = [read EXCEPT ![p] = fs[p]]
      /\ skipped' = skipped \ {p}
      /\ UNCHANGED <<fs, index, snap, unsent, events, pending, loop, untold, edits>>
  BY DEF ReadFile, disk, src, counters
<1>2. read' \in [Paths -> 0 .. edits] /\ \A q \in Paths : read'[q] = IF q = p THEN fs[q] ELSE read[q]
  BY <1>1 DEF EditInv, FolderInv
<1>3. FolderInv'
  BY <1>1, <1>2 DEF EditInv, FolderInv
<1>4. PipeInv' /\ ChainInv'
  BY <1>1 DEF EditInv, PipeInv, ChainInv, Unsent
<1>5. ReadInv'
  BY <1>1, <1>2 DEF EditInv, ReadInv, Unsent, Sent
<1>6. CoveredInv'
  BY <1>1, <1>2 DEF EditInv, CoveredInv, Unsent, Sent, PendingPaths
<1> QED
  BY <1>3, <1>4, <1>5, <1>6 DEF EditInv

\* A file that cannot be read is recorded as skipped.
LEMMA SkipFileKeeps ==
  ASSUME EditInv, NEW p \in Paths, SkipFile(p)
  PROVE  EditInv'
<1>1. /\ batch' = batch \ {p} /\ skipped' = skipped \cup {p}
      /\ UNCHANGED <<fs, index, snap, unsent, events, pending, loop, read, untold, edits>>
  BY DEF SkipFile, disk, src
<1>2. FolderInv' /\ PipeInv' /\ ChainInv' /\ ReadInv'
  BY <1>1 DEF EditInv, FolderInv, PipeInv, ChainInv, ReadInv, Unsent, Sent
<1>3. CoveredInv'
  BY <1>1 DEF EditInv, CoveredInv, Unsent, Sent, PendingPaths
<1> QED
  BY <1>2, <1>3 DEF EditInv

\* The index has what the batch read; what changed since then is on its way.
LEMMA CommitBatchKeeps ==
  ASSUME EditInv, CommitBatch
  PROVE  EditInv'
<1>1. /\ loop = "processing" /\ batch = {} /\ batch' = {} /\ loop' = "select" /\ index' = read
      /\ untold' = untold \ {p \in Paths : read[p] # index[p]}
      /\ UNCHANGED <<fs, snap, unsent, events, pending, read, skipped, edits>>
  BY DEF CommitBatch, BatchEnds, src, counters
<1>2. FolderInv'
  BY <1>1 DEF EditInv, FolderInv
<1>3. PipeInv' /\ ChainInv'
  BY <1>1 DEF EditInv, PipeInv, ChainInv, Unsent
<1>4. ReadInv'
  BY <1>1 DEF ReadInv
<1>5. CoveredInv'
  <2>1. ASSUME NEW p \in Paths, fs[p] # 0, snap[p] = fs[p]
        PROVE  \/ read[p] = fs[p]
               \/ p \in Unsent \cup Sent \cup PendingPaths(pending) \cup untold' \cup skipped
    <3>1. CASE read[p] = index[p]
      BY <1>1, <2>1, <3>1 DEF EditInv, CoveredInv
    <3>2. CASE read[p] # index[p]
      BY <1>1, <2>1, <3>2 DEF EditInv, ReadInv
    <3> QED
      BY <3>1, <3>2
  <2> QED
    BY <1>1, <2>1 DEF CoveredInv, Unsent, Sent, PendingPaths
<1> QED
  BY <1>2, <1>3, <1>4, <1>5 DEF EditInv

LEMMA BatchFailsKeeps ==
  ASSUME EditInv, BatchFails
  PROVE  EditInv'
<1>1. /\ loop = "processing" /\ batch' = {} /\ loop' = "select"
      /\ untold' = untold \cup batch \cup {p \in Paths : read[p] # index[p]}
      /\ UNCHANGED <<fs, index, snap, unsent, events, pending, read, skipped, edits>>
  BY DEF BatchFails, BatchEnds, disk, src
<1>2. FolderInv'
  BY <1>1 DEF EditInv, FolderInv
<1>3. PipeInv' /\ ChainInv'
  BY <1>1 DEF EditInv, PipeInv, ChainInv, Unsent
<1>4. ReadInv'
  BY <1>1 DEF ReadInv
<1>5. CoveredInv'
  BY <1>1 DEF EditInv, CoveredInv, Unsent, Sent, PendingPaths
<1> QED
  BY <1>2, <1>3, <1>4, <1>5 DEF EditInv

LEMMA OpenKeeps ==
  ASSUME EditInv, OpenInv, Open
  PROVE  EditInv'
<1>1. /\ loop = "opening" /\ loop' # "processing" /\ unsent = {} /\ events = <<>>
      /\ UNCHANGED <<fs, index, unsent, events, pending, batch, read, skipped, edits>>
  BY DEF Open, OpenInv, disk, flight
<1>2. \/ snap' = fs /\ untold' = untold \cup {p \in Paths : index[p] # fs[p]}
      \/ UNCHANGED <<snap, untold>>
  BY DEF Open
<1>3. FolderInv' /\ ReadInv'
  BY <1>1, <1>2 DEF EditInv, FolderInv, ReadInv
<1>4. PipeInv'
  BY <1>1, <1>2 DEF EditInv, PipeInv
<1>5. ChainInv'
  BY <1>1 DEF ChainInv
<1>6. CoveredInv'
  BY <1>1, <1>2 DEF EditInv, CoveredInv, Unsent, Sent, PendingPaths
<1> QED
  BY <1>3, <1>4, <1>5, <1>6 DEF EditInv

\* The steps that move nothing of the folder, its changes or its batches.
LEMMA OthersKeep ==
  ASSUME EditInv,
         UNCHANGED <<fs, index, snap, unsent, events, pending, batch, read, untold, skipped, edits>>,
         loop' = loop \/ "processing" \notin {loop, loop'}
  PROVE  EditInv'
<1>1. FolderInv' /\ PipeInv'
  BY DEF EditInv, FolderInv, PipeInv
<1>2. ChainInv' /\ ReadInv' /\ CoveredInv'
  BY DEF EditInv, ChainInv, ReadInv, CoveredInv, Unsent, Sent, PendingPaths
<1> QED
  BY <1>1, <1>2 DEF EditInv

LEMMA EditStepHolds ==
  ASSUME WorkerInv, [Next]_vars
  PROVE  EditInv'
<1> USE DEF WorkerInv
<1>1. ASSUME NEW p \in Paths, Write(p) \/ Remove(p) PROVE EditInv'
  BY <1>1, UserKeeps
<1>2. CASE StartWorker \/ StopWorker \/ FinishStop
  <2>1. UNCHANGED <<fs, index, snap, unsent, events, pending, batch, read, untold, skipped, edits>>
    BY <1>2 DEF StartWorker, StopWorker, FinishStop, disk, src, flight, counters, lost
  <2>2. loop' = loop \/ "processing" \notin {loop, loop'}
    BY <1>2 DEF StartWorker, StopWorker, FinishStop, RuntimeInv
  <2> QED
    BY <2>1, <2>2, OthersKeep
<1>3. CASE Source
  <2>1. CASE SourceStops
    <3>1. UNCHANGED <<fs, index, snap, unsent, events, pending, batch, read, untold, skipped, edits>> /\ UNCHANGED loop
      BY <2>1 DEF SourceStops, disk, flight, counters, lost
    <3> QED
      BY <3>1, OthersKeep
  <2> QED
    BY <1>3, <2>1, PollKeeps, SendKeeps DEF Source
<1>4. CASE ScanFails
  <2>1. UNCHANGED <<fs, index, snap, unsent, events, pending, batch, read, untold, skipped, edits>> /\ UNCHANGED loop
    BY <1>4 DEF ScanFails, disk, flight, lost
  <2> QED
    BY <2>1, OthersKeep
<1>5. CASE Loop
  <2>1. CASE ReceiveError \/ LoopEnds
    BY <2>1, OthersKeep DEF ReceiveError, LoopEnds, disk, src, flight, counters, lost
  <2> QED
    BY <1>5, <2>1, OpenKeeps, ReceiveChangeKeeps, StartBatchKeeps, ReadFileKeeps, CommitBatchKeeps
       DEF Loop
<1>6. CASE BatchFails \/ \E p \in Paths : SkipFile(p)
  BY <1>6, BatchFailsKeeps, SkipFileKeeps
<1>7. CASE UNCHANGED vars
  <2>1. UNCHANGED <<fs, index, snap, unsent, events, pending, batch, read, untold, skipped, edits>> /\ UNCHANGED loop
    BY <1>7 DEF vars, disk, src, flight, counters, lost
  <2> QED
    BY <2>1, OthersKeep
<1> QED
  BY <1>1, <1>2, <1>3, <1>4, <1>5, <1>6, <1>7 DEF Next

LEMMA OpenStepHolds ==
  ASSUME OpenInv, RuntimeInv, [Next]_vars
  PROVE  OpenInv'
<1>1. CASE \E p \in Paths : Write(p) \/ Remove(p)
  BY <1>1 DEF OpenInv, Write, Remove, src
<1>2. CASE StartWorker \/ StopWorker \/ FinishStop
  BY <1>2 DEF OpenInv, RuntimeInv, StartWorker, StopWorker, FinishStop, src
<1>3. CASE Source \/ ScanFails
  BY <1>3 DEF OpenInv, Source, Poll, Send, SourceStops, ScanFails
<1>4. CASE Loop \/ BatchFails \/ \E p \in Paths : SkipFile(p)
  BY <1>4 DEF OpenInv, Loop, Open, ReceiveChange, ReceiveError, LoopEnds, StartBatch, ReadFile,
              SkipFile, CommitBatch, BatchFails, BatchEnds, src
<1>5. CASE UNCHANGED vars
  BY <1>5 DEF OpenInv, vars, src
<1> QED
  BY <1>1, <1>2, <1>3, <1>4, <1>5 DEF Next
-----------------------------------------------------------------------------
(* The published runtime state. *)

\* How many changes are pending.
LEMMA CountIs ==
  ASSUME NEW t
  PROVE  Cardinality(PendingPaths(t)) \in Nat
<1>1. IsFiniteSet(PendingPaths(t))
  BY EmbeddedWorkerAssumption, FS_Subset DEF PendingPaths
<1> QED
  BY <1>1, FS_CardinalityType

LEMMA NothingCounts == PendingPaths(NothingPending) = {} /\ Cardinality(PendingPaths(NothingPending)) = 0
<1>1. PendingPaths(NothingPending) = {}
  BY DEF PendingPaths, NothingPending
<1> QED
  BY <1>1, FS_EmptySet

\* What is published is what the reader finds.
LEMMA PublishIs ==
  ASSUME NEW n \in Nat, NEW flying \in BOOLEAN, NEW err \in BOOLEAN, Publish(n, flying, err)
  PROVE  /\ runtime' \in Runtime /\ runtime' # None
         /\ runtime'.events = n /\ runtime'.inFlight = flying /\ runtime'.error = err
         /\ LastError' = err
<1>1. /\ runtime' \in Runtime
      /\ runtime'.events = n /\ runtime'.inFlight = flying /\ runtime'.error = err
  BY DEF Publish, Runtime
<1>2. runtime' # None
  BY <1>1, RuntimeAssumption
<1> QED
  BY <1>1, <1>2 DEF LastError

LEMMA ErrorIs == RuntimeInv => LastError \in BOOLEAN
BY DEF RuntimeInv, LastError, Runtime

\* What the loop publishes when it is about to go on as `next` with n changes pending.
LEMMA PublishKeeps ==
  ASSUME RuntimeInv, worker \notin {"new", "stopped"}, UNCHANGED worker,
         NEW err \in BOOLEAN, Publish(Cardinality(PendingPaths(pending')), loop' = "processing", err),
         loop' \in {"opening", "select", "processing", "done"},
         loop' \in {"opening", "processing"} => pending' = NothingPending
  PROVE  RuntimeInv' /\ LastError' = err
<1>1. Cardinality(PendingPaths(pending')) \in Nat
  BY CountIs
<1>2. (loop' = "processing") \in BOOLEAN
  OBVIOUS
<1>3. /\ runtime' \in Runtime /\ runtime'.events = Cardinality(PendingPaths(pending'))
      /\ runtime'.inFlight = (loop' = "processing") /\ LastError' = err
  BY <1>1, <1>2, PublishIs
<1>4. loop' = "opening" => runtime'.events = 0 /\ ~runtime'.inFlight
  BY <1>3, NothingCounts
<1> QED
  BY <1>3, <1>4 DEF RuntimeInv

\* Steps that do not publish.
LEMMA SilentKeeps ==
  ASSUME RuntimeInv, UNCHANGED <<worker, loop, pending, runtime>>
  PROVE  RuntimeInv'
BY DEF RuntimeInv, PendingPaths

LEMMA RuntimeStepHolds ==
  ASSUME RuntimeInv, [Next]_vars
  PROVE  RuntimeInv'
<1> USE DEF disk, src, flight, counters, lost
<1>1. CASE \E p \in Paths : Write(p) \/ Remove(p)
  BY <1>1, SilentKeeps DEF Write, Remove
<1>2. CASE StartWorker
  <2>1. /\ worker = "new" /\ worker' = "running" /\ loop' = "opening" /\ pending' = pending
        /\ Publish(0, FALSE, FALSE)
    BY <1>2 DEF StartWorker
  <2>2. runtime' \in Runtime /\ runtime'.events = 0 /\ ~runtime'.inFlight
    BY <2>1, PublishIs
  <2> QED
    BY <2>1, <2>2 DEF RuntimeInv
<1>3. CASE StopWorker
  <2>1. worker = "running" /\ worker' = "stopping" /\ UNCHANGED <<loop, pending, runtime>>
    BY <1>3 DEF StopWorker
  <2> QED
    BY <2>1 DEF RuntimeInv, PendingPaths
<1>4. CASE FinishStop
  <2>1. /\ worker = "stopping" /\ loop = "done" /\ worker' = "stopped" /\ runtime' = None
        /\ UNCHANGED <<loop, pending>>
    BY <1>4 DEF FinishStop
  <2> QED
    BY <2>1 DEF RuntimeInv
<1>5. CASE Source \/ ScanFails
  BY <1>5, SilentKeeps DEF Source, Poll, Send, SourceStops, ScanFails
<1>6. CASE Open
  <2>1. loop = "opening" /\ UNCHANGED <<worker, pending>> /\ worker \notin {"new", "stopped"}
    BY <1>6 DEF Open, RuntimeInv
  <2>2. CASE loop' = "select" /\ UNCHANGED runtime
    BY <2>1, <2>2, NothingCounts DEF RuntimeInv
  <2>3. CASE loop' = "done" /\ Publish(0, FALSE, TRUE)
    <3>1. runtime' \in Runtime
      BY <2>3, PublishIs
    <3> QED
      BY <2>1, <2>3, <3>1 DEF RuntimeInv
  <2> QED
    BY <1>6, <2>2, <2>3 DEF Open
<1>7. ASSUME loop \in {"select", "processing"} PROVE worker \notin {"new", "stopped"}
  BY <1>7 DEF RuntimeInv
<1>8. CASE ReceiveChange
  <2>1. /\ loop = "select" /\ UNCHANGED <<loop, worker>>
        /\ Publish(Cardinality(PendingPaths(pending')), FALSE, LastError)
    BY <1>8 DEF ReceiveChange
  <2>2. (loop' = "processing") = FALSE
    BY <2>1
  <2> QED
    BY <1>7, <2>1, <2>2, ErrorIs, PublishKeeps
<1>9. CASE ReceiveError
  <2>1. /\ loop = "select" /\ loop' = "done" /\ UNCHANGED <<pending, worker>>
        /\ Publish(Cardinality(PendingPaths(pending)), FALSE, TRUE)
    BY <1>9 DEF ReceiveError
  <2>2. (loop' = "processing") = FALSE
    BY <2>1
  <2> QED
    BY <1>7, <2>1, <2>2, PublishKeeps
<1>10. CASE LoopEnds
  <2>1. loop = "select" /\ loop' = "done" /\ UNCHANGED <<pending, worker, runtime>>
    BY <1>10 DEF LoopEnds
  <2> QED
    BY <1>7, <2>1 DEF RuntimeInv
<1>11. CASE StartBatch
  <2>1. /\ loop = "select" /\ loop' = "processing" /\ pending' = NothingPending /\ UNCHANGED worker
        /\ Publish(0, TRUE, LastError)
    BY <1>11 DEF StartBatch
  <2>2. Cardinality(PendingPaths(pending')) = 0 /\ (loop' = "processing") = TRUE
    BY <2>1, NothingCounts
  <2> QED
    BY <1>7, <2>1, <2>2, ErrorIs, PublishKeeps
<1>12. CASE \E p \in Paths : ReadFile(p) \/ SkipFile(p)
  BY <1>12, SilentKeeps DEF ReadFile, SkipFile
<1>13. ASSUME NEW err \in BOOLEAN, loop = "processing", BatchEnds(err), UNCHANGED <<pending, worker>>
       PROVE  RuntimeInv'
  <2>1. loop' = "select" /\ Publish(0, FALSE, err)
    BY <1>13 DEF BatchEnds
  <2>2. pending' = NothingPending
    BY <1>13 DEF RuntimeInv
  <2>3. Cardinality(PendingPaths(pending')) = 0 /\ (loop' = "processing") = FALSE
    BY <2>1, <2>2, NothingCounts
  <2> QED
    BY <1>7, <1>13, <2>1, <2>3, PublishKeeps
<1>14. CASE CommitBatch
  BY <1>13, <1>14 DEF CommitBatch
<1>15. CASE BatchFails
  <2>1. (~Cancelled) \in BOOLEAN
    OBVIOUS
  <2> QED
    BY <1>13, <1>15, <2>1 DEF BatchFails
<1>16. CASE UNCHANGED vars
  BY <1>16, SilentKeeps DEF vars
<1> QED
  BY <1>1, <1>2, <1>3, <1>4, <1>5, <1>6, <1>8, <1>9, <1>10, <1>11, <1>12, <1>14, <1>15, <1>16
     DEF Next, Loop

LEMMA WorkerInvHolds == Spec => []WorkerInv
<1>1. Init => WorkerInv
  <2>1. Init => OpenInv /\ RuntimeInv
    BY DEF Init, OpenInv, RuntimeInv
  <2> QED
    BY <2>1, EditInitHolds DEF WorkerInv
<1>2. WorkerInv /\ [Next]_vars => WorkerInv'
  <2> SUFFICES ASSUME WorkerInv, [Next]_vars PROVE WorkerInv'
    OBVIOUS
  <2>1. EditInv'
    BY EditStepHolds
  <2>2. OpenInv' /\ RuntimeInv'
    BY OpenStepHolds, RuntimeStepHolds DEF WorkerInv
  <2> QED
    BY <2>1, <2>2 DEF WorkerInv
<1> QED
  BY <1>1, <1>2, PTL DEF Spec
-----------------------------------------------------------------------------
(* What the watcher promises. *)

\* For every finite folder and every size of the channel, no interleaving of the user's
\* writes, the source's scans and sends, and the loop's collapsed changes and batches loses
\* an edit of a file that exists: it is in the index or on its way there, unless a batch
\* failed, it was made before the source was opened, or the last batch to look at the file
\* could not read it (watcher/polling_source.go, watcher/embedded_worker.go).
THEOREM EditsReachIndex == Spec => []NoEditLost
<1>1. WorkerInv => NoEditLost
  <2> SUFFICES ASSUME WorkerInv, NEW p \in Paths, fs[p] # 0, index[p] # fs[p], snap[p] = fs[p],
                      p \notin OnTheWay \cup untold \cup skipped
               PROVE  loop = "processing" /\ read[p] = fs[p]
    BY DEF NoEditLost
  <2>1. p \notin Unsent \cup Sent \cup PendingPaths(pending) \cup untold /\ p \notin batch \cup skipped
    BY DEF OnTheWay, Unsent, Sent
  <2> QED
    BY <2>1 DEF WorkerInv, EditInv, CoveredInv
<1> QED
  BY <1>1, WorkerInvHolds, PTL

\* The published runtime state says at every moment what the folder loop is doing
\* (watcher/embedded_worker.go, publishRuntime).
THEOREM RuntimeIsTheLoops == Spec => []RuntimeAgrees
<1>1. WorkerInv => RuntimeAgrees
  <2> SUFFICES ASSUME RuntimeInv PROVE RuntimeAgrees
    BY DEF WorkerInv
  <2>1. worker \in {"new", "stopped"} <=> runtime = None
    BY RuntimeAssumption DEF RuntimeInv
  <2>2. loop \in {"select", "processing"} => worker \notin {"new", "stopped"}
    BY DEF RuntimeInv
  <2> QED
    BY <2>1, <2>2 DEF RuntimeInv, RuntimeAgrees
<1> QED
  BY <1>1, WorkerInvHolds, PTL

\* Changes that a failed batch gives up are never given up silently, and an error that was
\* published stays until the next batch ends or the worker stops (watcher/embedded_worker.go).
THEOREM FailuresShow == Spec => FailureShows
<1> DEFINE Shows ==
      /\ loop = "processing" /\ untold' \ untold # {} /\ ~Cancelled => LastError'
      /\ LastError /\ ~LastError' =>
           \/ loop = "processing" /\ loop' = "select"
           \/ worker' = "stopped"
<1>1. ASSUME RuntimeInv, [Next]_vars
      PROVE  [Shows]_vars
  <2>1. CASE untold' = untold /\ runtime' = runtime
    BY <2>1 DEF LastError
  <2>2. (\E p \in Paths : Write(p) \/ Remove(p) \/ ReadFile(p) \/ SkipFile(p)) \/ StopWorker \/ Source \/ ScanFails
          \/ LoopEnds
        => UNCHANGED <<untold, runtime>>
    BY DEF Write, Remove, ReadFile, SkipFile, StopWorker, Source, Poll, Send, SourceStops, ScanFails,
       LoopEnds, lost
  <2>3. CASE StartWorker
    <3>1. worker = "new" /\ UNCHANGED untold
      BY <2>3 DEF StartWorker, lost
    <3>2. runtime = None
      BY <1>1, <3>1 DEF RuntimeInv
    <3> QED
      BY <3>1, <3>2 DEF LastError
  <2>4. CASE FinishStop
    BY <2>4 DEF FinishStop
  <2>5. CASE Open
    <3>1. loop = "opening" /\ (LastError' \/ UNCHANGED runtime)
      BY <2>5, PublishIs DEF Open
    <3> QED
      BY <3>1 DEF LastError
  <2>6. CASE ReceiveChange
    <3>1. LastError' = LastError
      <4>1. Publish(Cardinality(PendingPaths(pending')), FALSE, LastError)
        BY <2>6 DEF ReceiveChange
      <4>2. LastError \in BOOLEAN /\ Cardinality(PendingPaths(pending')) \in Nat
        BY <1>1, ErrorIs, CountIs
      <4> QED
        BY <4>1, <4>2, PublishIs
    <3> QED
      BY <2>6, <3>1 DEF ReceiveChange
  <2>7. CASE ReceiveError
    <3>1. LastError'
      BY <2>7, CountIs, PublishIs DEF ReceiveError
    <3> QED
      BY <3>1
  <2>8. CASE StartBatch
    <3>1. LastError' = LastError
      <4>1. Publish(0, TRUE, LastError)
        BY <2>8 DEF StartBatch
      <4>2. LastError \in BOOLEAN
        BY <1>1, ErrorIs
      <4> QED
        BY <4>1, <4>2, PublishIs
    <3> QED
      BY <2>8, <3>1 DEF StartBatch
  <2>9. CASE CommitBatch
    BY <2>9 DEF CommitBatch, BatchEnds
  <2>10. CASE BatchFails
    <3>1. loop = "processing" /\ loop' = "select" /\ Publish(0, FALSE, ~Cancelled)
      BY <2>10 DEF BatchFails, BatchEnds
    <3>2. (~Cancelled) \in BOOLEAN
      OBVIOUS
    <3>3. LastError' = ~Cancelled
      BY <3>1, <3>2, PublishIs
    <3> QED
      BY <3>1, <3>3
  <2>11. CASE UNCHANGED vars
    BY <2>11
  <2> HIDE DEF Shows
  <2> QED
    BY <1>1, <2>1, <2>2, <2>3, <2>4, <2>5, <2>6, <2>7, <2>8, <2>9, <2>10, <2>11 DEF Next, Loop
<1>2. WorkerInv /\ [Next]_vars => [Shows]_vars
  BY <1>1 DEF WorkerInv
<1> QED
  BY <1>2, WorkerInvHolds, PTL DEF Spec, FailureShows
=============================================================================
