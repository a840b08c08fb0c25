----------------------------- MODULE Telemetry ------------------------------
(***************************************************************************)
(* The savings telemetry of one server: the tracker's totals in memory, the *)
(* queue of call events, the flush that a ticker runs and that Close runs   *)
(* once more, and the SQLite store both write to (internal/telemetry and    *)
(* storage/sqlite_telemetry_store.go).  A call stands for the numbers it    *)
(* adds, so totals are sets of calls: a total that leaves a call out is     *)
(* short of its numbers, and no call is counted twice.  The serve loop and  *)
(* the watcher's folder loops call tools at the same time.  A crash may     *)
(* come between any two steps, and the store may be busy or fail.           *)
(***************************************************************************)
EXTENDS Naturals, Sequences, FiniteSets

CONSTANTS MaxCalls,     \* bound: calls recorded
          MaxCallers,   \* the goroutines that call tools: the serve loop and the folder loops
          MaxPending,   \* maxPendingCallEvents
          MaxAttempts,  \* attempts of the store's transactions
          MaxFaults,    \* bound: failed or busy transactions
          MaxRestarts   \* bound: starts of the server

ASSUME TelemetryAssumption ==
  /\ MaxCalls \in Nat /\ MaxCallers \in Nat /\ MaxPending \in Nat \ {0}
  /\ MaxAttempts \in Nat \ {0} /\ MaxFaults \in Nat /\ MaxRestarts \in Nat

VARIABLES server,     \* down, up, closing (Close waits), closed, or refused to start
          totals,     \* the tracker's cumulative totals
          session,    \* the calls of this process: their number is the tracker's revision
          pending,    \* pendingCallEvents, the oldest first
          marked,     \* hasPersisted and lastRevision
          callers,    \* the calls between the tracker's RecordCall and enqueueCallEvent
          order,      \* the calls of this process whose event was enqueued, in that order
          flush,      \* the Flush that holds flushMu
          closeErr,   \* Close returned an error
          db,         \* the last row of cumulative_snapshots, and call_events
          old,        \* the calls that have left the retention period
          calls, faults, starts  \* counters of the bounds

telemetryVars == <<server, totals, session, pending, marked, callers, order, flush, closeErr,
                   db, old, calls, faults, starts>>

Calls == 1 .. MaxCalls
FlushIdle == [at |-> "idle", by |-> "ticker", rev |-> 0, taken |-> <<>>, copy |-> {}, tries |-> 0]
Unmarked == [has |-> FALSE, rev |-> 0]
Revision == Cardinality(session)
Listed(events) == {events[i] : i \in DOMAIN events}

\* The newest MaxPending events: a longer queue loses its oldest.
Newest(events) ==
  IF Len(events) <= MaxPending THEN events
  ELSE SubSeq(events, Len(events) - MaxPending + 1, Len(events))

TelemetryInit ==
  /\ server = "down" /\ totals = {} /\ session = {} /\ pending = <<>> /\ marked = Unmarked
  /\ callers = {} /\ order = <<>> /\ flush = FlushIdle /\ closeErr = FALSE
  /\ db = [totals |-> {}, events |-> {}] /\ old = {}
  /\ calls = 0 /\ faults = 0 /\ starts = 0
-----------------------------------------------------------------------------
(* NewRuntime restores the last snapshot; a store that cannot be read stops the start. *)
NewProcess(restored) ==
  /\ server' = "up" /\ totals' = restored
  /\ session' = {} /\ pending' = <<>> /\ marked' = Unmarked
  /\ callers' = {} /\ order' = <<>> /\ flush' = FlushIdle /\ closeErr' = FALSE

\* A mutation: a snapshot that cannot be loaded is taken for one that is not there.
StartAnyway ==
  /\ server \in {"down", "closed", "refused"} /\ starts < MaxRestarts /\ starts' = starts + 1
  /\ \/ NewProcess(db.totals) /\ UNCHANGED faults
     \/ faults < MaxFaults /\ faults' = faults + 1 /\ NewProcess({})
  /\ UNCHANGED <<db, old, calls>>

Start ==
  /\ server \in {"down", "closed", "refused"} /\ starts < MaxRestarts /\ starts' = starts + 1
  /\ \/ NewProcess(db.totals) /\ UNCHANGED faults
     \/ /\ faults < MaxFaults /\ faults' = faults + 1
        /\ server' = "refused"
        /\ UNCHANGED <<totals, session, pending, marked, callers, order, flush, closeErr>>
  /\ UNCHANGED <<db, old, calls>>

(* Each tool call records its totals under the tracker's mutex and enqueues its event under
   stateMu: other calls may do either in between, so events need not be in the order of
   the totals. *)
RecordCall ==
  /\ server = "up" /\ Cardinality(callers) < MaxCallers /\ calls < MaxCalls
  /\ calls' = calls + 1 /\ callers' = callers \cup {calls + 1}
  /\ totals' = totals \cup {calls + 1} /\ session' = session \cup {calls + 1}
  /\ UNCHANGED <<server, pending, marked, order, flush, closeErr, db, old, faults, starts>>

EnqueueCallEvent(c) ==
  /\ c \in callers /\ callers' = callers \ {c}
  /\ pending' = Newest(Append(pending, c)) /\ order' = Append(order, c)
  /\ UNCHANGED <<server, totals, session, marked, flush, closeErr, db, old, calls, faults, starts>>
-----------------------------------------------------------------------------
(* Flush. *)
BeginTo(by) ==
  flush' = [at |-> "take", by |-> by, rev |-> Revision, taken |-> <<>>, copy |-> {}, tries |-> 0]

FlushTo(place, taken, copy) ==
  flush' = [at |-> place, by |-> flush.by, rev |-> flush.rev, taken |-> taken,
            copy |-> copy, tries |-> 0]

\* A mutation: a timer that fires once, where the code has a ticker.
BeginFlushOnce ==
  /\ flush.at = "idle"
  /\ \E by \in {"ticker", "close"} :
       /\ (by = "ticker" /\ server = "up" /\ ~marked.has) \/ (by = "close" /\ server = "closing")
       /\ BeginTo(by)
  /\ UNCHANGED <<server, totals, session, pending, marked, callers, order, closeErr, db, old,
                 calls, faults, starts>>

\* The ticker's goroutine, or Close once that goroutine has ended.
BeginFlush ==
  /\ flush.at = "idle"
  /\ \E by \in {"ticker", "close"} :
       /\ (by = "ticker" /\ server = "up") \/ (by = "close" /\ server = "closing")
       /\ BeginTo(by)
  /\ UNCHANGED <<server, totals, session, pending, marked, callers, order, closeErr, db, old,
                 calls, faults, starts>>

Unchanged(rev) == marked.has /\ rev = marked.rev

\* The end of a Flush: Close keeps its error and has then returned.
EndFlush(failed) ==
  /\ flush' = FlushIdle
  /\ IF flush.by = "close" THEN server' = "closed" /\ closeErr' = failed
     ELSE UNCHANGED <<server, closeErr>>

\* What a Flush does next, once the events are out of the way.
CopyOrEnd == IF Unchanged(flush.rev) THEN EndFlush(FALSE)
             ELSE FlushTo("copy", flush.taken, {}) /\ UNCHANGED <<server, closeErr>>

\* A mutation: a flush without events ends, whatever the revision.
TakePendingOnly ==
  /\ flush.at = "take" /\ pending' = <<>>
  /\ IF pending = <<>> THEN EndFlush(FALSE)
     ELSE /\ FlushTo("events", pending, {})
          /\ UNCHANGED <<server, closeErr>>
  /\ UNCHANGED <<totals, session, marked, callers, order, db, old, calls, faults, starts>>

TakePending ==
  /\ flush.at = "take" /\ pending' = <<>>
  /\ IF pending = <<>> THEN CopyOrEnd
     ELSE /\ FlushTo("events", pending, {})
          /\ UNCHANGED <<server, closeErr>>
  /\ UNCHANGED <<totals, session, marked, callers, order, db, old, calls, faults, starts>>

\* A transaction that is busy is tried again; one that fails has changed nothing.
Busy == /\ faults < MaxFaults /\ faults' = faults + 1
        /\ flush.tries + 1 < MaxAttempts
        /\ flush' = [flush EXCEPT !.tries = @ + 1]
        /\ UNCHANGED <<server, closeErr>>
Fails == faults < MaxFaults /\ faults' = faults + 1 /\ EndFlush(TRUE)

\* A mutation: the events that could not be saved replace those queued since.
RequeuedAlone == Newest(flush.taken)

Requeued == Newest(flush.taken \o pending)

\* SaveCallEvents inserts the events and prunes the expired ones in one transaction.
SaveCallEvents ==
  /\ flush.at = "events"
  /\ \/ /\ db' = [db EXCEPT !.events = (@ \cup Listed(flush.taken)) \ old]
        /\ CopyOrEnd /\ UNCHANGED <<pending, faults>>
     \/ Busy /\ UNCHANGED <<db, pending>>
     \/ Fails /\ pending' = Requeued /\ UNCHANGED db
  /\ UNCHANGED <<totals, session, marked, callers, order, old, calls, starts>>

CopyTotals ==
  /\ flush.at = "copy"
  /\ FlushTo("save", flush.taken, totals)
  /\ UNCHANGED <<server, totals, session, pending, marked, callers, order, closeErr, db, old,
                 calls, faults, starts>>

SaveSnapshot ==
  /\ flush.at = "save"
  /\ \/ /\ db' = [db EXCEPT !.totals = flush.copy]
        /\ FlushTo("mark", flush.taken, flush.copy)
        /\ UNCHANGED <<server, closeErr, faults>>
     \/ (Busy \/ Fails) /\ UNCHANGED db
  /\ UNCHANGED <<totals, session, pending, marked, callers, order, old, calls, starts>>

\* A mutation: the revision is read when the snapshot has been saved.
MarkedNow == [has |-> TRUE, rev |-> Revision]

Marked == [has |-> TRUE, rev |-> flush.rev]

Mark ==
  /\ flush.at = "mark" /\ marked' = Marked /\ EndFlush(FALSE)
  /\ UNCHANGED <<totals, session, pending, callers, order, db, old, calls, faults, starts>>
-----------------------------------------------------------------------------
(* Close is called when the serve loop has ended and EmbeddedWorker.Stop has waited for the
   folder loops; it stops the ticker's goroutine, which finishes the Flush it is in. *)
Close ==
  /\ server = "up" /\ callers = {} /\ server' = "closing"
  /\ UNCHANGED <<totals, session, pending, marked, callers, order, flush, closeErr, db, old,
                 calls, faults, starts>>

\* The memory of a dead process is gone.
Crash ==
  /\ server \in {"up", "closing"} /\ starts < MaxRestarts
  /\ server' = "down" /\ totals' = {} /\ session' = {} /\ pending' = <<>>
  /\ marked' = Unmarked /\ callers' = {} /\ order' = <<>> /\ flush' = FlushIdle
  /\ closeErr' = FALSE
  /\ UNCHANGED <<db, old, calls, faults, starts>>

\* Time passes: every call so far leaves the retention period.
Age ==
  /\ old' = 1 .. calls /\ old' # old
  /\ UNCHANGED <<server, totals, session, pending, marked, callers, order, flush, closeErr, db,
                 calls, faults, starts>>

FlushStep == BeginFlush \/ TakePending \/ SaveCallEvents \/ CopyTotals \/ SaveSnapshot \/ Mark

Enqueue == \E c \in Calls : EnqueueCallEvent(c)

TelemetryNext == Start \/ RecordCall \/ Enqueue \/ FlushStep \/ Close \/ Crash \/ Age

\* The ticker fires again and again, and a flush that has begun goes on.
TelemetryFairness == WF_telemetryVars(FlushStep)

TelemetrySpec == TelemetryInit /\ [][TelemetryNext]_telemetryVars /\ TelemetryFairness
-----------------------------------------------------------------------------
TelemetryTypeOK ==
  /\ server \in {"down", "up", "closing", "closed", "refused"}
  /\ totals \subseteq Calls /\ session \subseteq Calls
  /\ pending \in Seq(Calls) /\ Len(pending) <= MaxPending
  /\ marked \in [has : BOOLEAN, rev : 0 .. MaxCalls]
  /\ callers \subseteq Calls /\ order \in Seq(Calls) /\ closeErr \in BOOLEAN
  /\ flush.at \in {"idle", "take", "events", "copy", "save", "mark"}
  /\ flush.by \in {"ticker", "close"} /\ flush.rev \in 0 .. MaxCalls
  /\ flush.taken \in Seq(Calls) /\ flush.copy \subseteq Calls /\ flush.tries \in 0 .. MaxAttempts
  /\ db.totals \subseteq Calls /\ db.events \subseteq Calls /\ old \subseteq Calls
  /\ calls \in 0 .. MaxCalls /\ faults \in 0 .. MaxFaults /\ starts \in 0 .. MaxRestarts

\* The persisted totals never shrink, over crashes, failed saves and restarts: a snapshot
\* replaces the last one in LoadLatestSnapshot, so one that started from too little would
\* hide everything before it.
TotalsNeverShrink == [][db.totals \subseteq db.totals']_telemetryVars

\* A flush is skipped only when the last snapshot has every call: a call recorded while a
\* flush copied the totals is not forgotten by the revision the flush then notes.
NothingForgotten ==
  marked.has /\ marked.rev = Revision => totals \subseteq db.totals

\* However many calls record and enqueue at the same time, an event of this process is in the
\* queue, in the flush or in the store, unless it left the retention period or MaxPending
\* events were enqueued after it; and the queue holds the events enqueued last, in that
\* order: a failed save puts its events back before the ones queued since and never trades
\* a newer event for an older.
OldestRollOff ==
  LET held == Listed(pending) \cup Listed(flush.taken) \cup callers
      lost == session \ (held \cup db.events \cup old)
      n == Len(order)
  IN  /\ \A c \in lost : \E i \in 1 .. n - MaxPending : order[i] = c
      /\ \A k \in 1 .. Len(pending) : pending[k] = order[n - Len(pending) + k]

\* Close without an error has stored all totals and left no event behind.
CloseStoresAll ==
  server = "closed" /\ ~closeErr => db.totals = totals /\ pending = <<>>

\* While the store works, what was recorded reaches it.
StoreCatchesUp == []<>(server = "up" => db.totals = totals)
=============================================================================
