---------------------------- MODULE ReindexState ----------------------------
(***************************************************************************)
(* What the watcher's StateController knows of one repository (repoState), *)
(* the reindexing runs that report to it and the callers of WaitForFresh   *)
(* that sleep on its wait channel.                                         *)
(*                                                                         *)
(* Tool calls report through runWithReindexLifecycle, under the service's  *)
(* repository mutex; the embedded worker's fallback processor reports      *)
(* without it, so runs may overlap.  A handler that panics is recovered by *)
(* CallTool: its deferred unlock runs, its Mark... call does not.          *)
(*                                                                         *)
(* Each make(chan) of waitCh is a generation number; `closed` holds the    *)
(* generations that were closed.  A repository the controller has no       *)
(* repoState for answers like one whose state is Fresh, so Init stands for *)
(* both.  Each critical section of the controller's mutex is one step.     *)
(***************************************************************************)
EXTENDS Naturals, FiniteSets

CONSTANTS
    Calls,      \* tool calls that reindex through runWithReindexLifecycle
    Workers,    \* folder loops running the fallback batch processor
    Waiters,    \* callers of WaitForFresh
    Nobody,     \* the repository mutex is free
    MaxRuns,    \* bound: reindexing runs begun
    MaxPanics   \* bound: runs that panic

Runs == Calls \cup Workers

ASSUME ReindexStateAssumption ==
    /\ IsFiniteSet(Runs) /\ Calls \cap Workers = {}
    /\ Nobody \notin Runs
    /\ MaxRuns \in Nat /\ MaxPanics \in Nat

VARIABLES
    st,         \* repoState
    closed,     \* the wait channels that were closed
    mutex,      \* repoReindexMutex
    run,        \* where each run is
    wait,       \* each caller of WaitForFresh
    begun,      \* number of runs begun
    lost,       \* history: runs that panicked
    streak      \* history: failures since the last run that ended well

vars == <<st, closed, mutex, run, wait, begun, lost, streak>>

-----------------------------------------------------------------------------
Answers == {"fresh", "timeout", "reindex_failed"}
Places == {"idle", "waiting", "ready", "running", "ended"}
RepoState == [active : Nat, reindexing : BOOLEAN, stale : BOOLEAN,
              lastError : BOOLEAN, failures : Nat, waitCh : Nat]
Wait == [blocked : BOOLEAN, waitCh : Nat, snapshot : Answers, awaited : SUBSET Runs]

\* The runs between MarkReindexStart and MarkReindexDone or MarkReindexFailed.
Marked == {r \in Runs : run[r] = "running"}

Init ==
    /\ st = [active |-> 0, reindexing |-> FALSE, stale |-> FALSE,
             lastError |-> FALSE, failures |-> 0, waitCh |-> 0]
    /\ closed = {0}
    /\ mutex = Nobody
    /\ run = [r \in Runs |-> "idle"]
    /\ wait = [w \in Waiters |-> [blocked |-> FALSE, waitCh |-> 0,
                                  snapshot |-> "fresh", awaited |-> {}]]
    /\ begun = 0 /\ lost = 0 /\ streak = 0

-----------------------------------------------------------------------------
(* statusFromState                                                         *)

\* Query: IndexStale.
IndexStale(s) == s.reindexing \/ s.stale
\* ReindexFailures and LastError are filled in.
Escalated(s) == s.failures >= 2 /\ s.lastError
\* Mutant: a failure never makes the wait end as not fresh.
FreshWhenIdle(s) == ~s.reindexing
\* WaitForFresh: Fresh.  A first failure is tolerated.
FreshToWaiter(s) == ~s.reindexing /\ (s.failures < 2 \/ ~(IndexStale(s) \/ Escalated(s)))

\* handleWaitForFresh
Answer(s, timedOut) == IF FreshToWaiter(s) /\ ~timedOut THEN "fresh"
                       ELSE IF Escalated(s) THEN "reindex_failed" ELSE "timeout"

-----------------------------------------------------------------------------
(* Reindexing runs.                                                        *)

Request(r) ==
    /\ run[r] = "idle" /\ begun < MaxRuns
    /\ begun' = begun + 1
    /\ run' = [run EXCEPT ![r] = IF r \in Workers THEN "ready" ELSE "waiting"]
    /\ UNCHANGED <<st, closed, mutex, wait, lost, streak>>

Lock(r) ==
    /\ run[r] = "waiting" /\ mutex = Nobody
    /\ mutex' = r
    /\ run' = [run EXCEPT ![r] = "ready"]
    /\ UNCHANGED <<st, closed, wait, begun, lost, streak>>

\* Mutant: every start makes a new channel.
MarkStartNewChannel == [st EXCEPT !.active = @ + 1, !.reindexing = TRUE, !.stale = TRUE,
                                  !.lastError = FALSE, !.waitCh = @ + 1]

\* Mutant: a new run forgets the failures so far.
MarkStartForgets == [st EXCEPT !.active = @ + 1, !.reindexing = TRUE, !.stale = TRUE,
                               !.lastError = FALSE, !.failures = 0,
                               !.waitCh = IF st.active = 0 THEN @ + 1 ELSE @]

\* The state after MarkReindexStart: a channel is made when the repository was idle.
Started == [st EXCEPT !.active = @ + 1, !.reindexing = TRUE, !.stale = TRUE,
                      !.lastError = FALSE,
                      !.waitCh = IF st.active = 0 THEN @ + 1 ELSE @]

MarkReindexStart(r) ==
    /\ run[r] = "ready"
    /\ run' = [run EXCEPT ![r] = "running"]
    /\ st' = Started
    /\ UNCHANGED <<closed, mutex, wait, begun, lost, streak>>

\* Both Mark...Done and Mark...Failed count down and, after the last run, close waitCh.
Left == IF st.active > 0 THEN st.active - 1 ELSE 0
\* Mutant: the first run to end closes the channel.
SignalAlways == closed' = closed \cup {st.waitCh}
Signal == closed' = IF Left > 0 THEN closed ELSE closed \cup {st.waitCh}
End(r) ==
    /\ run[r] = "running"
    /\ run' = [run EXCEPT ![r] = "ended"]
    /\ wait' = [w \in Waiters |-> [wait[w] EXCEPT !.awaited = @ \ {r}]]
    /\ Signal
    /\ UNCHANGED <<mutex, begun, lost>>

\* The state after MarkReindexDone.
Finished == IF Left > 0 THEN [st EXCEPT !.active = Left, !.reindexing = TRUE]
            ELSE [st EXCEPT !.active = 0, !.reindexing = FALSE, !.stale = FALSE,
                            !.lastError = FALSE, !.failures = 0]

MarkReindexDone(r) ==
    /\ End(r)
    /\ st' = Finished
    /\ streak' = 0

MarkReindexFailed(r) ==
    /\ r \in Calls /\ End(r)
    /\ st' = [st EXCEPT !.active = Left, !.reindexing = Left > 0, !.stale = TRUE,
                        !.lastError = TRUE, !.failures = @ + 1]
    /\ streak' = streak + 1

Unlock(r) ==
    /\ run[r] = "ended"
    /\ run' = [run EXCEPT ![r] = "idle"]
    /\ mutex' = IF mutex = r THEN Nobody ELSE mutex
    /\ UNCHANGED <<st, closed, wait, begun, lost, streak>>

Panic(r) ==
    /\ r \in Calls /\ run[r] = "running" /\ lost < MaxPanics
    /\ lost' = lost + 1
    /\ run' = [run EXCEPT ![r] = "idle"]
    /\ mutex' = Nobody
    /\ wait' = [w \in Waiters |-> [wait[w] EXCEPT !.awaited = @ \ {r}]]
    /\ UNCHANGED <<st, closed, begun, streak>>

-----------------------------------------------------------------------------
(* WaitForFresh.  Only a caller that finds a reindex in progress sleeps.   *)

Sleep(w) ==
    /\ ~wait[w].blocked /\ st.reindexing
    /\ wait' = [wait EXCEPT ![w] = [blocked |-> TRUE, waitCh |-> st.waitCh,
                                    snapshot |-> Answer(st, TRUE), awaited |-> Marked]]
    /\ UNCHANGED <<st, closed, mutex, run, begun, lost, streak>>

\* The state is read again after the channel or the timer fired.
Replies(w, a) ==
    /\ wait' = [wait EXCEPT ![w].blocked = FALSE, ![w].snapshot = a]
    /\ UNCHANGED <<st, closed, mutex, run, begun, lost, streak>>

Wake(w) == wait[w].blocked /\ wait[w].waitCh \in closed /\ Replies(w, Answer(st, FALSE))
TimeOut(w) == wait[w].blocked /\ Replies(w, Answer(st, TRUE))
\* ctx.Done(): the snapshot taken before the wait is returned.
Cancel(w) == wait[w].blocked /\ Replies(w, wait[w].snapshot)

Next ==
    \/ \E r \in Runs : \/ Request(r) \/ Lock(r) \/ MarkReindexStart(r) \/ Unlock(r)
                       \/ MarkReindexDone(r) \/ MarkReindexFailed(r) \/ Panic(r)
    \/ \E w \in Waiters : Sleep(w) \/ Wake(w) \/ TimeOut(w) \/ Cancel(w)

-----------------------------------------------------------------------------
TypeOK ==
    /\ st \in RepoState
    /\ closed \subseteq Nat
    /\ mutex \in Calls \cup {Nobody}
    /\ run \in [Runs -> Places]
    /\ wait \in [Waiters -> Wait]
    /\ begun \in Nat /\ lost \in Nat /\ streak \in Nat

\* The controller counts the runs that are under way, plus those that panicked: overlapping
\* runs neither hide nor double each other.
ActiveIsCounted == st.active = Cardinality(Marked) + lost

\* No sleeping caller is forgotten: its channel is the one the last active run will close,
\* or it is closed already.  MarkReindexStart replaces the channel only after it was closed.
NoLostWakeup ==
    \A w \in Waiters : wait[w].blocked =>
        \/ wait[w].waitCh \in closed
        \/ wait[w].waitCh = st.waitCh /\ st.active > 0

\* A caller is woken only after every run that was under way when it went to sleep has
\* ended, however runs overlap and whatever began meanwhile.
WokenAfterAwaited ==
    \A w \in Waiters : wait[w].blocked /\ wait[w].waitCh \in closed => wait[w].awaited = {}

\* While no run is counted, two failures in a row are visible to Query and to a waiter; a
\* run that started or ended in between has not erased them.
RepeatedFailureShows ==
    st.active = 0 /\ streak >= 2 =>
        IndexStale(st) /\ Escalated(st) /\ Answer(st, FALSE) = "reindex_failed"

\* wait_for_fresh answers "fresh" only when no run is under way and at most one run failed
\* since the last success.
FreshMeansSettled ==
    [][\A w \in Waiters : Wake(w) /\ wait'[w].snapshot = "fresh" =>
          Marked = {} /\ streak < 2]_vars

\* "WaitForFresh blocks until the repo is no longer reindexing": a caller goes to sleep only
\* while some run is under way.
SleepersHaveARun == [][\A w \in Waiters : Sleep(w) => Marked # {}]_vars

\* A caller that sleeps is woken by the end of the runs, not only by its timer, as long as
\* the repository keeps becoming idle.
WokenWhenIdle ==
    []<>(st.active = 0) => \A w \in Waiters : wait[w].blocked ~> ~wait[w].blocked

Spec == Init /\ [][Next]_vars

\* Runs end and release the mutex, and a goroutine whose channel is closed is scheduled.
\* Nothing is assumed of timers and cancellations.
FairSpec ==
    /\ Spec
    /\ \A r \in Runs : /\ WF_vars(MarkReindexStart(r))
                       /\ WF_vars(MarkReindexDone(r) \/ MarkReindexFailed(r) \/ Panic(r))
                       /\ WF_vars(Unlock(r))
    /\ \A w \in Waiters : WF_vars(Wake(w))
=============================================================================
