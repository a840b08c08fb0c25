--------------------------- MODULE ReindexProofs ----------------------------
(***************************************************************************)
(* What ReindexState promises, for any number of tool calls, workers and   *)
(* waiting callers, and what RemoteSync promises, for every set of paths    *)
(* and trees and any number of runs, pushes and errors.                     *)
(***************************************************************************)
EXTENDS ReindexState, RemoteSync, FiniteSetTheorems, TLAPS
-----------------------------------------------------------------------------
(* The lifecycle and freshness of a repository: ReindexState. *)

\* The flag, the counter and the current channel say the same; only channels made so far
\* were closed.
ChannelInv ==
    /\ st.reindexing <=> st.active > 0
    /\ st.waitCh \in closed <=> st.active = 0
    /\ \A g \in closed : g <= st.waitCh

\* A sleeper's channel is the current one or closed; the runs it waits for are under way,
\* and none is once the channel is closed.
SleeperInv ==
    \A w \in Waiters :
        /\ wait[w].awaited \subseteq Marked
        /\ wait[w].blocked =>
              \/ wait[w].waitCh \in closed /\ wait[w].awaited = {}
              \/ wait[w].waitCh = st.waitCh /\ st.active > 0

\* Failures are counted at least as often as they happened in a row, and an idle
\* repository with a failure on record is stale and has a message.
FailureInv ==
    /\ streak <= st.failures
    /\ st.active = 0 /\ st.failures > 0 => st.stale /\ st.lastError

\* The fallback processor never queues for the mutex.
WorkerInv == \A r \in Workers : run[r] # "waiting"

Inv == TypeOK /\ ActiveIsCounted /\ ChannelInv /\ SleeperInv /\ FailureInv /\ WorkerInv

-----------------------------------------------------------------------------
(* How the set of runs under way changes.                                  *)

LEMMA MarkedFinite == IsFiniteSet(Marked) /\ Cardinality(Marked) \in Nat
BY ReindexStateAssumption, FS_Subset, FS_CardinalityType DEF ReindexStateAssumption, Marked

\* A step of a run that neither enters nor leaves "running".
LEMMA MarkedSame ==
    ASSUME TypeOK, NEW r \in Runs, NEW x, run' = [run EXCEPT ![r] = x],
           run[r] # "running", x # "running"
    PROVE  Marked' = Marked
BY DEF TypeOK, Marked

LEMMA MarkedGrows ==
    ASSUME TypeOK, NEW r \in Runs, run' = [run EXCEPT ![r] = "running"], run[r] # "running"
    PROVE  Marked' = Marked \cup {r} /\ Cardinality(Marked') = Cardinality(Marked) + 1
<1>1. Marked' = Marked \cup {r} /\ r \notin Marked
  BY DEF TypeOK, Marked
<1> QED
  BY <1>1, MarkedFinite, FS_AddElement

LEMMA MarkedShrinks ==
    ASSUME TypeOK, NEW r \in Runs, NEW x, run' = [run EXCEPT ![r] = x],
           run[r] = "running", x # "running"
    PROVE  /\ Marked' = Marked \ {r} /\ r \in Marked
           /\ Cardinality(Marked') = Cardinality(Marked) - 1
           /\ Cardinality(Marked) > 0
<1>1. Marked' = Marked \ {r} /\ r \in Marked
  BY DEF TypeOK, Marked
<1>2. Cardinality(Marked') = Cardinality(Marked) - 1
  BY <1>1, MarkedFinite, FS_RemoveElement
<1>3. Cardinality(Marked) # 0
  BY <1>1, MarkedFinite, FS_EmptySet
<1> QED
  BY <1>1, <1>2, <1>3, MarkedFinite

-----------------------------------------------------------------------------
(* One lemma per operation.                                                *)

LEMMA InitInv == Init => Inv
<1> SUFFICES ASSUME Init PROVE Inv
  OBVIOUS
<1>1. TypeOK
  BY DEF Init, TypeOK, RepoState, Wait, Answers, Places
<1>2. Marked = {}
  BY DEF Init, Marked
<1>3. ActiveIsCounted
  BY <1>2, FS_EmptySet DEF Init, ActiveIsCounted
<1>4. ChannelInv /\ FailureInv
  BY DEF Init, ChannelInv, FailureInv
<1>5. SleeperInv /\ WorkerInv
  BY DEF Init, SleeperInv, WorkerInv, Runs
<1> QED
  BY <1>1, <1>3, <1>4, <1>5 DEF Inv

\* Steps that touch neither repoState nor the set of runs under way.
LEMMA BystanderInv ==
    ASSUME Inv, UNCHANGED <<st, closed, wait, lost, streak>>, Marked' = Marked,
           TypeOK', WorkerInv'
    PROVE  Inv'
BY DEF Inv, ActiveIsCounted, ChannelInv, SleeperInv, FailureInv

LEMMA RequestInv == ASSUME Inv, NEW r \in Runs, Request(r) PROVE Inv'
<1> DEFINE x == IF r \in Workers THEN "ready" ELSE "waiting"
<1>1. TypeOK'
  BY DEF Inv, Request, TypeOK, Places
<1>2. Marked' = Marked
  BY MarkedSame, x # "running" DEF Inv, Request
<1>3. WorkerInv'
  BY DEF Inv, TypeOK, WorkerInv, Request
<1> QED
  BY <1>1, <1>2, <1>3, BystanderInv DEF Request

LEMMA LockInv == ASSUME Inv, NEW r \in Runs, Lock(r) PROVE Inv'
<1>1. TypeOK'
  BY DEF Inv, WorkerInv, Lock, TypeOK, Places, Runs
<1>2. Marked' = Marked
  BY MarkedSame DEF Inv, Lock
<1>3. WorkerInv'
  BY DEF Inv, TypeOK, WorkerInv, Lock
<1> QED
  BY <1>1, <1>2, <1>3, BystanderInv DEF Lock

LEMMA UnlockInv == ASSUME Inv, NEW r \in Runs, Unlock(r) PROVE Inv'
<1>1. TypeOK'
  BY DEF Inv, Unlock, TypeOK, Places
<1>2. Marked' = Marked
  BY MarkedSame DEF Inv, Unlock
<1>3. WorkerInv'
  BY DEF Inv, TypeOK, WorkerInv, Unlock
<1> QED
  BY <1>1, <1>2, <1>3, BystanderInv DEF Unlock

LEMMA MarkReindexStartInv == ASSUME Inv, NEW r \in Runs, MarkReindexStart(r) PROVE Inv'
<1> USE DEF MarkReindexStart, Started
<1>1. TypeOK'
  <2>1. st' \in RepoState
    <3> DEFINE ch == IF st.active = 0 THEN st.waitCh + 1 ELSE st.waitCh
    <3>1. st \in RepoState /\ ch \in Nat /\ st.active + 1 \in Nat
      BY DEF Inv, TypeOK, RepoState
    <3>2. st' = [st EXCEPT !.active = @ + 1, !.reindexing = TRUE, !.stale = TRUE,
                           !.lastError = FALSE, !.waitCh = ch]
      BY <3>1 DEF RepoState
    <3> HIDE DEF ch
    <3> QED
      BY <3>1, <3>2 DEF RepoState
  <2>2. run' \in [Runs -> Places]
    BY DEF Inv, TypeOK, Places
  <2> QED
    BY <2>1, <2>2 DEF Inv, TypeOK
<1>2. /\ Marked' = Marked \cup {r}
      /\ Cardinality(Marked') = Cardinality(Marked) + 1
  BY MarkedGrows DEF Inv
<1>3. ActiveIsCounted'
  BY <1>2, MarkedFinite DEF Inv, TypeOK, RepoState, ActiveIsCounted
<1>4. ChannelInv'
  BY DEF Inv, TypeOK, RepoState, ChannelInv
<1>5. SleeperInv'
  BY <1>2 DEF Inv, TypeOK, RepoState, SleeperInv
<1>6. FailureInv'
  BY DEF Inv, TypeOK, RepoState, FailureInv
<1>7. WorkerInv'
  BY DEF Inv, TypeOK, WorkerInv
<1> QED
  BY <1>1, <1>3, <1>4, <1>5, <1>6, <1>7 DEF Inv

\* What both ways to end a run have in common.
LEMMA EndFacts ==
    ASSUME Inv, NEW r \in Runs, End(r)
    PROVE  /\ Left = st.active - 1 /\ Left \in Nat
           /\ Left = Cardinality(Marked') + lost
           /\ Left = 0 => Marked' = {}
           /\ Marked' = Marked \ {r}
           /\ \A w \in Waiters : /\ wait'[w].awaited = wait[w].awaited \ {r}
                                 /\ wait'[w].blocked = wait[w].blocked
                                 /\ wait'[w].waitCh = wait[w].waitCh
           /\ wait' \in [Waiters -> Wait] /\ run' \in [Runs -> Places]
           /\ Left = 0 => closed' = closed \cup {st.waitCh}
           /\ Left > 0 => closed' = closed
           /\ WorkerInv'
<1>1. /\ Marked' = Marked \ {r}
      /\ Cardinality(Marked') = Cardinality(Marked) - 1
      /\ Cardinality(Marked) > 0
  BY MarkedShrinks DEF Inv, End
<1>2. Left = st.active - 1 /\ Left \in Nat /\ Left = Cardinality(Marked') + lost
  BY <1>1, MarkedFinite DEF Inv, TypeOK, RepoState, ActiveIsCounted, Left
<1>3. IsFiniteSet(Marked') /\ Cardinality(Marked') \in Nat
  BY <1>1, MarkedFinite, FS_Subset, FS_CardinalityType
<1>4. Left = 0 => Marked' = {}
  <2> SUFFICES ASSUME Left = 0 PROVE Cardinality(Marked') = 0
    BY <1>3, FS_EmptySet
  <2> QED
    BY <1>2, <1>3 DEF Inv, TypeOK
<1>5. ASSUME NEW w \in Waiters
      PROVE  /\ wait'[w] \in Wait
             /\ wait'[w].awaited = wait[w].awaited \ {r}
             /\ wait'[w].blocked = wait[w].blocked
             /\ wait'[w].waitCh = wait[w].waitCh
  <2>1. wait[w] \in Wait /\ wait'[w] = [wait[w] EXCEPT !.awaited = @ \ {r}]
    BY DEF Inv, TypeOK, End
  <2> QED
    BY <2>1 DEF Wait
<1>6. wait' \in [Waiters -> Wait]
  BY <1>5 DEF End
<1>7. WorkerInv' /\ run' \in [Runs -> Places]
  BY DEF Inv, TypeOK, WorkerInv, End, Places
<1>8. (Left = 0 => closed' = closed \cup {st.waitCh}) /\ (Left > 0 => closed' = closed)
  BY <1>2 DEF End, Signal
<1> QED
  BY <1>1, <1>2, <1>4, <1>5, <1>6, <1>7, <1>8

\* The sleepers after a run ended.
LEMMA EndSleepers ==
    ASSUME Inv, NEW r \in Runs, End(r), st'.active = Left, st'.waitCh = st.waitCh
    PROVE  SleeperInv'
<1> SUFFICES ASSUME NEW w \in Waiters
             PROVE  /\ wait'[w].awaited \subseteq Marked'
                    /\ wait'[w].blocked =>
                          \/ wait'[w].waitCh \in closed' /\ wait'[w].awaited = {}
                          \/ wait'[w].waitCh = st'.waitCh /\ st'.active > 0
  BY DEF SleeperInv
<1>1. wait'[w].awaited \subseteq Marked'
  BY EndFacts DEF Inv, SleeperInv
<1>2. Left = 0 => wait'[w].awaited = {} /\ st.waitCh \in closed'
  BY <1>1, EndFacts
<1>3. Left \in Nat /\ closed \subseteq closed'
  BY EndFacts
<1>4. wait[w].awaited = {} => wait'[w].awaited = {}
  BY EndFacts
<1> QED
  BY <1>1, <1>2, <1>3, <1>4, EndFacts DEF Inv, SleeperInv

LEMMA MarkReindexDoneInv == ASSUME Inv, NEW r \in Runs, MarkReindexDone(r) PROVE Inv'
<1>1. End(r) /\ st' = Finished /\ streak' = 0
  BY DEF MarkReindexDone
<1>2. TypeOK'
  <2>1. st' \in RepoState
    BY <1>1, EndFacts DEF Inv, TypeOK, RepoState, Finished
  <2>2. closed' \subseteq Nat
    <3>1. Left \in Nat /\ st.waitCh \in Nat /\ closed \subseteq Nat
      BY <1>1, EndFacts DEF Inv, TypeOK, RepoState
    <3>2. closed' = closed \/ closed' = closed \cup {st.waitCh}
      BY <1>1, <3>1, EndFacts
    <3> QED
      BY <3>1, <3>2
  <2> QED
    BY <1>1, <2>1, <2>2, EndFacts DEF Inv, TypeOK, End
<1>3. st'.active = Left /\ st'.waitCh = st.waitCh /\ (st'.reindexing <=> Left > 0)
  BY <1>1, EndFacts DEF Inv, TypeOK, RepoState, Finished
<1>4. ActiveIsCounted'
  BY <1>1, <1>3, EndFacts DEF ActiveIsCounted, End
<1>5. ChannelInv'
  <2>1. Left \in Nat /\ st.waitCh \in Nat /\ st.active > 0
    BY <1>1, EndFacts DEF Inv, TypeOK, RepoState
  <2>2. CASE Left = 0
    BY <1>1, <1>3, <2>1, <2>2, EndFacts DEF Inv, ChannelInv
  <2>3. CASE Left > 0
    BY <1>1, <1>3, <2>1, <2>3, EndFacts DEF Inv, ChannelInv
  <2> QED
    BY <2>1, <2>2, <2>3
<1>6. SleeperInv'
  BY <1>1, <1>3, EndSleepers
<1>7. FailureInv'
  BY <1>1, EndFacts DEF Inv, TypeOK, RepoState, FailureInv, Finished
<1> QED
  BY <1>1, <1>2, <1>4, <1>5, <1>6, <1>7, EndFacts DEF Inv

LEMMA MarkReindexFailedInv == ASSUME Inv, NEW r \in Runs, MarkReindexFailed(r) PROVE Inv'
<1>1. End(r) /\ streak' = streak + 1
  BY DEF MarkReindexFailed
<1>2. TypeOK'
  <2>1. st' \in RepoState
    <3> DEFINE busy == Left > 0
    <3>1. st \in RepoState /\ Left \in Nat /\ st.failures + 1 \in Nat /\ busy \in BOOLEAN
      BY <1>1, EndFacts DEF Inv, TypeOK, RepoState
    <3>2. st' = [st EXCEPT !.active = Left, !.reindexing = busy, !.stale = TRUE,
                           !.lastError = TRUE, !.failures = @ + 1]
      BY DEF MarkReindexFailed
    <3> HIDE DEF busy
    <3> QED
      BY <3>1, <3>2 DEF RepoState
  <2>2. closed' \subseteq Nat
    <3>1. Left \in Nat /\ st.waitCh \in Nat /\ closed \subseteq Nat
      BY <1>1, EndFacts DEF Inv, TypeOK, RepoState
    <3>2. closed' = closed \/ closed' = closed \cup {st.waitCh}
      BY <1>1, <3>1, EndFacts
    <3> QED
      BY <3>1, <3>2
  <2>3. streak' \in Nat
    BY <1>1 DEF Inv, TypeOK
  <2>4. mutex' \in Calls \cup {Nobody} /\ begun' \in Nat /\ lost' \in Nat
    BY <1>1 DEF Inv, TypeOK, End
  <2> QED
    BY <1>1, <2>1, <2>2, <2>3, <2>4, EndFacts DEF TypeOK
<1>3. /\ st'.active = Left /\ st'.waitCh = st.waitCh /\ (st'.reindexing <=> Left > 0)
      /\ st'.stale /\ st'.lastError /\ st'.failures = st.failures + 1
  BY <1>1, EndFacts DEF Inv, TypeOK, RepoState, MarkReindexFailed
<1>4. ActiveIsCounted'
  BY <1>1, <1>3, EndFacts DEF ActiveIsCounted, End
<1>5. ChannelInv'
  <2>1. Left \in Nat /\ st.waitCh \in Nat /\ st.active > 0
    BY <1>1, EndFacts DEF Inv, TypeOK, RepoState
  <2>2. CASE Left = 0
    BY <1>1, <1>3, <2>1, <2>2, EndFacts DEF Inv, ChannelInv
  <2>3. CASE Left > 0
    BY <1>1, <1>3, <2>1, <2>3, EndFacts DEF Inv, ChannelInv
  <2> QED
    BY <2>1, <2>2, <2>3
<1>6. SleeperInv'
  BY <1>1, <1>3, EndSleepers
<1>7. FailureInv'
  BY <1>1, <1>3 DEF Inv, TypeOK, RepoState, FailureInv
<1> QED
  BY <1>1, <1>2, <1>4, <1>5, <1>6, <1>7, EndFacts DEF Inv

LEMMA PanicInv == ASSUME Inv, NEW r \in Runs, Panic(r) PROVE Inv'
<1> USE DEF Panic
<1>1. TypeOK'
  BY DEF Inv, TypeOK, Places, Wait
<1>2. /\ Marked' = Marked \ {r}
      /\ Cardinality(Marked') = Cardinality(Marked) - 1
  BY MarkedShrinks DEF Inv
<1>3. ActiveIsCounted'
  BY <1>2, MarkedFinite DEF Inv, TypeOK, RepoState, ActiveIsCounted
<1>4. SleeperInv'
  BY <1>2 DEF Inv, TypeOK, Wait, SleeperInv
<1>5. ChannelInv' /\ FailureInv' /\ WorkerInv'
  BY DEF Inv, TypeOK, ChannelInv, FailureInv, WorkerInv
<1> QED
  BY <1>1, <1>3, <1>4, <1>5 DEF Inv

LEMMA AnswerType == ASSUME NEW s, NEW b PROVE Answer(s, b) \in Answers
BY DEF Answer, Answers

\* A step of one waiting caller.
LEMMA WaiterInv ==
    ASSUME Inv, NEW w \in Waiters, NEW x \in Wait, wait' = [wait EXCEPT ![w] = x],
           UNCHANGED <<st, closed, mutex, run, begun, lost, streak>>,
           x.awaited \subseteq Marked,
           x.blocked => x.waitCh = st.waitCh /\ st.active > 0
    PROVE  Inv'
<1>1. TypeOK'
  BY DEF Inv, TypeOK
<1>2. Marked' = Marked
  BY DEF Marked
<1>3. SleeperInv'
  BY <1>2 DEF Inv, TypeOK, SleeperInv
<1>4. ActiveIsCounted' /\ ChannelInv' /\ FailureInv' /\ WorkerInv'
  BY <1>2 DEF Inv, ActiveIsCounted, ChannelInv, FailureInv, WorkerInv
<1> QED
  BY <1>1, <1>3, <1>4 DEF Inv

LEMMA SleepInv == ASSUME Inv, NEW w \in Waiters, Sleep(w) PROVE Inv'
<1> DEFINE x == [blocked |-> TRUE, waitCh |-> st.waitCh,
                 snapshot |-> Answer(st, TRUE), awaited |-> Marked]
<1>1. x \in Wait
  BY AnswerType DEF Inv, TypeOK, RepoState, Wait, Marked
<1>2. x.awaited \subseteq Marked /\ x.waitCh = st.waitCh /\ st.active > 0
  BY DEF Inv, ChannelInv, Sleep
<1>3. wait' = [wait EXCEPT ![w] = x]
  BY DEF Sleep
<1> HIDE DEF x
<1> QED
  BY <1>1, <1>2, <1>3, WaiterInv DEF Sleep

LEMMA RepliesInv ==
    ASSUME Inv, NEW w \in Waiters, NEW a \in Answers, Replies(w, a) PROVE Inv'
<1> DEFINE x == [wait[w] EXCEPT !.blocked = FALSE, !.snapshot = a]
<1>1. x \in Wait /\ ~x.blocked /\ x.awaited = wait[w].awaited
  BY DEF Inv, TypeOK, Wait
<1>2. wait' = [wait EXCEPT ![w] = x]
  BY DEF Replies
<1>3. x.awaited \subseteq Marked
  BY <1>1 DEF Inv, SleeperInv
<1> HIDE DEF x
<1> QED
  BY <1>1, <1>2, <1>3, WaiterInv DEF Replies

LEMMA NextInv == Inv /\ [Next]_vars => Inv'
<1> SUFFICES ASSUME Inv, [Next]_vars PROVE Inv'
  OBVIOUS
<1>1. CASE \E r \in Runs : \/ Request(r) \/ Lock(r) \/ MarkReindexStart(r) \/ Unlock(r)
                          \/ MarkReindexDone(r) \/ MarkReindexFailed(r) \/ Panic(r)
  BY <1>1, RequestInv, LockInv, MarkReindexStartInv, UnlockInv, MarkReindexDoneInv,
     MarkReindexFailedInv, PanicInv
<1>2. CASE \E w \in Waiters : Sleep(w) \/ Wake(w) \/ TimeOut(w) \/ Cancel(w)
  <2>1. PICK w \in Waiters : Sleep(w) \/ Wake(w) \/ TimeOut(w) \/ Cancel(w)
    BY <1>2
  <2>2. wait[w].snapshot \in Answers
    BY DEF Inv, TypeOK, Wait
  <2>3. ASSUME NEW a \in Answers, Replies(w, a) PROVE Inv'
    BY <2>3, RepliesInv
  <2> QED
    BY <2>1, <2>2, <2>3, SleepInv, AnswerType DEF Wake, TimeOut, Cancel
<1>3. CASE UNCHANGED vars
  <2>1. Marked' = Marked
    BY <1>3 DEF vars, Marked
  <2> QED
    BY <1>3, <2>1 DEF vars, Inv, TypeOK, ActiveIsCounted, ChannelInv, SleeperInv,
                      FailureInv, WorkerInv
<1> QED
  BY <1>1, <1>2, <1>3 DEF Next

-----------------------------------------------------------------------------
(* The results.                                                            *)

LEMMA InvHolds == Spec => []Inv
BY InitInv, NextInv, PTL DEF Spec

\* Every variable keeps its type, whatever the interleaving of runs and waiters.
THEOREM TypeCorrect == Spec => []TypeOK
<1>1. Inv => TypeOK
  BY DEF Inv
<1> QED
  BY <1>1, InvHolds, PTL

\* MarkReindexStart, Done and Failed keep activeReindexes equal to the number of runs
\* under way plus those that panicked.
THEOREM ActiveCorrect == Spec => []ActiveIsCounted
<1>1. Inv => ActiveIsCounted
  BY DEF Inv
<1> QED
  BY <1>1, InvHolds, PTL

\* A sleeping caller of WaitForFresh listens on a channel that is closed or that the last
\* active run will close.
THEOREM WakeupsAreNotLost == Spec => []NoLostWakeup
<1>1. Inv => NoLostWakeup
  BY DEF Inv, SleeperInv, NoLostWakeup
<1> QED
  BY <1>1, InvHolds, PTL

\* WaitForFresh does not wake before every run it found under way has ended.
THEOREM WokenAfterAll == Spec => []WokenAfterAwaited
<1>1. Inv => WokenAfterAwaited
  BY DEF Inv, ChannelInv, SleeperInv, WokenAfterAwaited
<1> QED
  BY <1>1, InvHolds, PTL

\* Two failures in a row are never hidden from Query or WaitForFresh.
THEOREM RepeatedFailureIsShown == Spec => []RepeatedFailureShows
<1>1. Inv => RepeatedFailureShows
  <2> SUFFICES ASSUME Inv, st.active = 0, streak >= 2
               PROVE  IndexStale(st) /\ Escalated(st) /\ ~FreshToWaiter(st)
    BY DEF RepeatedFailureShows, Answer
  <2>1. st.stale /\ st.lastError /\ st.failures >= 2
    BY DEF Inv, FailureInv, TypeOK, RepoState
  <2> QED
    BY <2>1 DEF IndexStale, Escalated, FreshToWaiter, Inv, TypeOK, RepoState
<1> QED
  BY <1>1, InvHolds, PTL

\* wait_for_fresh answers "fresh" only over a settled repository with less than two
\* failures in a row.
THEOREM FreshIsSettled == Spec => FreshMeansSettled
<1> DEFINE Settled == \A w \in Waiters : Wake(w) /\ wait'[w].snapshot = "fresh" =>
                          Marked = {} /\ streak < 2
<1>1. Inv /\ [Next]_vars => [Settled]_vars
  <2> SUFFICES ASSUME Inv, NEW w \in Waiters, Wake(w), wait'[w].snapshot = "fresh"
               PROVE  Marked = {} /\ streak < 2
    OBVIOUS
  <2>1. FreshToWaiter(st)
    BY DEF Inv, TypeOK, Wait, Wake, Replies, Answer
  <2>2. st.active = 0
    BY <2>1 DEF FreshToWaiter, Inv, ChannelInv, TypeOK, RepoState
  <2>3. Cardinality(Marked) = 0
    BY <2>2, MarkedFinite DEF Inv, TypeOK, ActiveIsCounted
  <2>4. Marked = {}
    BY <2>3, MarkedFinite, FS_EmptySet
  <2>5. streak < 2
    BY <2>1, <2>2 DEF FreshToWaiter, IndexStale, Inv, FailureInv, TypeOK, RepoState
  <2> QED
    BY <2>4, <2>5
<1> QED
  BY <1>1, InvHolds, PTL DEF Spec, FreshMeansSettled
-----------------------------------------------------------------------------
(* A run of index_repo: RemoteSync. *)

Stages == {"idle", "ignore", "list", "fetch", "save", "vectors", "save again"}

\* What an index says of its files is so, but for the suspect ones; and its blobs are those
\* of its files.
Sound(index) ==
  /\ index.there \in BOOLEAN
  /\ index.files \in [Sources -> Texts \cup {NoHash}]
  /\ index.basis.tree.files \in [Sources -> Contents]
  /\ \A p \in Sources \ index.suspect : index.files[p] = IndexOf(index.basis)[p]
  /\ \A p \in Sources \ index.suspect : \A c \in Contents :
       index.blobs[p] = Git(c) => index.files[p] = c
  /\ HasBlobs(index) => \A p \in Sources \ index.suspect :
                          index.blobs[p] = NoBlob => index.files[p] = NoHash
  /\ \A tree \in Trees : index.head = <<"tree", tree>> =>
                           index.basis.tree = tree /\ index.basis.listed

RemoteTypes ==
  /\ remote \in Trees /\ asof \in Trees /\ at \in Stages
  /\ ignore \subseteq Sources /\ bad \subseteq Sources
  /\ plan \subseteq Sources /\ todo \subseteq plan
  /\ got \in [Sources -> Contents] /\ listed \in BOOLEAN /\ cancelled \in BOOLEAN

IndexesSound == Sound(repoIndex) /\ Sound(old) /\ Sound(mem)

\* What has been fetched is what the metadata lists, or the path is known to be bad.
Arrived(p) == got[p] = IF asof.files[p] = "empty" THEN "absent" ELSE asof.files[p]
FetchInv ==
  at = "fetch" =>
    /\ listed = old.there
    /\ plan = IF listed THEN FetchPaths(old, asof, ignore)
              ELSE {p \in Sources : asof.files[p] # "absent"}
    /\ \A p \in Sources \ plan : got[p] = "absent"
    /\ ~cancelled => \A p \in plan \ (todo \cup bad) : Arrived(p)

NothingYet == at \in {"ignore", "list"} => \A p \in Sources : got[p] = "absent"

UpsertInv == at \in {"save", "vectors", "save again"} => Missing = {}

RemoteInv ==
  RemoteTypes /\ IndexesSound /\ NothingYet /\ FetchInv /\ UpsertInv /\ NoChangesIsTrue
-----------------------------------------------------------------------------
(* Facts about the helpers. *)
LEMMA BlobFacts ==
  /\ \A c, d : Git(c) = Git(d) => c = d
  /\ \A c, d : Git(c) # Sum(d)
  /\ \A c : Git(c) # NoBlob /\ Sum(c) # NoBlob
BY DEF Git, Sum, NoBlob

LEMMA ContentFacts ==
  /\ Texts \subseteq Contents /\ NoHash \notin Contents
  /\ \A t \in Trees : t.files \in [Sources -> Contents] /\ t.ignore \subseteq Sources
  /\ {"binary", "large", "empty", "absent"} \subseteq Contents
  /\ Texts \cap {"binary", "large", "empty", "absent"} = {}
<1>1. NoHash \notin Contents
  BY RemoteAssumption DEF Contents, NoHash
<1>2. \A t \in Trees : t.files \in [Sources -> Contents] /\ t.ignore \subseteq Sources
  BY RemoteAssumption
<1> QED
  BY <1>1, <1>2, RemoteAssumption DEF Contents

LEMMA FirstWithin == \A paths : First(paths) \subseteq paths
BY DEF First

\* No part of what is within the limit is cut off.
LEMMA FirstOfFew ==
  ASSUME NEW some, NEW paths \in SUBSET Sources, some \subseteq First(paths)
  PROVE  First(some) = some
<1> SUFFICES ASSUME NEW p \in some
             PROVE  Cardinality({q \in some : q < p}) < MaxIndexFiles
  BY DEF First
<1> DEFINE fewer == {q \in some : q < p}
           more == {q \in paths : q < p}
<1>1. some \subseteq paths
  BY FirstWithin
<1>2. IsFiniteSet(more)
  <2>1. more \subseteq Sources
    BY DEF more
  <2> QED
    BY <2>1, RemoteAssumption, FS_Subset
<1>3. fewer \subseteq more
  BY <1>1
<1>4. Cardinality(more) < MaxIndexFiles
  BY DEF First
<1>5. /\ Cardinality(fewer) \in Nat /\ Cardinality(more) \in Nat
      /\ Cardinality(fewer) <= Cardinality(more)
  BY <1>2, <1>3, FS_Subset, FS_CardinalityType
<1> HIDE DEF fewer, more
<1>6. Cardinality(fewer) < MaxIndexFiles
  <2> DEFINE m == Cardinality(fewer)
             n == Cardinality(more)
  <2>1. m \in Nat /\ n \in Nat /\ m <= n /\ n < MaxIndexFiles /\ MaxIndexFiles \in Nat
    BY <1>4, <1>5, RemoteAssumption
  <2> HIDE DEF m, n
  <2>2. m < MaxIndexFiles
    BY <2>1
  <2> QED
    BY <2>2 DEF m
<1> QED
  BY <1>6, Zenon DEF fewer

LEMMA EmptySound == Sound(NoIndex)
<1> DEFINE basis == [tree |-> [files |-> Nothing, ignore |-> {}], ignore |-> {}, listed |-> FALSE]
<1>1. /\ NoIndex.files = [p \in Sources |-> NoHash] /\ NoIndex.blobs = [p \in Sources |-> NoBlob]
      /\ NoIndex.there = FALSE /\ NoIndex.basis = basis /\ NoIndex.head = <<"none", "none">> /\ NoIndex.suspect = {}
  BY DEF NoIndex
<1>2. basis.tree.files = Nothing /\ basis.ignore = {} /\ basis.listed = FALSE
  OBVIOUS
<1>3. Readable(Nothing, {}) = {}
  BY ContentFacts DEF Readable, Nothing
<1>4. \A p \in Sources : IndexOf(basis)[p] = NoHash
  <2>1. Discovered(Nothing, {}) = {}
    BY <1>3, FirstWithin DEF Discovered
  <2> QED
    BY <1>2, <2>1 DEF IndexOf
<1>5. basis.tree.files \in [Sources -> Contents]
  BY <1>2, ContentFacts DEF Nothing
<1> HIDE DEF basis
<1>6. \A p \in Sources : NoIndex.blobs[p] = NoBlob /\ NoIndex.files[p] = NoHash
  BY <1>1
<1>7. \A p \in Sources : \A c \in Contents : NoIndex.blobs[p] # Git(c)
  BY <1>6, BlobFacts
<1>8. \A tree : NoIndex.head # <<"tree", tree>>
  BY <1>1
<1>9. NoIndex.files \in [Sources -> Texts \cup {NoHash}]
  BY <1>1
<1> QED
  BY <1>1, <1>4, <1>5, <1>6, <1>7, <1>8, <1>9 DEF Sound
-----------------------------------------------------------------------------
(* The index a run has put together when its fetches are over. *)
Result == LET files == Merged
              blobs == MergedBlobs(files) IN
  Index(files, blobs, IF listed THEN <<"tree", asof>> ELSE <<"sum", blobs>>,
        [tree |-> asof, ignore |-> ignore, listed |-> listed], Suspect)

\* Of the files listed those that are not bad have arrived, and no other.
LEMMA AllArrived ==
  ASSUME RemoteInv, at = "fetch", todo = {}, ~Stopped
  PROVE  /\ \A p \in plan \ bad : Arrived(p)
         /\ \A p \in Sources \ plan : got[p] = "absent"
         /\ Discovered(got, ignore) \subseteq plan
         /\ listed => plan \subseteq Candidates(asof, ignore)
         /\ listed => Kept \subseteq Candidates(asof, ignore) \ plan
         /\ ~listed => Kept = {}
<1>1. plan # {} => ~cancelled
  BY DEF Stopped
<1>2. \A p \in plan \ bad : Arrived(p)
  BY <1>1 DEF RemoteInv, FetchInv
<1>3. \A p \in Sources \ plan : got[p] = "absent"
  BY DEF RemoteInv, FetchInv
<1>4. \A p \in Discovered(got, ignore) : p \in Sources /\ got[p] \in Texts
  BY FirstWithin DEF Discovered, Readable
<1>5. Discovered(got, ignore) \subseteq plan
  BY <1>3, <1>4, ContentFacts
<1>6. listed => plan \subseteq Candidates(asof, ignore)
  BY DEF RemoteInv, FetchInv, FetchPaths
<1> QED
  BY <1>2, <1>3, <1>5, <1>6 DEF Kept

\* A file that was not fetched again has its text: the blob has not changed.
LEMMA KeptAgree ==
  ASSUME RemoteInv, at = "fetch", NEW p \in Kept
  PROVE  /\ listed /\ HasBlobs(old) /\ old.blobs[p] = Git(asof.files[p])
         /\ old.files[p] \in Texts
         /\ p \notin old.suspect => old.files[p] = asof.files[p]
<1>1. listed /\ p \in Candidates(asof, ignore) /\ p \notin plan /\ p \in Sources
  BY FirstWithin DEF Kept, Candidates, Named
<1>2. plan = FetchPaths(old, asof, ignore)
  BY <1>1 DEF RemoteInv, FetchInv
<1>3. HasBlobs(old)
  BY <1>1, <1>2 DEF FetchPaths
<1>4. MetadataBlobs(asof, ignore)[p] = old.blobs[p] /\ old.files[p] # NoHash
  BY <1>1, <1>2, <1>3 DEF FetchPaths
<1>5. old.blobs[p] = Git(asof.files[p])
  BY <1>1, <1>4 DEF MetadataBlobs
<1>6. old.files[p] \in Texts
  BY <1>1, <1>4 DEF RemoteInv, IndexesSound, Sound
<1>7. asof.files[p] \in Contents
  BY <1>1, ContentFacts DEF RemoteInv, RemoteTypes
<1>8. p \notin old.suspect => old.files[p] = asof.files[p]
  BY <1>1, <1>5, <1>7 DEF RemoteInv, IndexesSound, Sound
<1> QED
  BY <1>1, <1>3, <1>5, <1>6, <1>8

LEMMA ResultFields ==
  /\ Result.there = TRUE /\ Result.files = Merged /\ Result.blobs = MergedBlobs(Merged)
  /\ Result.basis.tree = asof /\ Result.basis.ignore = ignore /\ Result.basis.listed = listed
  /\ Result.basis = [tree |-> asof, ignore |-> ignore, listed |-> listed]
  /\ Result.suspect = Suspect
  /\ Result.head = IF listed THEN <<"tree", asof>> ELSE <<"sum", MergedBlobs(Merged)>>
BY DEF Result, Index

LEMMA MergedTypes ==
  ASSUME RemoteInv, at = "fetch"
  PROVE  Merged \in [Sources -> Texts \cup {NoHash}]
<1>1. \A p \in Discovered(got, ignore) : got[p] \in Texts
  BY FirstWithin DEF Discovered, Readable
<1>2. \A p \in Kept : old.files[p] \in Texts
  BY KeptAgree
<1> QED
  BY <1>1, <1>2 DEF Merged

\* The two shapes of IndexOf, for the tree of this run.
LEMMA IndexOfRun ==
  ASSUME NEW basis, basis.tree = asof, basis.ignore = ignore, basis.listed = listed
  PROVE  \A p \in Sources :
           IndexOf(basis)[p] =
             IF p \in (IF listed THEN Candidates(asof, ignore) \cap Readable(asof.files, ignore)
                       ELSE Discovered(asof.files, ignore))
             THEN asof.files[p] ELSE NoHash
BY DEF IndexOf

\* A run with a listing agrees with its tree, but for the suspect files.
LEMMA ListedAgrees ==
  ASSUME RemoteInv, at = "fetch", todo = {}, ~Stopped, listed,
         NEW p \in Sources \ Suspect
  PROVE  Merged[p] = IndexOf(Result.basis)[p]
<1> DEFINE found == Discovered(got, ignore)
           candidates == Candidates(asof, ignore)
<1>1. p \notin bad /\ (p \in Kept => p \notin old.suspect) /\ p \in Sources
  BY DEF Suspect
<1>2. found = Readable(got, ignore)
  <2>1. Readable(got, ignore) \subseteq plan
    BY AllArrived, ContentFacts DEF Readable
  <2>2. Named(asof, ignore) \in SUBSET Sources
    BY DEF Named
  <2>3. Readable(got, ignore) \subseteq First(Named(asof, ignore))
    BY <2>1, AllArrived DEF Candidates
  <2> QED
    BY <2>2, <2>3, FirstOfFew DEF Discovered
<1>3. IndexOf(Result.basis)[p] =
        IF p \in candidates /\ p \in Readable(asof.files, ignore) THEN asof.files[p] ELSE NoHash
  BY <1>1, IndexOfRun, ResultFields
<1>4. /\ found \subseteq plan /\ plan \subseteq candidates /\ Kept \subseteq candidates \ plan
      /\ (p \in plan => Arrived(p))
  BY <1>1, AllArrived
<1>5. p \in candidates => p \notin Secrets \cup ignore
  BY FirstWithin DEF Candidates, Named
<1> HIDE DEF found, candidates
<1>6. Merged[p] = IF p \in found THEN got[p] ELSE IF p \in Kept THEN old.files[p] ELSE NoHash
  BY <1>1 DEF Merged, found
<1>7. CASE p \in plan
  <2>1. p \notin Kept /\ p \in candidates /\ Arrived(p)
    BY <1>4, <1>7
  <2>2. got[p] \in Texts <=> asof.files[p] \in Texts
    BY <2>1, ContentFacts DEF Arrived
  <2>3. got[p] \in Texts => got[p] = asof.files[p]
    BY <2>1, ContentFacts DEF Arrived
  <2>4. p \in found <=> got[p] \in Texts
    BY <1>1, <1>2, <1>5, <2>1 DEF Readable
  <2>5. p \in Readable(asof.files, ignore) <=> asof.files[p] \in Texts
    BY <1>1, <1>5, <2>1 DEF Readable
  <2> QED
    BY <1>3, <1>6, <2>1, <2>2, <2>3, <2>4, <2>5
<1>8. CASE p \in Kept
  <2>1. old.files[p] = asof.files[p] /\ old.files[p] \in Texts
    BY <1>1, <1>8, KeptAgree
  <2>2. p \in candidates /\ p \notin found
    BY <1>4, <1>8
  <2>3. p \in Readable(asof.files, ignore)
    BY <1>1, <1>5, <2>1, <2>2 DEF Readable
  <2> QED
    BY <1>3, <1>6, <1>8, <2>1, <2>2, <2>3
<1>9. CASE p \notin plan /\ p \notin Kept
  <2>1. p \notin candidates
    BY <1>9 DEF Kept, candidates
  <2>2. p \notin found
    BY <1>4, <1>9
  <2> QED
    BY <1>3, <1>6, <1>9, <2>1, <2>2
<1> QED
  BY <1>7, <1>8, <1>9

\* So does a run that has fetched the whole tree.
LEMMA FullAgrees ==
  ASSUME RemoteInv, at = "fetch", todo = {}, ~Stopped, ~listed,
         NEW p \in Sources \ Suspect
  PROVE  Merged[p] = IndexOf(Result.basis)[p]
<1>1. /\ Kept = {} /\ p \in Sources
      /\ Merged[p] = IF p \in Discovered(got, ignore) THEN got[p] ELSE NoHash
  BY AllArrived DEF Merged
<1>2. IndexOf(Result.basis)[p] =
        IF p \in Discovered(asof.files, ignore) THEN asof.files[p] ELSE NoHash
  BY <1>1, IndexOfRun, ResultFields
<1>3. \A q \in Sources \ bad : /\ got[q] \in Texts <=> asof.files[q] \in Texts
                               /\ got[q] \in Texts => got[q] = asof.files[q]
  <2> SUFFICES ASSUME NEW q \in Sources \ bad
               PROVE  /\ got[q] \in Texts <=> asof.files[q] \in Texts
                      /\ got[q] \in Texts => got[q] = asof.files[q]
    OBVIOUS
  <2>1. CASE q \in plan
    <3>1. Arrived(q)
      BY <2>1, AllArrived
    <3> QED
      BY <3>1, ContentFacts DEF Arrived
  <2>2. CASE q \notin plan
    <3>1. got[q] = "absent" /\ asof.files[q] = "absent"
      BY <2>2, AllArrived DEF RemoteInv, FetchInv
    <3> QED
      BY <3>1, ContentFacts
  <2> QED
    BY <2>1, <2>2
<1>4. CASE bad = {}
  <2>1. Readable(got, ignore) = Readable(asof.files, ignore)
    BY <1>3, <1>4 DEF Readable
  <2> QED
    BY <1>1, <1>2, <1>3, <1>4, <2>1, FirstWithin DEF Discovered, Readable
<1>5. CASE bad # {}
  <2>1. Readable(got, ignore) = Discovered(got, ignore)
        /\ Readable(asof.files, ignore) = Discovered(asof.files, ignore) /\ p \notin bad
    BY <1>5 DEF Suspect, Limited
  <2> QED
    BY <1>1, <1>2, <1>3, <2>1 DEF Readable
<1> QED
  BY <1>4, <1>5

LEMMA ResultSound ==
  ASSUME RemoteInv, at = "fetch", todo = {}, ~Stopped
  PROVE  Sound(Result)
<1>1. Result.files \in [Sources -> Texts \cup {NoHash}]
  BY MergedTypes, ResultFields
<1>2. \A p \in Sources \ Result.suspect : Result.files[p] = IndexOf(Result.basis)[p]
  BY ListedAgrees, FullAgrees, ResultFields
<1>3. \A p \in Sources : Result.blobs[p] = IF Result.files[p] = NoHash THEN NoBlob
                                           ELSE IF listed THEN Git(asof.files[p])
                                           ELSE Sum(Result.files[p])
  BY ResultFields DEF MergedBlobs
<1>4. ASSUME NEW p \in Sources \ Result.suspect, NEW c \in Contents, Result.blobs[p] = Git(c)
      PROVE  Result.files[p] = c
  <2>1. listed /\ Result.files[p] # NoHash /\ asof.files[p] = c
    BY <1>3, <1>4, BlobFacts
  <2>2. Result.files[p] \in {asof.files[p], NoHash}
    BY <1>2, <1>4, IndexOfRun, ResultFields
  <2> QED
    BY <2>1, <2>2
<1>5. \A p \in Sources : Result.blobs[p] = NoBlob => Result.files[p] = NoHash
  BY <1>3, BlobFacts
<1>6. \A tree \in Trees : Result.head = <<"tree", tree>> =>
                            Result.basis.tree = tree /\ Result.basis.listed
  BY ResultFields
<1>7. Result.basis.tree.files \in [Sources -> Contents]
  BY ResultFields, ContentFacts DEF RemoteInv, RemoteTypes
<1> QED
  BY <1>1, <1>2, <1>4, <1>5, <1>6, <1>7, ResultFields DEF Sound

\* What a run would send to the vector store has been fetched.
LEMMA ResultFetched ==
  ASSUME RemoteInv, at = "fetch", todo = {}, ~Stopped,
         NEW p \in Changes(old, Result.files, Result.blobs), Result.blobs[p] # NoBlob
  PROVE  got[p] # "absent"
<1>1. p \in Sources
  BY DEF Changes
<1>2. Result.files[p] # NoHash
  BY <1>1, ResultFields DEF MergedBlobs
<1>3. p \in Discovered(got, ignore) \/ p \in Kept
  BY <1>1, <1>2, ResultFields DEF Merged
<1>4. CASE p \in Discovered(got, ignore)
  BY <1>4, FirstWithin, ContentFacts DEF Discovered, Readable
<1>5. CASE p \in Kept
  <2>1. HasBlobs(old) /\ old.blobs[p] = Git(asof.files[p]) /\ listed
    BY <1>5, KeptAgree
  <2>2. Result.blobs[p] = Git(asof.files[p])
    BY <1>1, <1>2, <2>1, ResultFields DEF MergedBlobs
  <2>3. p \notin Changes(old, Result.files, Result.blobs)
    BY <2>1, <2>2 DEF Changes
  <2> QED
    BY <2>3
<1> QED
  BY <1>3, <1>4, <1>5
-----------------------------------------------------------------------------
(* What a run compares when it answers that nothing has changed. *)
ByName(tree, ignored) == [tree |-> tree, ignore |-> ignored, listed |-> TRUE]

LEMMA IndexByName ==
  ASSUME NEW tree, NEW ignored, NEW p \in Sources
  PROVE  IndexOf(ByName(tree, ignored))[p] =
           IF p \in Candidates(tree, ignored) /\ p \in Readable(tree.files, ignored)
           THEN tree.files[p] ELSE NoHash
BY DEF IndexOf, ByName

LEMMA SameHead ==
  ASSUME NEW index, Sound(index), NEW tree \in Trees, index.head = <<"tree", tree>>,
         NEW p \in Sources \ index.suspect
  PROVE  index.files[p] = IndexOf(ByName(tree, index.basis.ignore))[p]
<1>1. index.basis.tree = tree /\ index.basis.listed
  BY DEF Sound
<1>2. index.files[p] = IndexOf(index.basis)[p]
  BY DEF Sound
<1>3. IndexOf(index.basis)[p] =
        IF p \in Candidates(tree, index.basis.ignore) \cap Readable(tree.files, index.basis.ignore)
        THEN tree.files[p] ELSE NoHash
  BY <1>1 DEF IndexOf
<1> QED
  BY <1>2, <1>3, IndexByName

LEMMA SameBlobs ==
  ASSUME Sound(old), HasBlobs(old), old.blobs = MetadataBlobs(remote, ignore),
         remote \in Trees, NEW p \in Sources \ old.suspect
  PROVE  old.files[p] = IndexOf(ByName(remote, ignore))[p]
<1>1. old.blobs[p] = IF p \in Candidates(remote, ignore) THEN Git(remote.files[p]) ELSE NoBlob
  BY DEF MetadataBlobs
<1>2. CASE p \in Candidates(remote, ignore)
  <2>1. remote.files[p] \in Contents /\ old.files[p] \in Texts \cup {NoHash}
    BY ContentFacts DEF Sound
  <2>2. old.files[p] = remote.files[p]
    BY <1>1, <1>2, <2>1 DEF Sound
  <2>3. remote.files[p] \in Texts
    BY <2>1, <2>2, ContentFacts
  <2>4. p \in Readable(remote.files, ignore)
    BY <1>2, <2>3, FirstWithin DEF Readable, Candidates, Named
  <2> QED
    BY <1>2, <2>2, <2>4, IndexByName
<1>3. CASE p \notin Candidates(remote, ignore)
  BY <1>1, <1>3, IndexByName DEF Sound
<1> QED
  BY <1>2, <1>3

LEMMA SameResult ==
  ASSUME RemoteInv, at = "fetch", todo = {}, ~Stopped, old.there,
         Changes(old, Result.files, Result.blobs) = {},
         NEW p \in Sources \ (old.suspect \cup bad)
  PROVE  old.files[p] = IndexOf(ByName(asof, ignore))[p]
<1>1. listed /\ p \in Sources \ Suspect /\ p \in Sources \ old.suspect
  BY DEF RemoteInv, FetchInv, Suspect
<1>2. Result.files[p] = IndexOf(ByName(asof, ignore))[p]
  BY <1>1, ListedAgrees, ResultFields DEF ByName
<1>3. CASE HasBlobs(old)
  <2>1. Result.blobs[p] = old.blobs[p]
    BY <1>1, <1>3 DEF Changes
  <2>2. Result.blobs[p] = IF Result.files[p] = NoHash THEN NoBlob ELSE Git(asof.files[p])
    BY <1>1, ResultFields DEF MergedBlobs
  <2>3. CASE Result.files[p] = NoHash
    BY <1>1, <1>2, <1>3, <2>1, <2>2, <2>3 DEF RemoteInv, IndexesSound, Sound
  <2>4. CASE Result.files[p] # NoHash
    <3>1. Result.files[p] = asof.files[p]
      BY <1>1, <1>2, <2>4, IndexByName
    <3>2. asof.files[p] \in Contents
      BY <1>1, ContentFacts DEF RemoteInv, RemoteTypes
    <3>3. old.files[p] = asof.files[p]
      <4>1. old.blobs[p] = Git(asof.files[p])
        BY <2>1, <2>2, <2>4
      <4>2. \A c \in Contents : old.blobs[p] = Git(c) => old.files[p] = c
        BY <1>1 DEF RemoteInv, IndexesSound, Sound
      <4> QED
        BY <3>2, <4>1, <4>2
    <3> QED
      BY <1>2, <3>1, <3>3
  <2> QED
    BY <2>3, <2>4
<1>4. CASE ~HasBlobs(old)
  BY <1>1, <1>2, <1>4 DEF Changes
<1> QED
  BY <1>3, <1>4
-----------------------------------------------------------------------------
(* The initial states. *)
LEMMA WithoutBlobsSound ==
  ASSUME NEW tree \in Trees
  PROVE  Sound(WithoutBlobs(tree))
<1> DEFINE index == WithoutBlobs(tree)
<1>1. /\ index.files = [p \in Sources |-> IF p \in Discovered(tree.files, {}) THEN tree.files[p]
                                          ELSE NoHash]
      /\ index.blobs = [p \in Sources |-> NoBlob] /\ index.head = <<"stale", "stale">>
      /\ index.basis = [tree |-> tree, ignore |-> {}, listed |-> FALSE] /\ index.suspect = {}
      /\ index.there = TRUE
  BY DEF WithoutBlobs, Index
<1> HIDE DEF index
<1>2. \A p \in Discovered(tree.files, {}) : tree.files[p] \in Texts
  BY FirstWithin DEF Discovered, Readable
<1>3. index.files \in [Sources -> Texts \cup {NoHash}]
  BY <1>1, <1>2
<1>4. \A p \in Sources : index.files[p] = IndexOf(index.basis)[p]
  BY <1>1 DEF IndexOf
<1>5. \A p \in Sources : index.blobs[p] = NoBlob
  BY <1>1
<1>6. ~HasBlobs(index) /\ \A p \in Sources : \A c \in Contents : index.blobs[p] # Git(c)
  BY <1>5, BlobFacts DEF HasBlobs
<1>7. index.basis.tree.files \in [Sources -> Contents]
  BY <1>1, ContentFacts
<1>8. \A t \in Trees : index.head # <<"tree", t>>
  BY <1>1
<1>9. Sound(index)
  BY <1>1, <1>3, <1>4, <1>6, <1>7, <1>8 DEF Sound
<1> QED
  BY <1>9 DEF index

LEMMA WithoutHashSound ==
  ASSUME NEW tree \in Trees, NEW path \in Sources
  PROVE  Sound(WithoutHash(tree, path))
<1> DEFINE index == WithoutHash(tree, path)
           found == {p \in Candidates(tree, {}) : tree.files[p] \in Texts}
<1>1. /\ index.files = [p \in Sources |-> IF p \in found \ {path} THEN tree.files[p] ELSE NoHash]
      /\ index.blobs = [p \in Sources |-> IF p \in found THEN Git(tree.files[p]) ELSE NoBlob]
      /\ index.head = <<"stale", "stale">>
      /\ index.basis = [tree |-> tree, ignore |-> {}, listed |-> TRUE] /\ index.suspect = {path}
      /\ index.there = TRUE
  BY DEF WithoutHash, Index
<1> HIDE DEF index
<1>2. \A p \in Sources : p \in found <=> p \in Candidates(tree, {}) \cap Readable(tree.files, {})
  BY FirstWithin DEF Candidates, Named, Readable
<1>3. index.files \in [Sources -> Texts \cup {NoHash}]
  BY <1>1
<1>4. \A p \in Sources \ {path} : index.files[p] = IndexOf(index.basis)[p]
  <2>1. \A p \in Sources : IndexOf(index.basis)[p] =
          IF p \in Candidates(tree, {}) \cap Readable(tree.files, {}) THEN tree.files[p] ELSE NoHash
    BY <1>1 DEF IndexOf
  <2> HIDE DEF found
  <2> QED
    BY <1>1, <1>2, <2>1
<1> HIDE DEF found
<1>5. \A p \in Sources \ {path} : \A c \in Contents :
        index.blobs[p] = Git(c) => index.files[p] = c
  BY <1>1, BlobFacts
<1>6. \A p \in Sources \ {path} : index.blobs[p] = NoBlob => index.files[p] = NoHash
  BY <1>1, BlobFacts
<1>7. index.basis.tree.files \in [Sources -> Contents]
  BY <1>1, ContentFacts
<1>8. \A t \in Trees : index.head # <<"tree", t>>
  BY <1>1
<1>9. Sound(index)
  BY <1>1, <1>3, <1>4, <1>5, <1>6, <1>7, <1>8 DEF Sound
<1> QED
  BY <1>9 DEF index

LEMMA InitHolds == RemoteInit => RemoteInv
<1> SUFFICES ASSUME RemoteInit PROVE RemoteInv
  OBVIOUS
<1>1. RemoteTypes
  BY ContentFacts DEF RemoteInit, RemoteTypes, Stages, Nothing
<1>2. Sound(repoIndex)
  BY EmptySound, WithoutBlobsSound, WithoutHashSound DEF RemoteInit
<1>3. IndexesSound
  BY <1>2, EmptySound DEF RemoteInit, IndexesSound
<1>4. NothingYet /\ FetchInv /\ UpsertInv /\ NoChangesIsTrue
  BY DEF RemoteInit, NothingYet, FetchInv, UpsertInv, NoChangesIsTrue
<1> QED
  BY <1>1, <1>3, <1>4 DEF RemoteInv
-----------------------------------------------------------------------------
(* The steps. *)
LEMMA StartRepoHolds == RemoteInv /\ StartRepo => RemoteInv'
<1> SUFFICES ASSUME RemoteInv, StartRepo PROVE RemoteInv'
  OBVIOUS
<1>1. RemoteTypes'
  <2>1. ignore' \subseteq Sources
    BY RemoteAssumption DEF StartRepo
  <2> QED
    BY <2>1, ContentFacts DEF StartRepo, Step, Finish, RemoteInv, RemoteTypes, Stages, Nothing
<1>2. IndexesSound'
  <2>1. repoIndex' = repoIndex /\ old' \in {repoIndex, NoIndex} /\ mem' = NoIndex
    BY DEF StartRepo
  <2>2. Sound(repoIndex') /\ Sound(old') /\ Sound(mem')
    BY <2>1, EmptySound DEF RemoteInv, IndexesSound
  <2> QED
    BY <2>2 DEF IndexesSound
<1>3. FetchInv' /\ UpsertInv' /\ NoChangesIsTrue'
  BY DEF StartRepo, Step, Finish, FetchInv, UpsertInv, NoChangesIsTrue
<1>4. NothingYet'
  BY DEF StartRepo, NothingYet, Nothing
<1> QED
  BY <1>1, <1>2, <1>3, <1>4 DEF RemoteInv

LEMMA ReadGitignoreHolds == RemoteInv /\ ReadGitignore => RemoteInv'
<1> SUFFICES ASSUME RemoteInv, ReadGitignore PROVE RemoteInv'
  OBVIOUS
<1>1. RemoteTypes'
  BY ContentFacts DEF ReadGitignore, RequestFails, Step, RemoteInv, RemoteTypes, Stages
<1>2. IndexesSound'
  <2>1. repoIndex' = repoIndex /\ old' = old /\ mem' = mem
    BY DEF ReadGitignore, RequestFails
  <2>2. Sound(repoIndex') /\ Sound(old') /\ Sound(mem')
    BY <2>1 DEF RemoteInv, IndexesSound
  <2> QED
    BY <2>2 DEF IndexesSound
<1>3. FetchInv' /\ UpsertInv' /\ NoChangesIsTrue'
  BY DEF ReadGitignore, RequestFails, Step, FetchInv, UpsertInv, NoChangesIsTrue
<1>4. NothingYet'
  BY DEF ReadGitignore, RequestFails, RemoteInv, NothingYet
<1> QED
  BY <1>1, <1>2, <1>3, <1>4 DEF RemoteInv

LEMMA EndContextHolds == RemoteInv /\ EndContext => RemoteInv'
<1> SUFFICES ASSUME RemoteInv, EndContext PROVE RemoteInv'
  OBVIOUS
<1>1. /\ cancelled' /\ cancelled' \in BOOLEAN
      /\ UNCHANGED <<remote, repoIndex, at, old, ignore, asof, listed, plan, todo, got, failed,
                     bad, mem, answer>>
  BY DEF EndContext, fetchVars
<1>2. RemoteTypes'
  BY <1>1 DEF RemoteInv, RemoteTypes
<1>3. IndexesSound'
  <2>1. Sound(repoIndex') /\ Sound(old') /\ Sound(mem')
    BY <1>1 DEF RemoteInv, IndexesSound
  <2> QED
    BY <2>1 DEF IndexesSound
<1>4. NothingYet' /\ FetchInv'
  BY <1>1 DEF RemoteInv, NothingYet, FetchInv
<1>5. UpsertInv' /\ NoChangesIsTrue'
  BY <1>1 DEF EndContext, RemoteInv, UpsertInv, NoChangesIsTrue, Missing, Upserts
<1> QED
  BY <1>2, <1>3, <1>4, <1>5 DEF RemoteInv

LEMMA PushHolds == RemoteInv /\ Push => RemoteInv'
<1> SUFFICES ASSUME RemoteInv, Push PROVE RemoteInv'
  OBVIOUS
<1>1. /\ remote' \in Trees
      /\ UNCHANGED <<repoIndex, at, old, ignore, asof, listed, plan, todo, got, failed,
                     cancelled, bad, mem, answer>>
  BY DEF Push, fetchVars
<1>2. RemoteTypes'
  BY <1>1 DEF RemoteInv, RemoteTypes
<1>3. IndexesSound'
  <2>1. Sound(repoIndex') /\ Sound(old') /\ Sound(mem')
    BY <1>1 DEF RemoteInv, IndexesSound
  <2> QED
    BY <2>1 DEF IndexesSound
<1>4. NothingYet' /\ FetchInv'
  BY <1>1 DEF RemoteInv, NothingYet, FetchInv, Arrived
<1>5. UpsertInv' /\ NoChangesIsTrue'
  BY <1>1 DEF RemoteInv, UpsertInv, NoChangesIsTrue, Missing, Upserts
<1> QED
  BY <1>2, <1>3, <1>4, <1>5 DEF RemoteInv

LEMMA InvalidateHolds == RemoteInv /\ Invalidate => RemoteInv'
<1> SUFFICES ASSUME RemoteInv, Invalidate PROVE RemoteInv'
  OBVIOUS
<1>1. /\ repoIndex' = NoIndex
      /\ UNCHANGED <<remote, at, old, ignore, asof, listed, plan, todo, got, failed,
                     cancelled, bad, mem, answer>>
  BY DEF Invalidate, fetchVars
<1>2. RemoteTypes'
  BY <1>1 DEF RemoteInv, RemoteTypes
<1>3. IndexesSound'
  <2>1. Sound(repoIndex') /\ Sound(old') /\ Sound(mem')
    BY <1>1, EmptySound DEF RemoteInv, IndexesSound
  <2> QED
    BY <2>1 DEF IndexesSound
<1>4. NothingYet' /\ FetchInv'
  BY <1>1 DEF RemoteInv, NothingYet, FetchInv, Arrived
<1>5. UpsertInv' /\ NoChangesIsTrue'
  BY <1>1 DEF RemoteInv, UpsertInv, NoChangesIsTrue, Missing, Upserts
<1> QED
  BY <1>2, <1>3, <1>4, <1>5 DEF RemoteInv

\* The saves and the synchronisation: what they share.
LEMMA SavesHold == RemoteInv /\ (SaveRepo \/ SyncVectors \/ SaveAgain) => RemoteInv'
<1> SUFFICES ASSUME RemoteInv, SaveRepo \/ SyncVectors \/ SaveAgain PROVE RemoteInv'
  OBVIOUS
<1>1. /\ repoIndex' \in {repoIndex, mem} /\ at \in {"save", "vectors", "save again"}
      /\ at' \in {"idle", "vectors", "save again"}
      /\ UNCHANGED <<remote, old, ignore, asof, listed, plan, todo, got, failed, cancelled,
                     bad, mem>>
  BY DEF SaveRepo, SyncVectors, SaveAgain, SaveFails, Step, Finish, fetchVars
<1>2. at' = "idle" => answer' # "no changes"
  BY DEF SaveRepo, SyncVectors, SaveAgain, SaveFails, Step, Finish
<1>3. RemoteTypes'
  BY <1>1 DEF RemoteInv, RemoteTypes, Stages
<1>4. IndexesSound'
  <2>1. Sound(repoIndex') /\ Sound(old') /\ Sound(mem')
    BY <1>1 DEF RemoteInv, IndexesSound
  <2> QED
    BY <2>1 DEF IndexesSound
<1>5. UpsertInv'
  BY <1>1 DEF RemoteInv, UpsertInv, Missing, Upserts
<1>6. NothingYet' /\ FetchInv' /\ NoChangesIsTrue'
  BY <1>1, <1>2 DEF NothingYet, FetchInv, NoChangesIsTrue
<1> QED
  BY <1>3, <1>4, <1>5, <1>6 DEF RemoteInv

LEMMA FetchFileHolds == ASSUME RemoteInv, NEW q \in Sources, FetchFile(q) PROVE RemoteInv'
<1>1. /\ at = "fetch" /\ q \in todo /\ todo' = todo \ {q}
      /\ UNCHANGED <<remote, repoIndex, at, old, ignore, asof, listed, plan, cancelled, mem>>
  BY DEF FetchFile, Content
<1>2. RemoteTypes'
  <2>1. bad' \subseteq Sources
    BY DEF FetchFile, Content, RemoteInv, RemoteTypes
  <2>2. got' \in [Sources -> Contents]
    <3>1. remote.files[q] \in Contents /\ "absent" \in Contents
      BY ContentFacts DEF RemoteInv, RemoteTypes
    <3>2. (IF remote.files[q] = "empty" THEN "absent" ELSE remote.files[q]) \in Contents
      BY <3>1
    <3>3. got \in [Sources -> Contents]
      BY DEF RemoteInv, RemoteTypes
    <3> QED
      BY <3>2, <3>3 DEF FetchFile, Content
  <2> QED
    BY <1>1, <2>1, <2>2 DEF RemoteInv, RemoteTypes
<1>3. IndexesSound'
  <2>1. Sound(repoIndex') /\ Sound(old') /\ Sound(mem')
    BY <1>1 DEF RemoteInv, IndexesSound
  <2> QED
    BY <2>1 DEF IndexesSound
<1>4. FetchInv'
  <2>1. \A p \in Sources : p # q => got'[p] = got[p]
    BY DEF FetchFile, Content, RemoteInv, RemoteTypes
  <2>2. q \in plan
    BY <1>1 DEF RemoteInv, RemoteTypes
  <2>3. \A p \in Sources \ plan' : got'[p] = "absent"
    BY <1>1, <2>1, <2>2 DEF RemoteInv, FetchInv
  <2>4. ASSUME ~cancelled', NEW p \in plan' \ (todo' \cup bad')
        PROVE  Arrived(p)'
    <3>1. p \in Sources /\ ~cancelled /\ bad \subseteq bad'
      BY <1>1, <2>4 DEF FetchFile, Content, RemoteInv, RemoteTypes
    <3>2. CASE p # q
      BY <1>1, <2>1, <2>4, <3>1, <3>2 DEF RemoteInv, FetchInv, Arrived
    <3>3. CASE p = q
      <4>1. /\ got' = [got EXCEPT ![q] = IF remote.files[q] = "empty" THEN "absent"
                                        ELSE remote.files[q]]
            /\ remote.files[q] = asof.files[q]
        BY <2>4, <3>1, <3>3 DEF FetchFile, Content
      <4>2. got'[q] = IF asof.files[q] = "empty" THEN "absent" ELSE asof.files[q]
        BY <4>1 DEF RemoteInv, RemoteTypes
      <4> QED
        BY <1>1, <3>3, <4>2 DEF Arrived
    <3> QED
      BY <3>2, <3>3
  <2>5. /\ listed' = old'.there
        /\ plan' = IF listed' THEN FetchPaths(old', asof', ignore')
                   ELSE {p \in Sources : asof'.files[p] # "absent"}
    BY <1>1 DEF RemoteInv, FetchInv
  <2> QED
    BY <2>3, <2>4, <2>5 DEF FetchInv
<1>5. NothingYet' /\ UpsertInv' /\ NoChangesIsTrue'
  BY <1>1 DEF NothingYet, UpsertInv, NoChangesIsTrue
<1> QED
  BY <1>2, <1>3, <1>4, <1>5 DEF RemoteInv

LEMMA ListTreeHolds == RemoteInv /\ ListTree => RemoteInv'
<1> SUFFICES ASSUME RemoteInv, ListTree PROVE RemoteInv'
  OBVIOUS
<1>1. /\ at = "list" /\ at' \in {"idle", "fetch"}
      /\ asof' \in {asof, remote} /\ listed' \in {listed, old.there}
      /\ UNCHANGED <<remote, repoIndex, old, ignore, got, failed, cancelled, bad, mem>>
  BY DEF ListTree, RequestFails, Fetch, Step, Finish
<1>2. RemoteTypes'
  <2>1. Candidates(remote, ignore) \subseteq Sources
    BY FirstWithin DEF Candidates, Named
  <2>2. FetchPaths(old, remote, ignore) \subseteq Sources
    BY <2>1 DEF FetchPaths
  <2>3. plan' \subseteq Sources /\ todo' \subseteq plan'
    BY <2>2 DEF ListTree, RequestFails, Fetch, RemoteInv, RemoteTypes
  <2>4. old.there \in BOOLEAN
    BY DEF RemoteInv, IndexesSound, Sound
  <2> QED
    BY <1>1, <2>3, <2>4 DEF RemoteInv, RemoteTypes, Stages
<1>3. IndexesSound'
  <2>1. Sound(repoIndex') /\ Sound(old') /\ Sound(mem')
    BY <1>1 DEF RemoteInv, IndexesSound
  <2> QED
    BY <2>1 DEF IndexesSound
<1>4. NothingYet' /\ UpsertInv'
  BY <1>1 DEF NothingYet, UpsertInv
<1>5. FetchInv'
  <2> SUFFICES ASSUME at' = "fetch" PROVE FetchInv'
    BY DEF FetchInv
  <2>1. /\ listed' = old.there /\ asof' = remote /\ todo' = plan'
        /\ plan' = IF old.there THEN FetchPaths(old, remote, ignore)
                   ELSE {p \in Sources : remote.files[p] # "absent"}
    BY DEF ListTree, RequestFails, Fetch, Step, Finish
  <2>2. \A p \in Sources : got[p] = "absent"
    BY <1>1 DEF RemoteInv, NothingYet
  <2> QED
    BY <1>1, <2>1, <2>2 DEF FetchInv
<1>6. NoChangesIsTrue'
  <2> SUFFICES ASSUME at' = "idle", answer' = "no changes",
                      old'.head = <<"tree", asof'>> => old'.basis.ignore = ignore',
                      NEW p \in Sources \ (old'.suspect \cup bad')
               PROVE  old'.files[p] = IndexOf(ByName(asof', ignore'))[p]
    BY DEF NoChangesIsTrue, ByName
  <2>1. /\ asof' = remote /\ old' = old /\ ignore' = ignore
        /\ \/ old.head = <<"tree", remote>>
           \/ HasBlobs(old) /\ old.blobs = MetadataBlobs(remote, ignore)
    BY <1>1 DEF ListTree, RequestFails, Fetch, Step, Finish
  <2>2. p \in Sources \ old.suspect /\ Sound(old) /\ remote \in Trees
    BY <2>1 DEF RemoteInv, IndexesSound, RemoteTypes
  <2>3. CASE old.head = <<"tree", remote>>
    <3>1. old.files[p] = IndexOf(ByName(remote, old.basis.ignore))[p]
      BY <2>2, <2>3, SameHead
    <3>2. old.basis.ignore = ignore
      BY <2>1, <2>3
    <3> QED
      BY <2>1, <3>1, <3>2
  <2>4. CASE HasBlobs(old) /\ old.blobs = MetadataBlobs(remote, ignore)
    <3>1. old.files[p] = IndexOf(ByName(remote, ignore))[p]
      BY <2>2, <2>4, SameBlobs
    <3> QED
      BY <2>1, <3>1
  <2> QED
    BY <2>1, <2>3, <2>4
<1> QED
  BY <1>2, <1>3, <1>4, <1>5, <1>6 DEF RemoteInv

LEMMA DiscoverHolds == RemoteInv /\ Discover => RemoteInv'
<1> SUFFICES ASSUME RemoteInv, Discover PROVE RemoteInv'
  OBVIOUS
<1>1. /\ at = "fetch" /\ todo = {} /\ at' \in {"idle", "save"}
      /\ UNCHANGED <<remote, repoIndex, old, ignore, asof, listed, plan, todo, got, failed,
                     cancelled, bad>>
  BY DEF Discover, Step, Finish
<1>2. \/ mem' = mem /\ at' = "idle"
      \/ mem' = Result /\ ~Stopped /\ at' = "save"
  BY DEF Discover, Result, Step, Finish
<1>3. RemoteTypes'
  BY <1>1 DEF RemoteInv, RemoteTypes, Stages
<1>4. IndexesSound'
  <2>1. Sound(repoIndex') /\ Sound(old')
    BY <1>1 DEF RemoteInv, IndexesSound
  <2>2. Sound(mem')
    BY <1>1, <1>2, ResultSound DEF RemoteInv, IndexesSound
  <2> QED
    BY <2>1, <2>2 DEF IndexesSound
<1>5. NothingYet' /\ FetchInv'
  BY <1>1 DEF NothingYet, FetchInv
<1>6. UpsertInv'
  <2> SUFFICES ASSUME at' = "save", NEW p \in Missing' PROVE FALSE
    BY <1>1 DEF UpsertInv
  <2>1. mem' = Result /\ ~Stopped /\ old' = old /\ got' = got
    BY <1>1, <1>2
  <2>2. /\ p \in Changes(old', mem'.files, mem'.blobs) /\ mem'.blobs[p] # NoBlob
        /\ got'[p] = "absent"
    BY DEF Missing, Upserts
  <2> QED
    BY <1>1, <2>1, <2>2, ResultFetched
<1>7. NoChangesIsTrue'
  <2> SUFFICES ASSUME at' = "idle", answer' = "no changes",
                      NEW p \in Sources \ (old'.suspect \cup bad')
               PROVE  old'.files[p] = IndexOf(ByName(asof', ignore'))[p]
    BY DEF NoChangesIsTrue, ByName
  <2>1. /\ ~Stopped /\ old.there
        /\ Changes(old, Result.files, Result.blobs) = {}
    BY ResultFields DEF Discover, Step, Finish
  <2> QED
    BY <1>1, <2>1, SameResult
<1> QED
  BY <1>3, <1>4, <1>5, <1>6, <1>7 DEF RemoteInv

LEMMA StutterHolds == RemoteInv /\ UNCHANGED remoteVars => RemoteInv'
<1> SUFFICES ASSUME RemoteInv, UNCHANGED remoteVars PROVE RemoteInv'
  OBVIOUS
<1>1. UNCHANGED <<remote, repoIndex, at, old, ignore, asof, listed, plan, todo, got, failed,
                  cancelled, bad, mem, answer>>
  BY DEF remoteVars, fetchVars
<1>2. RemoteTypes'
  BY <1>1 DEF RemoteInv, RemoteTypes
<1>3. IndexesSound'
  <2>1. Sound(repoIndex') /\ Sound(old') /\ Sound(mem')
    BY <1>1 DEF RemoteInv, IndexesSound
  <2> QED
    BY <2>1 DEF IndexesSound
<1>4. NothingYet' /\ FetchInv'
  BY <1>1 DEF RemoteInv, NothingYet, FetchInv, Arrived
<1>5. UpsertInv' /\ NoChangesIsTrue'
  BY <1>1 DEF RemoteInv, UpsertInv, NoChangesIsTrue, Missing, Upserts
<1> QED
  BY <1>2, <1>3, <1>4, <1>5 DEF RemoteInv
-----------------------------------------------------------------------------
\* RemoteInv is an inductive invariant of the runs of index_repo.
THEOREM RemoteInvariant == RemoteSpec => []RemoteInv
<1>1. RemoteInv /\ [RemoteNext]_remoteVars => RemoteInv'
  <2> SUFFICES ASSUME RemoteInv, [RemoteNext]_remoteVars PROVE RemoteInv'
    OBVIOUS
  <2>1. CASE RemoteNext
    BY <2>1, StartRepoHolds, ReadGitignoreHolds, ListTreeHolds, FetchFileHolds, DiscoverHolds,
       SavesHold, PushHolds, EndContextHolds, InvalidateHolds DEF RemoteNext
  <2>2. CASE UNCHANGED remoteVars
    BY <2>2, StutterHolds
  <2> QED
    BY <2>1, <2>2
<1> QED
  BY <1>1, InitHolds, PTL DEF RemoteSpec

\* The persisted index is the index of one tree, but for the files whose request failed or
\* came after a push (handleIndexRepo with AcquireTreeSubset).
THEOREM IndexOfOneTree == RemoteSpec => []IndexIsOneTree
<1>1. RemoteInv => IndexIsOneTree
  BY DEF RemoteInv, IndexesSound, Sound, IndexIsOneTree
<1> QED
  BY <1>1, RemoteInvariant, PTL

\* A run that answers "No changes detected" is right, whichever of its three comparisons it
\* made: the tree SHA, the blobs of the metadata, the hashes of what it fetched.
THEOREM NoChangesAnswered == RemoteSpec => []NoChangesIsTrue
<1>1. RemoteInv => NoChangesIsTrue
  BY DEF RemoteInv
<1> QED
  BY <1>1, RemoteInvariant, PTL

\* The synchronisation of the vectors never stops at a file whose content was not fetched.
THEOREM UpsertsFetched == RemoteSpec => []UpsertsAreFetched
<1>1. RemoteInv => UpsertsAreFetched
  BY DEF RemoteInv, UpsertInv, UpsertsAreFetched
<1> QED
  BY <1>1, RemoteInvariant, PTL
=============================================================================
