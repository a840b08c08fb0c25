---------------------------- MODULE BatchFanout -----------------------------
(***************************************************************************)
(* orchestration/batch_fanout.go: a batch tool call runs one function per   *)
(* item, one after the other or on a pool of workers that take the items    *)
(* from a closed channel.  The first error cancels the pool's context; the  *)
(* caller's context may be cancelled at any time, and every item may have   *)
(* a deadline of its own.  The items' functions (the closures of            *)
(* handlers_retrieval.go) take no notice of their context, so an item that  *)
(* has begun runs to its end.                                               *)
(***************************************************************************)
EXTENDS Naturals, FiniteSets

CONSTANTS MaxItems,  \* bound: items of the batch
          Workers    \* goroutines of the largest pool

ASSUME FanoutAssumption ==
  /\ MaxItems \in Nat /\ Workers \in Nat /\ Workers > 1

VARIABLES policy,    \* the configuration and the size of the batch
          at,        \* where runBatchFanout is
          next,      \* the item at the head of the channel, or of the serial loop
          item,      \* what became of each item
          worker,    \* where each goroutine is
          parent,    \* the caller's context is cancelled
          pool,      \* workerCtx: live, or what cancelled it
          firstErr,  \* the error errOnce kept
          result     \* what runBatchFanout returned

fanoutVars == <<policy, at, next, item, worker, parent, pool, firstErr, result>>

Items == 1 .. MaxItems
WorkerIds == 1 .. Workers

\* kind: the item's own error, the item's deadline, the caller's cancellation, the
\* cancellation of the pool after another item's error, or a refused batch.
Error(kind, of) == [kind |-> kind, of |-> of]
NoError == Error("none", 0)
ErrorKinds == {"none", "item", "deadline", "parent", "pool", "overload"}
Errors == [kind : ErrorKinds, of : 0 .. MaxItems]

WorkerIdle == [at |-> "off", item |-> 0, err |-> NoError]

Policies == [total : 0 .. MaxItems, parallel : BOOLEAN, workers : 0 .. Workers,
             depth : 0 .. MaxItems, degrade : BOOLEAN, timed : BOOLEAN]

FanoutInit ==
  /\ policy \in Policies
  /\ at = "called" /\ next = 1
  /\ item = [i \in Items |-> "waiting"]
  /\ worker = [w \in WorkerIds |-> WorkerIdle]
  /\ parent = FALSE /\ pool = "live"
  /\ firstErr = NoError /\ result = NoError
-----------------------------------------------------------------------------
(* The overload policy and the two modes. *)
Overloaded == policy.depth > 0 /\ policy.total > policy.depth

PoolSize == IF policy.workers > policy.total THEN policy.total ELSE policy.workers

OnPool == /\ policy.parallel /\ policy.total # 1 /\ policy.workers > 1
          /\ ~(Overloaded /\ policy.degrade)

Return(err) == at' = "returned" /\ result' = err

Refuse ==
  /\ at = "called"
  /\ \/ policy.total = 0 /\ Return(NoError)
     \/ policy.total > 0 /\ Overloaded /\ ~policy.degrade /\ Return(Error("overload", 0))
  /\ UNCHANGED <<policy, next, item, worker, parent, pool, firstErr>>

Launch ==
  /\ at = "called" /\ policy.total > 0 /\ (Overloaded => policy.degrade)
  /\ \/ /\ OnPool
        /\ at' = "waiting"
        /\ worker' = [w \in WorkerIds |->
                        IF w <= PoolSize THEN [WorkerIdle EXCEPT !.at = "take"] ELSE WorkerIdle]
     \/ ~OnPool /\ at' = "serial" /\ UNCHANGED worker
  /\ UNCHANGED <<policy, next, item, parent, pool, firstErr, result>>

\* What the item's context may report: its own deadline, or the cancellation of the
\* context above it.
Expired(i) == IF policy.timed THEN {Error("deadline", i)} ELSE {}
AboveSerial == IF parent THEN {Error("parent", 0)} ELSE {}
AbovePool == IF pool = "live" THEN {} ELSE {Error(pool, 0)}

\* runBatchFanoutItem after run returned: the function's own error, or an error of
\* the context, or nil when the context has none.
ItemErrors(i, above) ==
  {Error("item", i)} \cup Expired(i) \cup (IF above = {} THEN {NoError} ELSE above)

ItemEnd(err) == IF err.kind = "item" THEN "failed" ELSE "done"
-----------------------------------------------------------------------------
(* One after the other. *)
SerialNext ==
  /\ at = "serial"
  /\ \/ parent /\ Return(Error("parent", 0)) /\ UNCHANGED item
     \/ ~parent /\ next > policy.total /\ Return(NoError) /\ UNCHANGED item
     \/ /\ ~parent /\ next <= policy.total
        /\ \E err \in Expired(next) : Return(err)
        /\ UNCHANGED item
     \/ /\ ~parent /\ next <= policy.total /\ at' = "inline"
        /\ item' = [item EXCEPT ![next] = "running"] /\ UNCHANGED result
  /\ UNCHANGED <<policy, next, worker, parent, pool, firstErr>>

SerialItem ==
  /\ at = "inline"
  /\ \E err \in ItemErrors(next, AboveSerial) :
       /\ item' = [item EXCEPT ![next] = ItemEnd(err)]
       /\ IF err # NoError THEN Return(err) /\ UNCHANGED next
          ELSE at' = "serial" /\ next' = next + 1 /\ UNCHANGED result
  /\ UNCHANGED <<policy, worker, parent, pool, firstErr>>
-----------------------------------------------------------------------------
(* On the pool. *)
Put(w, place, i, err) == worker' = [worker EXCEPT ![w] = [at |-> place, item |-> i, err |-> err]]

Take(w) ==
  /\ worker[w].at = "take"
  /\ IF next <= policy.total
     THEN Put(w, "check", next, NoError) /\ next' = next + 1
     ELSE Put(w, "gone", 0, NoError) /\ UNCHANGED next
  /\ UNCHANGED <<policy, at, item, parent, pool, firstErr, result>>

CheckPool(w) ==
  /\ worker[w].at = "check"
  /\ IF pool = "live" THEN Put(w, "begin", worker[w].item, NoError)
     ELSE IF parent THEN Put(w, "report", worker[w].item, Error("parent", 0))
     ELSE Put(w, "gone", 0, NoError)
  /\ UNCHANGED <<policy, at, next, item, parent, pool, firstErr, result>>

\* The first lines of runBatchFanoutItem: an item whose context is over does not begin.
Begin(w) ==
  LET i == worker[w].item IN
  /\ worker[w].at = "begin"
  /\ \/ \E err \in AbovePool \cup Expired(i) : Put(w, "report", i, err) /\ UNCHANGED item
     \/ /\ pool = "live"
        /\ Put(w, "run", i, NoError) /\ item' = [item EXCEPT ![i] = "running"]
  /\ UNCHANGED <<policy, at, next, parent, pool, firstErr, result>>

Finish(w) ==
  LET i == worker[w].item IN
  /\ worker[w].at = "run"
  /\ \E err \in ItemErrors(i, AbovePool) :
       /\ item' = [item EXCEPT ![i] = ItemEnd(err)]
       /\ IF err = NoError THEN Put(w, "take", 0, NoError) ELSE Put(w, "report", i, err)
  /\ UNCHANGED <<policy, at, next, parent, pool, firstErr, result>>

\* A mutation: without errOnce, the last error is kept.
ReportLast(w) ==
  /\ worker[w].at = "report"
  /\ firstErr' = worker[w].err
  /\ pool' = IF pool = "live" THEN "pool" ELSE pool
  /\ Put(w, "gone", 0, NoError)
  /\ UNCHANGED <<policy, at, next, item, parent, result>>

\* setErr: errOnce keeps the first error and cancels the pool.
Report(w) ==
  /\ worker[w].at = "report"
  /\ IF firstErr = NoError
     THEN /\ firstErr' = worker[w].err
          /\ pool' = IF pool = "live" THEN "pool" ELSE pool
     ELSE UNCHANGED <<firstErr, pool>>
  /\ Put(w, "gone", 0, NoError)
  /\ UNCHANGED <<policy, at, next, item, parent, result>>

Collected == IF firstErr # NoError THEN firstErr
             ELSE IF parent THEN Error("parent", 0) ELSE NoError

\* A mutation: the caller waits for the channel to be empty, not for the workers.
WaitForChannel ==
  /\ at = "waiting" /\ (next > policy.total \/ firstErr # NoError)
  /\ Return(Collected)
  /\ UNCHANGED <<policy, next, item, worker, parent, pool, firstErr>>

Wait ==
  /\ at = "waiting" /\ \A w \in WorkerIds : worker[w].at \in {"off", "gone"}
  /\ Return(Collected)
  /\ UNCHANGED <<policy, next, item, worker, parent, pool, firstErr>>

\* The caller gives up, and the cancellation reaches the pool's context afterwards.
CancelParent ==
  /\ at # "returned" /\ ~parent /\ parent' = TRUE
  /\ UNCHANGED <<policy, at, next, item, worker, pool, firstErr, result>>

ReachPool ==
  /\ parent /\ pool = "live" /\ pool' = "parent"
  /\ UNCHANGED <<policy, at, next, item, worker, parent, firstErr, result>>

WorkerStep(w) == Take(w) \/ CheckPool(w) \/ Begin(w) \/ Finish(w) \/ Report(w)
CallerStep == Refuse \/ Launch \/ SerialNext \/ SerialItem \/ Wait

FanoutNext == CallerStep \/ CancelParent \/ ReachPool \/ \E w \in WorkerIds : WorkerStep(w)

\* Goroutines run, and the items' functions return: they search the loaded index.
FanoutFairness == WF_fanoutVars(CallerStep)
                  /\ \A w \in WorkerIds : WF_fanoutVars(WorkerStep(w))

FanoutSpec == FanoutInit /\ [][FanoutNext]_fanoutVars /\ FanoutFairness
-----------------------------------------------------------------------------
FanoutTypeOK ==
  /\ policy \in Policies
  /\ at \in {"called", "serial", "inline", "waiting", "returned"}
  /\ next \in 1 .. MaxItems + 1
  /\ item \in [Items -> {"waiting", "running", "done", "failed"}]
  /\ worker \in [WorkerIds -> [at : {"off", "take", "check", "begin", "run", "report", "gone"},
                               item : 0 .. MaxItems, err : Errors]]
  /\ parent \in BOOLEAN /\ pool \in {"live", "parent", "pool"}
  /\ firstErr \in Errors /\ result \in Errors

\* A call that reports no error ran every item to its end, once and without an error,
\* and no item still runs when a call has returned: the callers read the items' rows
\* without a lock after runBatchFanout.
NilMeansAll ==
  at = "returned" =>
    /\ \A i \in Items : item[i] # "running"
    /\ result = NoError => \A i \in 1 .. policy.total : item[i] = "done"

\* The error a call reports is a cause: an error that an item returned, an item's
\* deadline, the caller's cancellation or a refused batch, and never the cancellation
\* with which the fan-out stops its other items.
ErrorIsPrimary ==
  at = "returned" =>
    /\ result.kind # "pool"
    /\ result.kind = "parent" => parent
    /\ result.kind = "item" => result.of \in Items /\ item[result.of] = "failed"

\* Every batch call returns, cancelled or not.
BatchReturns == policy.total > 0 ~> at = "returned"
=============================================================================
