--------------------------- MODULE ServiceProofs ----------------------------
(***************************************************************************)
(* What the parts of a server process that serve the client promise, each   *)
(* for every value of its constants:                                        *)
(*   - batch fan-out: the error a batch returns is a cause, and without an  *)
(*     error every item ran to its end;                                     *)
(*   - telemetry: a flush is skipped only when nothing is missing, the      *)
(*     stored totals never shrink, a Close without an error has stored all, *)
(*     and a full queue loses its oldest events;                            *)
(*   - its schema: whoever finds the database ready finds the current one;  *)
(*   - its trends: a window counts what happened in it;                     *)
(*   - the server: answers, telemetry and exit code tell what happened.     *)
(***************************************************************************)
EXTENDS ToolServer, BatchFanout, Telemetry, TelemetrySchema, TelemetryTrends,
        FiniteSetTheorems, FunctionTheorems, SequenceTheorems, WellFoundedInduction, TLAPS

-----------------------------------------------------------------------------
(* Batch fan-out. *)

\* Where a worker has an item of its own in its hands.
HasItem == {"check", "begin", "run", "report"}
AtWorker == {"off", "take", "gone"} \cup HasItem

Stopped == firstErr # NoError \/ parent

\* An error that names an item or the caller tells what happened.
Cause(err) ==
  /\ err.kind = "parent" => parent
  /\ err.kind = "item" => err.of \in Items /\ item[err.of] = "failed"

Cancellation ==
  /\ pool = "parent" => parent
  /\ pool = "pool" => firstErr # NoError
  /\ firstErr.kind # "pool" /\ Cause(firstErr)

\* A worker's item is one of the batch, has left the channel, and is nobody else's.
OneItemEach ==
  /\ \A w \in WorkerIds : worker[w].at \in HasItem =>
       worker[w].item \in 1 .. policy.total /\ worker[w].item < next
  /\ \A v, w \in WorkerIds :
       v # w /\ worker[v].at \in HasItem /\ worker[w].at \in HasItem =>
         worker[v].item # worker[w].item

WorkerProgress ==
  \A w \in WorkerIds :
    /\ worker[w].at \in {"check", "begin"} => item[worker[w].item] = "waiting"
    /\ worker[w].at = "run" => item[worker[w].item] = "running"
    /\ worker[w].at = "report" => item[worker[w].item] # "running"
    /\ worker[w].at = "gone" => next > policy.total \/ Stopped

Reports ==
  \A w \in WorkerIds : worker[w].at = "report" =>
    /\ worker[w].err # NoError /\ Cause(worker[w].err)
    /\ worker[w].err.kind = "pool" => pool = "pool"

AllOff == \A w \in WorkerIds : worker[w].at = "off"
AllEnded == \A w \in WorkerIds : worker[w].at \in {"off", "gone"}

CalledInv ==
  at = "called" => AllOff /\ next = 1 /\ \A i \in Items : item[i] = "waiting"

SerialInv ==
  at \in {"serial", "inline"} =>
    /\ AllOff
    /\ \A i \in Items : i < next => item[i] = "done"
    /\ \A i \in Items : i > next => item[i] = "waiting"
    /\ next \in Items => item[next] = IF at = "inline" THEN "running" ELSE "waiting"
    /\ at = "inline" => next <= policy.total

\* Every item that left the channel is done, in a worker's hands, or of a stopped batch.
PoolInv ==
  at = "waiting" =>
    /\ worker[1].at # "off"
    /\ \A i \in Items : i >= next => item[i] = "waiting"
    /\ \A i \in Items : item[i] = "running" =>
         \E w \in WorkerIds : worker[w].at = "run" /\ worker[w].item = i
    /\ \A i \in 1 .. policy.total : i < next =>
         \/ item[i] = "done" \/ Stopped
         \/ \E w \in WorkerIds : worker[w].at \in HasItem /\ worker[w].item = i

ReturnedInv ==
  at = "returned" => AllEnded /\ NilMeansAll /\ ErrorIsPrimary

FanoutInv ==
  /\ FanoutTypeOK /\ next <= policy.total + 1
  /\ Cancellation /\ OneItemEach /\ WorkerProgress /\ Reports
  /\ CalledInv /\ SerialInv /\ PoolInv /\ ReturnedInv
-----------------------------------------------------------------------------
LEMMA ErrorTypes ==
  /\ NoError \in Errors
  /\ \A i \in 0 .. MaxItems, kind \in ErrorKinds : Error(kind, i) \in Errors
  /\ Cause(NoError) /\ NoError.kind = "none"
  /\ Error("parent", 0) \in Errors /\ Error("parent", 0).kind = "parent"
  /\ Error("parent", 0) # NoError
  /\ 0 \in 0 .. MaxItems
BY FanoutAssumption DEF Errors, Error, NoError, ErrorKinds, Cause

\* A worker that is neither off nor gone belongs to a call that waits.
LEMMA BusyWaits ==
  ASSUME FanoutInv, NEW w \in WorkerIds, worker[w].at \notin {"off", "gone"}
  PROVE  at = "waiting"
BY DEF FanoutInv, FanoutTypeOK, CalledInv, SerialInv, ReturnedInv, AllOff, AllEnded

LEMMA PutFacts ==
  ASSUME FanoutTypeOK, NEW w \in WorkerIds, NEW place \in AtWorker,
         NEW i \in 0 .. MaxItems, NEW err \in Errors, Put(w, place, i, err)
  PROVE  /\ worker' \in [WorkerIds -> [at : {"off", "take", "check", "begin", "run", "report", "gone"},
                                       item : 0 .. MaxItems, err : Errors]]
         /\ worker'[w].at = place /\ worker'[w].item = i /\ worker'[w].err = err
         /\ \A v \in WorkerIds : v # w => worker'[v] = worker[v]
BY DEF FanoutTypeOK, Put, AtWorker, HasItem

LEMMA FanoutInitHolds == FanoutInit => FanoutInv
<1> SUFFICES ASSUME FanoutInit PROVE FanoutInv
  OBVIOUS
<1>1. FanoutTypeOK
  <2>1. worker \in [WorkerIds -> [at : {"off", "take", "check", "begin", "run", "report", "gone"},
                                  item : 0 .. MaxItems, err : Errors]]
    BY FanoutAssumption, ErrorTypes DEF FanoutInit, WorkerIdle
  <2>2. item \in [Items -> {"waiting", "running", "done", "failed"}] /\ next \in 1 .. MaxItems + 1
    BY FanoutAssumption DEF FanoutInit
  <2>3. parent \in BOOLEAN /\ pool \in {"live", "parent", "pool"}
        /\ firstErr \in Errors /\ result \in Errors
    BY ErrorTypes DEF FanoutInit
  <2> QED
    BY <2>1, <2>2, <2>3 DEF FanoutInit, FanoutTypeOK
<1>2. next <= policy.total + 1
  BY FanoutAssumption DEF FanoutInit, Policies
<1>3. Cancellation
  BY ErrorTypes DEF FanoutInit, Cancellation
<1>4. AllOff
  BY DEF FanoutInit, AllOff, WorkerIdle
<1>5. OneItemEach /\ WorkerProgress /\ Reports
  BY <1>4 DEF AllOff, OneItemEach, WorkerProgress, Reports, HasItem
<1>6. CalledInv /\ SerialInv /\ PoolInv /\ ReturnedInv
  BY <1>4 DEF FanoutInit, CalledInv, SerialInv, PoolInv, ReturnedInv
<1> QED
  BY <1>1, <1>2, <1>3, <1>5, <1>6 DEF FanoutInv
-----------------------------------------------------------------------------
(* The steps of a worker. *)
LEMMA TakeKeeps ==
  ASSUME FanoutInv, NEW w \in WorkerIds, Take(w)
  PROVE  FanoutInv'
<1> USE FanoutAssumption
<1>1. at = "waiting" /\ worker[w].at = "take"
  BY BusyWaits DEF Take
<1>2. UNCHANGED <<policy, at, item, parent, pool, firstErr, result>>
  BY DEF Take
<1>3. policy \in Policies /\ next \in 1 .. MaxItems + 1 /\ next <= policy.total + 1
      /\ policy.total \in 0 .. MaxItems
  BY DEF FanoutInv, FanoutTypeOK, Policies
<1>4. CASE next <= policy.total
  <2>1. Put(w, "check", next, NoError) /\ next' = next + 1
    BY <1>4 DEF Take
  <2>2. next \in 0 .. MaxItems /\ next \in Items
    BY <1>3, <1>4 DEF Items
  <2>3. /\ worker' \in [WorkerIds -> [at : {"off", "take", "check", "begin", "run", "report", "gone"},
                                      item : 0 .. MaxItems, err : Errors]]
        /\ worker'[w].at = "check" /\ worker'[w].item = next /\ worker'[w].err = NoError
        /\ \A v \in WorkerIds : v # w => worker'[v] = worker[v]
    BY <2>1, <2>2, PutFacts, ErrorTypes DEF FanoutInv, AtWorker, HasItem
  <2>4. FanoutTypeOK' /\ next' <= policy'.total + 1
    BY <1>2, <1>3, <1>4, <2>1, <2>3 DEF FanoutInv, FanoutTypeOK
  <2>5. Cancellation'
    BY <1>2 DEF FanoutInv, Cancellation, Cause
  <2>6. OneItemEach'
    BY <1>2, <1>3, <1>4, <2>1, <2>3 DEF FanoutInv, FanoutTypeOK, OneItemEach, HasItem
  <2>7. WorkerProgress'
    BY <1>1, <1>2, <1>3, <1>4, <2>1, <2>2, <2>3
    DEF FanoutInv, WorkerProgress, PoolInv, Stopped
  <2>8. Reports'
    BY <1>2, <2>3 DEF FanoutInv, Reports, Cause
  <2>9. CalledInv' /\ SerialInv' /\ ReturnedInv'
    BY <1>1, <1>2 DEF CalledInv, SerialInv, ReturnedInv
  <2>10. PoolInv'
    <3>1. worker'[1].at # "off" /\ \A i \in Items : i >= next' => item'[i] = "waiting"
      <4>1. worker[1].at # "off" /\ \A i \in Items : i >= next => item[i] = "waiting"
        BY <1>1 DEF FanoutInv, PoolInv
      <4>2. worker'[1].at # "off"
        BY <2>3, <4>1 DEF WorkerIds
      <4>3. ASSUME NEW i \in Items, i >= next' PROVE i >= next
        BY <1>3, <2>1, <4>3 DEF Items
      <4> QED
        BY <1>2, <4>1, <4>2, <4>3
    <3>2. ASSUME NEW i \in Items, item'[i] = "running"
          PROVE  \E v \in WorkerIds : worker'[v].at = "run" /\ worker'[v].item = i
      BY <1>1, <1>2, <2>3, <3>2 DEF FanoutInv, PoolInv
    <3>3. ASSUME NEW i \in 1 .. policy'.total, i < next'
          PROVE  \/ item'[i] = "done" \/ Stopped'
                 \/ \E v \in WorkerIds : worker'[v].at \in HasItem /\ worker'[v].item = i
      <4>1. CASE i = next
        BY <4>1, <2>3 DEF HasItem
      <4>2. CASE i < next
        BY <4>2, <1>1, <1>2, <2>3 DEF FanoutInv, PoolInv, HasItem, Stopped
      <4> QED
        BY <4>1, <4>2, <3>3, <2>1, <1>2, <1>3
    <3> QED
      BY <3>1, <3>2, <3>3 DEF PoolInv
  <2> QED
    BY <2>4, <2>5, <2>6, <2>7, <2>8, <2>9, <2>10 DEF FanoutInv
<1>5. CASE next > policy.total
  <2>1. Put(w, "gone", 0, NoError) /\ next' = next
    BY <1>3, <1>5 DEF Take
  <2>2. /\ worker' \in [WorkerIds -> [at : {"off", "take", "check", "begin", "run", "report", "gone"},
                                      item : 0 .. MaxItems, err : Errors]]
        /\ worker'[w].at = "gone" /\ \A v \in WorkerIds : v # w => worker'[v] = worker[v]
    BY <2>1, PutFacts, ErrorTypes DEF FanoutInv, AtWorker
  <2>3. FanoutTypeOK' /\ next' <= policy'.total + 1
    BY <1>2, <1>3, <2>1, <2>2 DEF FanoutInv, FanoutTypeOK
  <2>4. Cancellation'
    BY <1>2 DEF FanoutInv, Cancellation, Cause
  <2>5. OneItemEach'
    BY <1>2, <2>1, <2>2 DEF FanoutInv, OneItemEach, HasItem
  <2>6. WorkerProgress'
    BY <1>2, <1>5, <2>1, <2>2 DEF FanoutInv, WorkerProgress, Stopped
  <2>7. Reports'
    BY <1>2, <2>2 DEF FanoutInv, Reports, Cause
  <2>8. CalledInv' /\ SerialInv' /\ ReturnedInv'
    BY <1>1, <1>2 DEF CalledInv, SerialInv, ReturnedInv
  <2>9. PoolInv'
    <3>1. worker'[1].at # "off" /\ \A i \in Items : i >= next' => item'[i] = "waiting"
      BY <1>1, <1>2, <2>1, <2>2 DEF FanoutInv, PoolInv, WorkerIds
    <3>2. \A v \in WorkerIds : worker[v].at \in HasItem =>
            worker'[v] = worker[v]
      BY <1>1, <2>2 DEF HasItem
    <3>3. ASSUME NEW i \in Items, item'[i] = "running"
          PROVE  \E v \in WorkerIds : worker'[v].at = "run" /\ worker'[v].item = i
      BY <1>1, <1>2, <3>2, <3>3 DEF FanoutInv, PoolInv, HasItem
    <3>4. ASSUME NEW i \in 1 .. policy'.total, i < next'
          PROVE  \/ item'[i] = "done" \/ Stopped'
                 \/ \E v \in WorkerIds : worker'[v].at \in HasItem /\ worker'[v].item = i
      BY <1>1, <1>2, <2>1, <3>2, <3>4 DEF FanoutInv, PoolInv, Stopped
    <3> QED
      BY <3>1, <3>3, <3>4 DEF PoolInv
  <2> QED
    BY <2>3, <2>4, <2>5, <2>6, <2>7, <2>8, <2>9 DEF FanoutInv
<1> QED
  BY <1>3, <1>4, <1>5

\* A worker goes on with its item, whose state may change with it.
LEMMA HoldingKeeps ==
  ASSUME FanoutInv, NEW w \in WorkerIds, worker[w].at \in HasItem,
         NEW place \in HasItem, NEW err \in Errors,
         Put(w, place, worker[w].item, err),
         UNCHANGED <<policy, at, next, parent, pool, firstErr, result>>,
         NEW now \in {"waiting", "running", "done", "failed"},
         item' = [item EXCEPT ![worker[w].item] = now],
         item[worker[w].item] = "failed" => now = "failed",
         place \in {"check", "begin"} => now = "waiting",
         place = "run" <=> now = "running",
         place = "report" => /\ err # NoError /\ Cause(err)'
                             /\ err.kind = "pool" => pool = "pool"
  PROVE  FanoutInv'
<1> USE FanoutAssumption
<1> DEFINE own == worker[w].item
<1>1. at = "waiting"
  BY BusyWaits DEF HasItem
<1>2. own \in 1 .. policy.total /\ own < next /\ policy.total \in 0 .. MaxItems /\ own \in Items
  BY DEF FanoutInv, FanoutTypeOK, OneItemEach, Policies, Items
<1>3. own \in 0 .. MaxItems
  BY <1>2 DEF Items
<1>4. /\ worker' \in [WorkerIds -> [at : {"off", "take", "check", "begin", "run", "report", "gone"},
                                    item : 0 .. MaxItems, err : Errors]]
      /\ worker'[w].at = place /\ worker'[w].item = own /\ worker'[w].err = err
      /\ \A v \in WorkerIds : v # w => worker'[v] = worker[v]
  BY <1>3, PutFacts DEF FanoutInv, AtWorker
<1>5. item \in [Items -> {"waiting", "running", "done", "failed"}]
  BY DEF FanoutInv, FanoutTypeOK
<1>6. item'[own] = now /\ \A i \in Items : i # own => item'[i] = item[i]
  BY <1>2, <1>5
<1>7. item' \in [Items -> {"waiting", "running", "done", "failed"}]
  BY <1>5
<1>8. \A i \in Items : item[i] = "failed" => item'[i] = "failed"
  BY <1>6
<1> HIDE DEF own
<1>9. FanoutTypeOK' /\ next' <= policy'.total + 1
  BY <1>4, <1>7 DEF FanoutInv, FanoutTypeOK
<1>10. Cancellation'
  <2>1. Cause(firstErr)'
    BY <1>8 DEF FanoutInv, Cancellation, Cause
  <2> QED
    BY <2>1 DEF FanoutInv, Cancellation
<1>11. OneItemEach'
  <2>1. \A v \in WorkerIds : worker'[v].at \in HasItem =>
          worker[v].at \in HasItem /\ worker'[v].item = worker[v].item
    BY <1>4 DEF own
  <2> QED
    BY <2>1 DEF FanoutInv, OneItemEach
<1>12. \A v \in WorkerIds : v # w /\ worker[v].at \in HasItem =>
         worker[v].item \in Items /\ worker[v].item # own
  BY <1>2 DEF FanoutInv, OneItemEach, own, Items
<1>13. WorkerProgress'
  <2>1. ASSUME NEW v \in WorkerIds, v # w, worker[v].at \in HasItem
        PROVE  item'[worker[v].item] = item[worker[v].item]
    BY <2>1, <1>6, <1>12
  <2> QED
    BY <2>1, <1>4, <1>6 DEF FanoutInv, WorkerProgress, Stopped, HasItem
<1>14. Reports'
  <2>1. ASSUME NEW v \in WorkerIds, v # w, worker'[v].at = "report"
        PROVE  /\ worker[v].err # NoError /\ Cause(worker[v].err)'
               /\ worker[v].err.kind = "pool" => pool' = "pool"
    BY <2>1, <1>4, <1>8 DEF FanoutInv, Reports, Cause
  <2>2. ASSUME NEW v \in WorkerIds, v = w, worker'[v].at = "report"
        PROVE  /\ worker'[v].err # NoError /\ Cause(worker[v].err)'
               /\ worker'[v].err.kind = "pool" => pool' = "pool"
    BY <2>2, <1>4 DEF Cause
  <2> QED
    BY <2>1, <2>2, <1>4 DEF Reports
<1>15. CalledInv' /\ SerialInv' /\ ReturnedInv'
  BY <1>1 DEF CalledInv, SerialInv, ReturnedInv
<1>16. PoolInv'
  <2>1. worker'[1].at # "off"
    BY <1>1, <1>4 DEF FanoutInv, PoolInv, WorkerIds, HasItem
  <2>2. ASSUME NEW i \in Items, i >= next' PROVE item'[i] = "waiting"
    BY <2>2, <1>1, <1>2, <1>6 DEF FanoutInv, FanoutTypeOK, PoolInv, Items
  <2>3. ASSUME NEW i \in Items, item'[i] = "running"
        PROVE  \E v \in WorkerIds : worker'[v].at = "run" /\ worker'[v].item = i
    <3>1. CASE i = own
      BY <3>1, <2>3, <1>4, <1>6
    <3>2. CASE i # own
      <4>1. PICK v \in WorkerIds : worker[v].at = "run" /\ worker[v].item = i
        BY <3>2, <2>3, <1>1, <1>6 DEF FanoutInv, PoolInv
      <4>2. v # w
        BY <4>1, <3>2 DEF own
      <4> QED
        BY <4>1, <4>2, <1>4
    <3> QED
      BY <3>1, <3>2
  <2>4. ASSUME NEW i \in 1 .. policy'.total, i < next'
        PROVE  \/ item'[i] = "done" \/ Stopped'
               \/ \E v \in WorkerIds : worker'[v].at \in HasItem /\ worker'[v].item = i
    <3>1. CASE i = own
      BY <3>1, <1>4
    <3>2. CASE i # own
      <4>1. i \in Items /\ item'[i] = item[i]
        BY <3>2, <2>4, <1>2, <1>6 DEF Items
      <4>2. \/ item[i] = "done" \/ Stopped
            \/ \E v \in WorkerIds : worker[v].at \in HasItem /\ worker[v].item = i
        BY <2>4, <1>1 DEF FanoutInv, PoolInv
      <4>3. ASSUME NEW v \in WorkerIds, worker[v].at \in HasItem, worker[v].item = i
            PROVE  worker'[v].at \in HasItem /\ worker'[v].item = i
        BY <4>3, <3>2, <1>4 DEF own
      <4> QED
        BY <4>1, <4>2, <4>3 DEF Stopped
    <3> QED
      BY <3>1, <3>2
  <2> QED
    BY <2>1, <2>2, <2>3, <2>4 DEF PoolInv
<1> QED
  BY <1>9, <1>10, <1>11, <1>13, <1>14, <1>15, <1>16 DEF FanoutInv

\* A worker lets its item go, because it is done or because the batch has stopped.
LEMMA LeavingKeeps ==
  ASSUME FanoutInv, NEW w \in WorkerIds, worker[w].at \in HasItem,
         NEW place \in {"take", "gone"}, Put(w, place, 0, NoError),
         UNCHANGED <<policy, at, next, parent, result>>,
         Cancellation', Stopped => Stopped',
         \A v \in WorkerIds : v # w /\ worker[v].at = "report" =>
           Cause(worker[v].err)' /\ (worker[v].err.kind = "pool" => pool' = "pool"),
         firstErr' \in Errors, pool' \in {"live", "parent", "pool"},
         NEW now \in {"waiting", "running", "done", "failed"},
         item' = [item EXCEPT ![worker[w].item] = now],
         now # "running", now = "done" \/ Stopped', place = "gone" => Stopped'
  PROVE  FanoutInv'
<1> USE FanoutAssumption
<1> DEFINE own == worker[w].item
<1>1. at = "waiting"
  BY BusyWaits DEF HasItem
<1>2. own \in 1 .. policy.total /\ own < next /\ policy.total \in 0 .. MaxItems /\ own \in Items
  BY DEF FanoutInv, FanoutTypeOK, OneItemEach, Policies, Items
<1>4. /\ worker' \in [WorkerIds -> [at : {"off", "take", "check", "begin", "run", "report", "gone"},
                                    item : 0 .. MaxItems, err : Errors]]
      /\ worker'[w].at = place /\ \A v \in WorkerIds : v # w => worker'[v] = worker[v]
  BY PutFacts, ErrorTypes DEF FanoutInv, AtWorker
<1>5. item \in [Items -> {"waiting", "running", "done", "failed"}]
  BY DEF FanoutInv, FanoutTypeOK
<1>6. item'[own] = now /\ \A i \in Items : i # own => item'[i] = item[i]
  BY <1>2, <1>5
<1>7. item' \in [Items -> {"waiting", "running", "done", "failed"}]
  BY <1>5
<1> HIDE DEF own
<1>9. FanoutTypeOK' /\ next' <= policy'.total + 1
  BY <1>4, <1>7 DEF FanoutInv, FanoutTypeOK
<1>10. place \notin HasItem
  BY DEF HasItem
<1>11. OneItemEach'
  <2>1. \A v \in WorkerIds : worker'[v].at \in HasItem => v # w /\ worker'[v] = worker[v]
    BY <1>4, <1>10
  <2> QED
    BY <2>1 DEF FanoutInv, OneItemEach
<1>12. \A v \in WorkerIds : v # w /\ worker[v].at \in HasItem =>
         worker[v].item \in Items /\ worker[v].item # own
  BY <1>2 DEF FanoutInv, OneItemEach, own, Items
<1>13. WorkerProgress'
  <2>1. ASSUME NEW v \in WorkerIds, v # w, worker[v].at \in HasItem
        PROVE  item'[worker[v].item] = item[worker[v].item]
    BY <2>1, <1>6, <1>12
  <2> QED
    BY <2>1, <1>4 DEF FanoutInv, WorkerProgress, HasItem
<1>14. Reports'
  BY <1>4, <1>10 DEF FanoutInv, Reports, HasItem
<1>15. CalledInv' /\ SerialInv' /\ ReturnedInv'
  BY <1>1 DEF CalledInv, SerialInv, ReturnedInv
<1>16. PoolInv'
  <2>1. worker'[1].at # "off"
    BY <1>1, <1>4 DEF FanoutInv, PoolInv, WorkerIds
  <2>2. ASSUME NEW i \in Items, i >= next' PROVE item'[i] = "waiting"
    BY <2>2, <1>1, <1>2, <1>6 DEF FanoutInv, FanoutTypeOK, PoolInv, Items
  <2>3. ASSUME NEW i \in Items, item'[i] = "running"
        PROVE  \E v \in WorkerIds : worker'[v].at = "run" /\ worker'[v].item = i
    <3>1. i # own /\ item[i] = "running"
      BY <2>3, <1>6
    <3>2. PICK v \in WorkerIds : worker[v].at = "run" /\ worker[v].item = i
      BY <3>1, <1>1 DEF FanoutInv, PoolInv
    <3>3. v # w
      BY <3>1, <3>2 DEF own
    <3> QED
      BY <3>2, <3>3, <1>4
  <2>4. ASSUME NEW i \in 1 .. policy'.total, i < next'
        PROVE  \/ item'[i] = "done" \/ Stopped'
               \/ \E v \in WorkerIds : worker'[v].at \in HasItem /\ worker'[v].item = i
    <3>1. CASE i = own
      BY <3>1, <1>6
    <3>2. CASE i # own
      <4>1. i \in Items /\ item'[i] = item[i]
        BY <3>2, <2>4, <1>2, <1>6 DEF Items
      <4>2. \/ item[i] = "done" \/ Stopped
            \/ \E v \in WorkerIds : worker[v].at \in HasItem /\ worker[v].item = i
        BY <2>4, <1>1 DEF FanoutInv, PoolInv
      <4>3. ASSUME NEW v \in WorkerIds, worker[v].at \in HasItem, worker[v].item = i
            PROVE  worker'[v].at \in HasItem /\ worker'[v].item = i
        BY <4>3, <3>2, <1>4 DEF own
      <4> QED
        BY <4>1, <4>2, <4>3
    <3> QED
      BY <3>1, <3>2
  <2> QED
    BY <2>1, <2>2, <2>3, <2>4 DEF PoolInv
<1> QED
  BY <1>9, <1>11, <1>13, <1>14, <1>15, <1>16 DEF FanoutInv

\* The shape of what a worker holds.
LEMMA Holding ==
  ASSUME FanoutInv, NEW w \in WorkerIds, worker[w].at \in HasItem
  PROVE  /\ worker[w].item \in Items /\ worker[w].item \in 0 .. MaxItems
         /\ worker[w].err \in Errors
         /\ item[worker[w].item] \in {"waiting", "running", "done", "failed"}
         /\ item = [item EXCEPT ![worker[w].item] = item[worker[w].item]]
<1>1. worker[w].item \in 1 .. policy.total /\ policy.total \in 0 .. MaxItems
  BY DEF FanoutInv, FanoutTypeOK, OneItemEach, Policies
<1>2. worker[w].item \in Items /\ worker[w].item \in 0 .. MaxItems
  BY <1>1, FanoutAssumption DEF Items
<1> QED
  BY <1>2 DEF FanoutInv, FanoutTypeOK

LEMMA PoolErrors ==
  ASSUME FanoutInv, pool # "live", NEW err \in AbovePool
  PROVE  /\ err \in Errors /\ err # NoError
         /\ err.kind \in {"parent", "pool"} /\ err.kind = pool
         /\ err.kind = "parent" => parent
BY FanoutAssumption
   DEF FanoutInv, FanoutTypeOK, Cancellation, AbovePool, Error, NoError, Errors, ErrorKinds

LEMMA DeadlineErrors ==
  ASSUME NEW i \in Items, NEW err \in Expired(i)
  PROVE  err \in Errors /\ err # NoError /\ err.kind = "deadline"
BY FanoutAssumption DEF Expired, Error, NoError, Errors, ErrorKinds, Items

LEMMA CheckPoolKeeps ==
  ASSUME FanoutInv, NEW w \in WorkerIds, CheckPool(w)
  PROVE  FanoutInv'
<1>1. worker[w].at = "check" /\ worker[w].at \in HasItem
  BY DEF CheckPool, HasItem
<1>2. UNCHANGED <<policy, at, next, item, parent, pool, firstErr, result>>
  BY DEF CheckPool
<1>3. item[worker[w].item] = "waiting"
  BY <1>1 DEF FanoutInv, WorkerProgress
<1>4. item' = [item EXCEPT ![worker[w].item] = "waiting"]
  BY <1>1, <1>2, <1>3, Holding
<1>5. CASE pool = "live"
  <2>1. Put(w, "begin", worker[w].item, NoError)
    BY <1>5 DEF CheckPool
  <2> QED
    BY <2>1, <1>1, <1>2, <1>3, <1>4, HoldingKeeps, ErrorTypes DEF HasItem
<1>6. CASE pool # "live" /\ parent
  <2>1. Put(w, "report", worker[w].item, Error("parent", 0))
    BY <1>6 DEF CheckPool
  <2>2. /\ Error("parent", 0) \in Errors /\ Error("parent", 0) # NoError
        /\ Error("parent", 0).kind = "parent"
    BY ErrorTypes
  <2>3. Cause(Error("parent", 0))'
    BY <1>2, <1>6, <2>2 DEF Cause
  <2> QED
    BY <2>1, <2>2, <2>3, <1>1, <1>2, <1>3, <1>4, HoldingKeeps DEF HasItem
<1>7. CASE pool # "live" /\ ~parent
  <2>1. Put(w, "gone", 0, NoError)
    BY <1>7 DEF CheckPool
  <2>2. firstErr # NoError
    BY <1>7 DEF FanoutInv, FanoutTypeOK, Cancellation
  <2>3. Stopped /\ Stopped'
    BY <2>2, <1>2 DEF Stopped
  <2>4. Cancellation'
    BY <1>2 DEF FanoutInv, Cancellation, Cause
  <2>5. \A v \in WorkerIds : v # w /\ worker[v].at = "report" =>
          Cause(worker[v].err)' /\ (worker[v].err.kind = "pool" => pool' = "pool")
    <3>1. ASSUME NEW v \in WorkerIds, v # w, worker[v].at = "report"
          PROVE  worker'[v].err = worker[v].err
      BY <3>1, <2>1, PutFacts, ErrorTypes DEF FanoutInv, AtWorker
    <3> QED
      BY <3>1, <1>2 DEF FanoutInv, Reports, Cause
  <2>6. firstErr' \in Errors /\ pool' \in {"live", "parent", "pool"}
    BY <1>2 DEF FanoutInv, FanoutTypeOK
  <2> QED
    BY <2>1, <2>3, <2>4, <2>5, <2>6, <1>1, <1>2, <1>4, LeavingKeeps
<1> QED
  BY <1>5, <1>6, <1>7

LEMMA BeginKeeps ==
  ASSUME FanoutInv, NEW w \in WorkerIds, Begin(w)
  PROVE  FanoutInv'
<1>1. worker[w].at = "begin" /\ worker[w].at \in HasItem
  BY DEF Begin, HasItem
<1>2. UNCHANGED <<policy, at, next, parent, pool, firstErr, result>>
  BY DEF Begin
<1>3. item[worker[w].item] = "waiting" /\ worker[w].item \in Items
  BY <1>1, Holding DEF FanoutInv, WorkerProgress
<1>4. CASE \E err \in AbovePool \cup Expired(worker[w].item) :
             Put(w, "report", worker[w].item, err) /\ UNCHANGED item
  <2>1. PICK err \in AbovePool \cup Expired(worker[w].item) :
          Put(w, "report", worker[w].item, err) /\ UNCHANGED item
    BY <1>4
  <2>2. /\ err \in Errors /\ err # NoError /\ err.kind # "item"
        /\ err.kind = "parent" => parent
        /\ err.kind = "pool" => pool = "pool"
    <3>1. CASE err \in AbovePool
      <4>1. pool # "live"
        BY <3>1 DEF AbovePool
      <4> QED
        BY <3>1, <4>1, PoolErrors
    <3>2. CASE err \in Expired(worker[w].item)
      BY <3>2, <1>3, DeadlineErrors
    <3> QED
      BY <3>1, <3>2, <2>1
  <2>3. Cause(err)'
    BY <2>2, <1>2 DEF Cause
  <2>4. item' = [item EXCEPT ![worker[w].item] = "waiting"]
    BY <2>1, <1>1, <1>3, Holding
  <2> QED
    BY <2>1, <2>2, <2>3, <2>4, <1>1, <1>2, <1>3, HoldingKeeps DEF HasItem
<1>5. CASE /\ pool = "live" /\ Put(w, "run", worker[w].item, NoError)
           /\ item' = [item EXCEPT ![worker[w].item] = "running"]
  BY <1>1, <1>2, <1>3, <1>5, HoldingKeeps, ErrorTypes DEF HasItem
<1> QED
  BY <1>4, <1>5 DEF Begin

LEMMA FinishKeeps ==
  ASSUME FanoutInv, NEW w \in WorkerIds, Finish(w)
  PROVE  FanoutInv'
<1>1. worker[w].at = "run" /\ worker[w].at \in HasItem
  BY DEF Finish, HasItem
<1>2. UNCHANGED <<policy, at, next, parent, pool, firstErr, result>>
  BY DEF Finish
<1>3. item[worker[w].item] = "running" /\ worker[w].item \in Items
  BY <1>1, Holding DEF FanoutInv, WorkerProgress
<1>4. PICK err \in ItemErrors(worker[w].item, AbovePool) :
        /\ item' = [item EXCEPT ![worker[w].item] = ItemEnd(err)]
        /\ IF err = NoError THEN Put(w, "take", 0, NoError)
           ELSE Put(w, "report", worker[w].item, err)
  BY DEF Finish
<1>5. ItemEnd(err) \in {"done", "failed"} /\ (err.kind = "item" => ItemEnd(err) = "failed")
  BY DEF ItemEnd
<1>6. item'[worker[w].item] = ItemEnd(err)
  BY <1>3, <1>4 DEF FanoutInv, FanoutTypeOK
<1>7. CASE err = NoError
  <2>1. ItemEnd(err) = "done"
    BY <1>7, ErrorTypes DEF ItemEnd
  <2>2. Put(w, "take", 0, NoError)
    BY <1>4, <1>7
  <2>3. \A i \in Items : item[i] = "failed" => item'[i] = "failed"
    BY <1>3, <1>4 DEF FanoutInv, FanoutTypeOK
  <2>4. Cancellation'
    BY <1>2, <2>3 DEF FanoutInv, Cancellation, Cause
  <2>5. \A v \in WorkerIds : v # w /\ worker[v].at = "report" =>
          Cause(worker[v].err)' /\ (worker[v].err.kind = "pool" => pool' = "pool")
    <3>1. ASSUME NEW v \in WorkerIds, v # w, worker[v].at = "report"
          PROVE  worker'[v].err = worker[v].err
      BY <3>1, <2>2, PutFacts, ErrorTypes, FanoutAssumption DEF FanoutInv, AtWorker
    <3> QED
      BY <3>1, <1>2, <2>3 DEF FanoutInv, Reports, Cause
  <2>6. firstErr' \in Errors /\ pool' \in {"live", "parent", "pool"}
    BY <1>2 DEF FanoutInv, FanoutTypeOK
  <2>7. Stopped => Stopped'
    BY <1>2 DEF Stopped
  <2> QED
    BY <2>1, <2>2, <2>4, <2>5, <2>6, <2>7, <1>1, <1>2, <1>4, LeavingKeeps
<1>8. CASE err # NoError
  <2>1. Put(w, "report", worker[w].item, err)
    BY <1>4, <1>8
  <2>2. /\ err \in Errors /\ (err.kind = "item" => err.of = worker[w].item)
        /\ err.kind = "parent" => parent
        /\ err.kind = "pool" => pool = "pool"
    <3>1. CASE err = Error("item", worker[w].item)
      BY <3>1, <1>1, Holding, ErrorTypes DEF Error, ErrorKinds
    <3>2. CASE err \in Expired(worker[w].item)
      BY <3>2, <1>3, DeadlineErrors
    <3>3. CASE err \in AbovePool
      <4>1. pool # "live"
        BY <3>3 DEF AbovePool
      <4> QED
        BY <3>3, <4>1, PoolErrors
    <3> QED
      BY <3>1, <3>2, <3>3, <1>4, <1>8 DEF ItemErrors
  <2>3. Cause(err)'
    BY <2>2, <1>2, <1>3, <1>5, <1>6 DEF Cause
  <2> QED
    BY <2>1, <2>2, <2>3, <1>1, <1>2, <1>3, <1>4, <1>5, <1>8, HoldingKeeps DEF HasItem
<1> QED
  BY <1>7, <1>8

LEMMA ReportKeeps ==
  ASSUME FanoutInv, NEW w \in WorkerIds, Report(w)
  PROVE  FanoutInv'
<1>1. worker[w].at = "report" /\ worker[w].at \in HasItem
  BY DEF Report, HasItem
<1>2. UNCHANGED <<policy, at, next, item, parent, result>> /\ Put(w, "gone", 0, NoError)
  BY DEF Report
<1>3. /\ worker[w].err # NoError /\ Cause(worker[w].err) /\ worker[w].err \in Errors
      /\ worker[w].err.kind = "pool" => pool = "pool"
  BY <1>1, Holding DEF FanoutInv, Reports
<1>4. firstErr' # NoError
  BY <1>3 DEF Report
<1>5. /\ firstErr' \in Errors /\ pool' \in {"live", "parent", "pool"}
      /\ pool = "pool" => pool' = "pool"
      /\ pool' = "parent" => parent
  BY <1>3 DEF Report, FanoutInv, FanoutTypeOK, Cancellation
<1>6. Stopped'
  BY <1>4 DEF Stopped
<1>7. Cancellation'
  <2>1. CASE firstErr = NoError
    <3>1. firstErr' = worker[w].err
      BY <2>1 DEF Report
    <3>2. worker[w].err.kind # "pool"
      BY <2>1, <1>3 DEF FanoutInv, Cancellation
    <3>3. Cause(firstErr)'
      BY <3>1, <1>2, <1>3 DEF Cause
    <3> QED
      BY <3>1, <3>2, <3>3, <1>2, <1>4, <1>5 DEF Cancellation
  <2>2. CASE firstErr # NoError
    BY <2>2, <1>2 DEF Report, FanoutInv, Cancellation, Cause
  <2> QED
    BY <2>1, <2>2
<1>8. \A v \in WorkerIds : v # w /\ worker[v].at = "report" =>
        Cause(worker[v].err)' /\ (worker[v].err.kind = "pool" => pool' = "pool")
  <2>1. ASSUME NEW v \in WorkerIds, v # w, worker[v].at = "report"
        PROVE  worker'[v].err = worker[v].err
    BY <2>1, <1>2, PutFacts, ErrorTypes, FanoutAssumption DEF FanoutInv, AtWorker
  <2> QED
    BY <2>1, <1>2, <1>5 DEF FanoutInv, Reports, Cause
<1>9. /\ item' = [item EXCEPT ![worker[w].item] = item[worker[w].item]]
      /\ item[worker[w].item] \in {"waiting", "running", "done", "failed"}
      /\ item[worker[w].item] # "running"
  BY <1>1, <1>2, Holding DEF FanoutInv, WorkerProgress
<1> QED
  BY <1>1, <1>2, <1>5, <1>6, <1>7, <1>8, <1>9, LeavingKeeps
-----------------------------------------------------------------------------
(* The steps of the caller and of its context. *)
\* Steps that leave the pool, the items and the error alone.
LEMMA CallerKeeps ==
  ASSUME FanoutInv, UNCHANGED <<policy, worker, parent, pool, firstErr>>,
         \A i \in Items : item[i] = "failed" => item'[i] = "failed",
         AllEnded
  PROVE  Cancellation' /\ OneItemEach' /\ Reports' /\ AllEnded'
<1>1. \A w \in WorkerIds : worker'[w].at \notin HasItem
  BY DEF AllEnded, HasItem
<1>2. Cause(firstErr)'
  BY DEF FanoutInv, Cancellation, Cause
<1> QED
  BY <1>1, <1>2 DEF FanoutInv, Cancellation, OneItemEach, Reports, AllEnded, HasItem

LEMMA ReturnErrors ==
  /\ Error("overload", 0) \in Errors /\ Error("overload", 0).kind = "overload"
  /\ Error("overload", 0) # NoError
BY FanoutAssumption DEF Errors, Error, NoError, ErrorKinds

LEMMA RefuseKeeps ==
  ASSUME FanoutInv, Refuse
  PROVE  FanoutInv'
<1>1. /\ at = "called" /\ at' = "returned"
      /\ UNCHANGED <<policy, next, item, worker, parent, pool, firstErr>>
      /\ \/ policy.total = 0 /\ result' = NoError
         \/ result' = Error("overload", 0)
  BY DEF Refuse, Return
<1>2. AllOff /\ AllEnded /\ next = 1 /\ \A i \in Items : item[i] = "waiting"
  BY <1>1 DEF FanoutInv, CalledInv, AllOff, AllEnded
<1>3. FanoutTypeOK' /\ next' <= policy'.total + 1
  BY <1>1, ErrorTypes, ReturnErrors DEF FanoutInv, FanoutTypeOK
<1>4. Cancellation' /\ OneItemEach' /\ Reports' /\ AllEnded'
  BY <1>1, <1>2, CallerKeeps
<1>5. WorkerProgress'
  BY <1>1, <1>2 DEF AllOff, WorkerProgress
<1>6. NilMeansAll' /\ ErrorIsPrimary'
  BY <1>1, <1>2, ErrorTypes, ReturnErrors DEF NilMeansAll, ErrorIsPrimary
<1> QED
  BY <1>1, <1>3, <1>4, <1>5, <1>6 DEF FanoutInv, CalledInv, SerialInv, PoolInv, ReturnedInv

LEMMA LaunchKeeps ==
  ASSUME FanoutInv, Launch
  PROVE  FanoutInv'
<1> USE FanoutAssumption
<1>1. /\ at = "called" /\ policy.total > 0
      /\ UNCHANGED <<policy, next, item, parent, pool, firstErr, result>>
  BY DEF Launch
<1>2. AllOff /\ next = 1 /\ \A i \in Items : item[i] = "waiting"
  BY <1>1 DEF FanoutInv, CalledInv
<1>3. policy.total \in 0 .. MaxItems /\ policy.workers \in 0 .. Workers
  BY DEF FanoutInv, FanoutTypeOK, Policies
<1>4. Cancellation'
  BY <1>1 DEF FanoutInv, Cancellation, Cause
<1>5. CASE at' = "waiting" /\ OnPool
           /\ worker' = [w \in WorkerIds |->
                IF w <= PoolSize THEN [WorkerIdle EXCEPT !.at = "take"] ELSE WorkerIdle]
  <2>1. PoolSize >= 1
    BY <1>1, <1>3, <1>5 DEF OnPool, PoolSize
  <2>2. \A w \in WorkerIds :
          /\ w <= PoolSize => worker'[w] = [at |-> "take", item |-> 0, err |-> NoError]
          /\ ~(w <= PoolSize) => worker'[w] = [at |-> "off", item |-> 0, err |-> NoError]
    BY <1>5 DEF WorkerIdle
  <2>3. \A w \in WorkerIds : worker'[w].at \in {"take", "off"}
    BY <2>2
  <2>4. worker'[1].at = "take"
    BY <2>1, <2>2 DEF WorkerIds
  <2>5. worker' \in [WorkerIds -> [at : {"off", "take", "check", "begin", "run", "report", "gone"},
                                   item : 0 .. MaxItems, err : Errors]]
    <3>1. \A w \in WorkerIds :
            worker'[w] \in [at : {"off", "take", "check", "begin", "run", "report", "gone"},
                            item : 0 .. MaxItems, err : Errors]
      BY <2>2, ErrorTypes
    <3> QED
      BY <3>1, <1>5
  <2>6. FanoutTypeOK' /\ next' <= policy'.total + 1
    BY <1>1, <1>5, <2>5 DEF FanoutInv, FanoutTypeOK
  <2>7. OneItemEach' /\ WorkerProgress' /\ Reports'
    BY <2>3 DEF OneItemEach, WorkerProgress, Reports, HasItem
  <2>8. PoolInv'
    BY <1>1, <1>2, <1>3, <2>4 DEF PoolInv
  <2> QED
    BY <1>4, <1>5, <2>6, <2>7, <2>8 DEF FanoutInv, CalledInv, SerialInv, ReturnedInv
<1>6. CASE at' = "serial" /\ UNCHANGED worker
  <2>1. AllOff'
    BY <1>2, <1>6 DEF AllOff
  <2>2. FanoutTypeOK' /\ next' <= policy'.total + 1
    BY <1>1, <1>6 DEF FanoutInv, FanoutTypeOK
  <2>3. OneItemEach' /\ WorkerProgress' /\ Reports'
    BY <2>1 DEF AllOff, OneItemEach, WorkerProgress, Reports, HasItem
  <2>4. SerialInv'
    BY <1>1, <1>2, <1>6, <2>1 DEF SerialInv, Items
  <2> QED
    BY <1>4, <1>6, <2>2, <2>3, <2>4 DEF FanoutInv, CalledInv, PoolInv, ReturnedInv
<1> QED
  BY <1>5, <1>6 DEF Launch

LEMMA SerialNextKeeps ==
  ASSUME FanoutInv, SerialNext
  PROVE  FanoutInv'
<1> USE FanoutAssumption
<1>1. /\ at = "serial" /\ UNCHANGED <<policy, next, worker, parent, pool, firstErr>>
  BY DEF SerialNext
<1>2. /\ AllOff /\ AllEnded
      /\ \A i \in Items : i < next => item[i] = "done"
      /\ \A i \in Items : i >= next => item[i] = "waiting"
  BY <1>1 DEF FanoutInv, FanoutTypeOK, SerialInv, AllOff, AllEnded, Items
<1>3. /\ policy.total \in 0 .. MaxItems /\ next \in 1 .. MaxItems + 1
      /\ next <= policy.total + 1 /\ 1 .. policy.total \subseteq Items
      /\ item \in [Items -> {"waiting", "running", "done", "failed"}]
  BY DEF FanoutInv, FanoutTypeOK, Policies, Items
<1>4. OneItemEach' /\ WorkerProgress' /\ Reports' /\ AllOff' /\ AllEnded'
  BY <1>1, <1>2 DEF AllOff, AllEnded, OneItemEach, WorkerProgress, Reports, HasItem
<1>5. CASE UNCHANGED item /\ at' = "returned"
           /\ \/ parent /\ result' = Error("parent", 0)
              \/ next > policy.total /\ result' = NoError
              \/ next <= policy.total /\ result' \in Expired(next)
  <2>1. result' \in Errors /\ (result' = NoError => next > policy.total)
        /\ result'.kind \in {"parent", "none", "deadline"} /\ (result'.kind = "parent" => parent)
    <3>1. CASE parent /\ result' = Error("parent", 0)
      BY <3>1, ErrorTypes
    <3>2. CASE next > policy.total /\ result' = NoError
      BY <3>2, ErrorTypes
    <3>3. CASE next <= policy.total /\ result' \in Expired(next)
      BY <3>3, <1>3, DeadlineErrors DEF Items
    <3> QED
      BY <3>1, <3>2, <3>3, <1>5
  <2>2. Cancellation'
    BY <1>1, <1>5 DEF FanoutInv, Cancellation, Cause
  <2>3. FanoutTypeOK' /\ next' <= policy'.total + 1
    BY <1>1, <1>5, <2>1 DEF FanoutInv, FanoutTypeOK
  <2>4. NilMeansAll'
    <3>1. \A i \in Items : item'[i] # "running"
      BY <1>2, <1>3, <1>5 DEF Items
    <3>2. result' = NoError => \A i \in 1 .. policy'.total : item'[i] = "done"
      BY <1>1, <1>2, <1>3, <1>5, <2>1 DEF Items
    <3> QED
      BY <3>1, <3>2 DEF NilMeansAll
  <2>5. ErrorIsPrimary'
    BY <1>1, <2>1 DEF ErrorIsPrimary
  <2> QED
    BY <1>4, <1>5, <2>2, <2>3, <2>4, <2>5 DEF FanoutInv, CalledInv, SerialInv, PoolInv, ReturnedInv
<1>6. CASE /\ next <= policy.total /\ at' = "inline" /\ UNCHANGED result
           /\ item' = [item EXCEPT ![next] = "running"]
  <2>1. next \in Items
    BY <1>3, <1>6 DEF Items
  <2>2. item' \in [Items -> {"waiting", "running", "done", "failed"}]
        /\ item'[next] = "running" /\ \A i \in Items : i # next => item'[i] = item[i]
    BY <1>3, <1>6, <2>1
  <2>3. \A i \in Items : item[i] = "failed" => item'[i] = "failed"
    BY <1>2, <2>1, <2>2, <1>3 DEF Items
  <2>4. Cancellation'
    BY <1>1, <2>3 DEF FanoutInv, Cancellation, Cause
  <2>5. FanoutTypeOK' /\ next' <= policy'.total + 1
    BY <1>1, <1>6, <2>2 DEF FanoutInv, FanoutTypeOK
  <2>6. SerialInv'
    BY <1>1, <1>2, <1>3, <1>4, <1>6, <2>2 DEF SerialInv, Items
  <2> QED
    BY <1>4, <1>6, <2>4, <2>5, <2>6 DEF FanoutInv, CalledInv, PoolInv, ReturnedInv
<1> QED
  BY <1>1, <1>5, <1>6 DEF SerialNext, Return

LEMMA SerialItemKeeps ==
  ASSUME FanoutInv, SerialItem
  PROVE  FanoutInv'
<1> USE FanoutAssumption
<1>1. /\ at = "inline" /\ UNCHANGED <<policy, worker, parent, pool, firstErr>>
  BY DEF SerialItem
<1>2. /\ AllOff /\ AllEnded /\ next <= policy.total
      /\ \A i \in Items : i < next => item[i] = "done"
      /\ \A i \in Items : i > next => item[i] = "waiting"
  BY <1>1 DEF FanoutInv, SerialInv, AllOff, AllEnded
<1>3. /\ policy.total \in 0 .. MaxItems /\ next \in Items
      /\ item \in [Items -> {"waiting", "running", "done", "failed"}]
  BY <1>2 DEF FanoutInv, FanoutTypeOK, Policies, Items
<1>4. item[next] = "running"
  BY <1>1, <1>3 DEF FanoutInv, SerialInv
<1>5. PICK err \in ItemErrors(next, AboveSerial) :
        /\ item' = [item EXCEPT ![next] = ItemEnd(err)]
        /\ IF err # NoError THEN Return(err) /\ UNCHANGED next
           ELSE at' = "serial" /\ next' = next + 1 /\ UNCHANGED result
  BY DEF SerialItem
<1>6. ItemEnd(err) \in {"done", "failed"} /\ (err.kind = "item" <=> ItemEnd(err) = "failed")
  BY DEF ItemEnd
<1>7. item' \in [Items -> {"waiting", "running", "done", "failed"}]
      /\ item'[next] = ItemEnd(err) /\ \A i \in Items : i # next => item'[i] = item[i]
  BY <1>3, <1>5, <1>6
<1>8. \A i \in Items : item[i] = "failed" => item'[i] = "failed"
  BY <1>4, <1>7
<1>9. Cancellation'
  BY <1>1, <1>8 DEF FanoutInv, Cancellation, Cause
<1>10. OneItemEach' /\ WorkerProgress' /\ Reports' /\ AllOff' /\ AllEnded'
  BY <1>1, <1>2 DEF AllOff, AllEnded, OneItemEach, WorkerProgress, Reports, HasItem
<1>11. CASE err # NoError
  <2>1. at' = "returned" /\ result' = err /\ next' = next
    BY <1>5, <1>11 DEF Return
  <2>2. /\ err \in Errors /\ err.kind \in {"item", "deadline", "parent"}
        /\ err.kind = "parent" => parent
        /\ err.kind = "item" => err.of = next
    <3>1. CASE err = Error("item", next)
      <4>1. next \in 0 .. MaxItems
        BY <1>3 DEF Items
      <4> QED
        BY <3>1, <4>1, ErrorTypes DEF Error, ErrorKinds
    <3>2. CASE err \in Expired(next)
      BY <3>2, <1>3, DeadlineErrors
    <3>3. CASE err \in AboveSerial
      BY <3>3, ErrorTypes DEF AboveSerial
    <3> QED
      BY <3>1, <3>2, <3>3, <1>5, <1>11 DEF ItemErrors
  <2>3. FanoutTypeOK' /\ next' <= policy'.total + 1
    BY <1>1, <1>7, <2>1, <2>2 DEF FanoutInv, FanoutTypeOK
  <2>4. NilMeansAll'
    <3>1. ASSUME NEW i \in Items PROVE item'[i] # "running"
      BY <1>2, <1>3, <1>6, <1>7 DEF Items
    <3> QED
      BY <3>1, <2>1, <1>11 DEF NilMeansAll
  <2>5. ErrorIsPrimary'
    BY <1>1, <1>3, <1>6, <1>7, <2>1, <2>2 DEF ErrorIsPrimary
  <2> QED
    BY <1>9, <1>10, <2>1, <2>3, <2>4, <2>5
    DEF FanoutInv, CalledInv, SerialInv, PoolInv, ReturnedInv
<1>12. CASE err = NoError
  <2>1. at' = "serial" /\ next' = next + 1 /\ result' = result
    BY <1>5, <1>12
  <2>2. item'[next] = "done"
    BY <1>6, <1>7, <1>12, ErrorTypes
  <2>3. FanoutTypeOK' /\ next' <= policy'.total + 1
    BY <1>1, <1>2, <1>3, <1>7, <2>1 DEF FanoutInv, FanoutTypeOK, Items
  <2>4. SerialInv'
    BY <1>1, <1>2, <1>3, <1>7, <1>10, <2>1, <2>2 DEF SerialInv, Items
  <2> QED
    BY <1>9, <1>10, <2>1, <2>3, <2>4 DEF FanoutInv, CalledInv, PoolInv, ReturnedInv
<1> QED
  BY <1>11, <1>12

LEMMA WaitKeeps ==
  ASSUME FanoutInv, Wait
  PROVE  FanoutInv'
<1> USE FanoutAssumption
<1>1. /\ at = "waiting" /\ AllEnded /\ at' = "returned" /\ result' = Collected
      /\ UNCHANGED <<policy, next, item, worker, parent, pool, firstErr>>
  BY DEF Wait, AllEnded, Return
<1>2. /\ Collected \in Errors /\ Collected.kind # "pool"
      /\ Collected.kind = "parent" => parent
      /\ Collected.kind = "item" => Collected.of \in Items /\ item[Collected.of] = "failed"
      /\ Collected = NoError => ~Stopped
  BY ErrorTypes DEF Collected, Stopped, FanoutInv, FanoutTypeOK, Cancellation, Cause
<1>3. FanoutTypeOK' /\ next' <= policy'.total + 1
  BY <1>1, <1>2 DEF FanoutInv, FanoutTypeOK
<1>4. Cancellation' /\ OneItemEach' /\ Reports' /\ AllEnded'
  BY <1>1, CallerKeeps
<1>5. WorkerProgress'
  BY <1>1 DEF FanoutInv, WorkerProgress, Stopped
<1>6. ErrorIsPrimary'
  BY <1>1, <1>2 DEF ErrorIsPrimary
<1>7. NilMeansAll'
  <2>1. ASSUME NEW i \in Items PROVE item'[i] # "running"
    BY <1>1 DEF FanoutInv, PoolInv, AllEnded
  <2>2. ASSUME result' = NoError, NEW i \in 1 .. policy'.total PROVE item'[i] = "done"
    <3>1. ~Stopped
      BY <2>2, <1>1, <1>2
    <3>2. 1 \in WorkerIds /\ worker[1].at = "gone"
      BY <1>1 DEF FanoutInv, PoolInv, AllEnded, WorkerIds
    <3>3. next > policy.total
      BY <3>1, <3>2 DEF FanoutInv, WorkerProgress
    <3>4. policy.total \in 0 .. MaxItems /\ next \in 1 .. MaxItems + 1
      BY DEF FanoutInv, FanoutTypeOK, Policies
    <3>5. i < next
      BY <3>3, <3>4, <1>1
    <3>6. \A w \in WorkerIds : worker[w].at \notin HasItem
      BY <1>1 DEF AllEnded, HasItem
    <3> QED
      BY <3>1, <3>5, <3>6, <1>1 DEF FanoutInv, PoolInv
  <2> QED
    BY <2>1, <2>2 DEF NilMeansAll
<1> QED
  BY <1>1, <1>3, <1>4, <1>5, <1>6, <1>7 DEF FanoutInv, CalledInv, SerialInv, PoolInv, ReturnedInv

\* The caller's context is cancelled, or its cancellation reaches the pool's.
LEMMA CancelKeeps ==
  ASSUME FanoutInv, CancelParent \/ ReachPool
  PROVE  FanoutInv'
<1>1. /\ UNCHANGED <<policy, at, next, item, worker, firstErr, result>>
      /\ (parent => parent') /\ (pool = "pool" => pool' = "pool")
      /\ parent' \in BOOLEAN /\ pool' \in {"live", "parent", "pool"}
      /\ (pool' = "parent" => parent') /\ (pool' = "pool" => pool = "pool")
  BY DEF CancelParent, ReachPool, FanoutInv, FanoutTypeOK, Cancellation
<1>2. FanoutTypeOK' /\ next' <= policy'.total + 1
  BY <1>1 DEF FanoutInv, FanoutTypeOK
<1>3. Cancellation'
  BY <1>1 DEF FanoutInv, Cancellation, Cause
<1>4. OneItemEach'
  BY <1>1 DEF FanoutInv, OneItemEach
<1>5. WorkerProgress'
  BY <1>1 DEF FanoutInv, WorkerProgress, Stopped
<1>6. Reports'
  BY <1>1 DEF FanoutInv, Reports, Cause
<1>7. CalledInv' /\ SerialInv'
  BY <1>1 DEF FanoutInv, CalledInv, SerialInv, AllOff
<1>8. PoolInv'
  BY <1>1 DEF FanoutInv, PoolInv, Stopped
<1>9. ReturnedInv'
  BY <1>1 DEF FanoutInv, ReturnedInv, AllEnded, NilMeansAll, ErrorIsPrimary
<1> QED
  BY <1>2, <1>3, <1>4, <1>5, <1>6, <1>7, <1>8, <1>9 DEF FanoutInv

LEMMA FanoutStepKeeps == FanoutInv /\ [FanoutNext]_fanoutVars => FanoutInv'
<1> SUFFICES ASSUME FanoutInv, [FanoutNext]_fanoutVars PROVE FanoutInv'
  OBVIOUS
<1>1. CASE CallerStep
  BY <1>1, RefuseKeeps, LaunchKeeps, SerialNextKeeps, SerialItemKeeps, WaitKeeps DEF CallerStep
<1>2. CASE CancelParent \/ ReachPool
  BY <1>2, CancelKeeps
<1>3. ASSUME NEW w \in WorkerIds, WorkerStep(w) PROVE FanoutInv'
  BY <1>3, TakeKeeps, CheckPoolKeeps, BeginKeeps, FinishKeeps, ReportKeeps DEF WorkerStep
<1>4. CASE UNCHANGED fanoutVars
  BY <1>4 DEF fanoutVars, FanoutInv, FanoutTypeOK, Cancellation, Cause, OneItemEach, WorkerProgress,
       Reports, CalledInv, SerialInv, PoolInv, ReturnedInv, AllOff, AllEnded, Stopped,
       NilMeansAll, ErrorIsPrimary
<1> QED
  BY <1>1, <1>2, <1>3, <1>4 DEF FanoutNext
-----------------------------------------------------------------------------
\* The fan-out, its workers and what they report keep their shape (runBatchFanout).
THEOREM FanoutTypeCorrect == FanoutSpec => []FanoutTypeOK
<1>1. FanoutInv => FanoutTypeOK
  BY DEF FanoutInv
<1> QED
  BY FanoutInitHolds, FanoutStepKeeps, <1>1, PTL DEF FanoutSpec

\* Without an error every item of the batch ran to its end, and nothing still runs: every
\* index went through the channel, and a worker leaves early only when the batch stopped.
THEOREM NilIsComplete == FanoutSpec => []NilMeansAll
<1>1. FanoutInv => NilMeansAll
  BY DEF FanoutInv, ReturnedInv, NilMeansAll
<1> QED
  BY FanoutInitHolds, FanoutStepKeeps, <1>1, PTL DEF FanoutSpec

\* The error of a batch is never the cancellation of its own pool: that cancellation only
\* follows an error that errOnce kept.
THEOREM ErrorsArePrimary == FanoutSpec => []ErrorIsPrimary
<1>1. FanoutInv => ErrorIsPrimary
  BY DEF FanoutInv, ReturnedInv, ErrorIsPrimary
<1> QED
  BY FanoutInitHolds, FanoutStepKeeps, <1>1, PTL DEF FanoutSpec
-----------------------------------------------------------------------------
(* Telemetry: any number of calls, failed saves and restarts. *)

FlushType ==
  [at : {"idle", "take", "events", "copy", "save", "mark"}, by : {"ticker", "close"},
   rev : 0 .. MaxCalls, taken : Seq(Calls), copy : SUBSET Calls, tries : 0 .. MaxAttempts]

Shapes ==
  /\ TelemetryTypeOK /\ flush \in FlushType
  /\ db \in [totals : SUBSET Calls, events : SUBSET Calls]

Bounded ==
  session \subseteq 1 .. calls /\ totals \subseteq 1 .. calls /\ db.totals \subseteq 1 .. calls

\* The first rev calls of this process, and all of the processes before, are in set.
Covered(rev, set) ==
  \E first \in SUBSET session :
    Cardinality(first) = rev /\ totals \ (session \ first) \subseteq set

RevisionInv ==
  /\ flush.at # "idle" => Covered(flush.rev, totals)
  /\ flush.at \in {"save", "mark"} => Covered(flush.rev, flush.copy)
  /\ flush.at = "mark" => Covered(flush.rev, db.totals)
  /\ marked.has => Covered(marked.rev, db.totals)

\* What is stored is part of what memory has: a snapshot replaces a smaller one.
GrowthInv ==
  /\ server \in {"up", "closing", "closed"} => db.totals \subseteq totals
  /\ flush.at = "save" => db.totals \subseteq flush.copy
  /\ flush.at \in {"save", "mark"} => flush.copy \subseteq totals

CloseInv ==
  /\ callers # {} => server = "up"
  /\ flush.at # "idle" => server \in {"up", "closing"}
  /\ flush.at # "idle" /\ flush.by = "close" =>
       server = "closing" /\ flush.rev = Revision /\ (flush.at # "take" => pending = <<>>)
  /\ CloseStoresAll

TelemetryInv == Shapes /\ Bounded /\ RevisionInv /\ GrowthInv /\ CloseInv
-----------------------------------------------------------------------------
LEMMA NewestTypes ==
  ASSUME NEW events \in Seq(Calls)
  PROVE  Newest(events) \in Seq(Calls) /\ Len(Newest(events)) <= MaxPending
<1>1. CASE Len(events) <= MaxPending
  BY <1>1 DEF Newest
<1>2. CASE ~(Len(events) <= MaxPending)
  <2> DEFINE m == Len(events) - MaxPending + 1
             n == Len(events)
  <2>1. m \in Int /\ n \in Int /\ m >= 1 /\ m <= n /\ n - m + 1 = MaxPending
    BY <1>2, TelemetryAssumption, LenProperties
  <2>2. \A i \in m .. n : events[i] \in Calls
    BY <2>1, ElementOfSeq
  <2>3. Newest(events) = SubSeq(events, m, n)
    BY <1>2 DEF Newest
  <2> HIDE DEF m, n
  <2>4. SubSeq(events, m, n) \in Seq(Calls) /\ Len(SubSeq(events, m, n)) = n - m + 1
    BY <2>1, <2>2, SubSeqProperties
  <2> QED
    BY <2>1, <2>3, <2>4, TelemetryAssumption
<1> QED
  BY <1>1, <1>2

LEMMA SessionFinite ==
  ASSUME Shapes
  PROVE  IsFiniteSet(session) /\ Revision \in 0 .. MaxCalls
<1>1. IsFiniteSet(1 .. MaxCalls) /\ Cardinality(1 .. MaxCalls) = MaxCalls
  BY TelemetryAssumption, FS_Interval
<1>2. session \in SUBSET (1 .. MaxCalls)
  BY DEF Shapes, TelemetryTypeOK, Calls
<1>3. IsFiniteSet(session) /\ Cardinality(session) <= MaxCalls
  BY <1>1, <1>2, FS_Subset
<1> QED
  BY <1>3, FS_CardinalityType, TelemetryAssumption DEF Revision

LEMMA CoveredMore ==
  ASSUME NEW rev, NEW set, NEW more, Covered(rev, set), set \subseteq more
  PROVE  Covered(rev, more)
BY DEF Covered

\* A revision that counts the whole session covers all totals.
LEMMA CoveredAll ==
  ASSUME Shapes, NEW set, Covered(Revision, set)
  PROVE  totals \subseteq set
<1>1. PICK first \in SUBSET session :
        Cardinality(first) = Revision /\ totals \ (session \ first) \subseteq set
  BY DEF Covered
<1>2. first = session
  BY <1>1, SessionFinite, FS_Subset DEF Revision
<1> QED
  BY <1>1, <1>2

LEMMA CoveredNow ==
  ASSUME NEW set, totals \subseteq set
  PROVE  Covered(Revision, set)
BY DEF Covered, Revision

LEMMA FlushToTypes ==
  ASSUME Shapes, NEW place \in {"events", "copy", "save", "mark"},
         NEW taken \in Seq(Calls), NEW copy \in SUBSET Calls, FlushTo(place, taken, copy)
  PROVE  /\ flush' \in FlushType /\ flush'.at = place /\ flush'.by = flush.by
         /\ flush'.rev = flush.rev /\ flush'.copy = copy
BY TelemetryAssumption DEF FlushTo, FlushType, Shapes

LEMMA IdleTypes ==
  FlushIdle \in FlushType /\ FlushIdle.at = "idle" /\ FlushIdle.by = "ticker"
<1>1. <<>> \in Seq(Calls)
  OBVIOUS
<1> QED
  BY <1>1, TelemetryAssumption DEF FlushIdle, FlushType

LEMMA TelemetryInitHolds == TelemetryInit => TelemetryInv
<1> SUFFICES ASSUME TelemetryInit PROVE TelemetryInv
  OBVIOUS
<1>1. Shapes
  <2>1. flush \in FlushType /\ flush.at = "idle"
    BY IdleTypes DEF TelemetryInit
  <2>2. pending \in Seq(Calls) /\ Len(pending) <= MaxPending
    BY TelemetryAssumption DEF TelemetryInit
  <2>3. marked \in [has : BOOLEAN, rev : 0 .. MaxCalls]
        /\ db \in [totals : SUBSET Calls, events : SUBSET Calls]
    BY TelemetryAssumption DEF TelemetryInit, Unmarked
  <2>4. closeErr \in BOOLEAN
    BY DEF TelemetryInit
  <2>5. /\ server \in {"down", "up", "closing", "closed", "refused"}
        /\ totals \subseteq Calls /\ session \subseteq Calls /\ old \subseteq Calls
        /\ callers \subseteq Calls /\ order \in Seq(Calls) /\ calls \in 0 .. MaxCalls
        /\ faults \in 0 .. MaxFaults /\ starts \in 0 .. MaxRestarts
    BY TelemetryAssumption DEF TelemetryInit
  <2> QED
    BY <2>1, <2>2, <2>3, <2>4, <2>5 DEF Shapes, TelemetryTypeOK, FlushType
<1>2. Bounded
  BY DEF TelemetryInit, Bounded
<1>3. RevisionInv /\ GrowthInv
  BY IdleTypes DEF TelemetryInit, RevisionInv, GrowthInv, Unmarked
<1>4. CloseInv
  BY IdleTypes DEF TelemetryInit, CloseInv, CloseStoresAll
<1> QED
  BY <1>1, <1>2, <1>3, <1>4 DEF TelemetryInv
-----------------------------------------------------------------------------
(* Shapes are kept by every step whose new values have the right shape. *)
LEMMA ShapesKept ==
  ASSUME Shapes,
         server' \in {"down", "up", "closing", "closed", "refused"},
         totals' \subseteq Calls, session' \subseteq Calls,
         pending' \in Seq(Calls), Len(pending') <= MaxPending,
         marked' \in [has : BOOLEAN, rev : 0 .. MaxCalls],
         callers' \subseteq Calls, order' \in Seq(Calls), closeErr' \in BOOLEAN, flush' \in FlushType,
         db' \in [totals : SUBSET Calls, events : SUBSET Calls], old' \subseteq Calls,
         calls' \in 0 .. MaxCalls, faults' \in 0 .. MaxFaults, starts' \in 0 .. MaxRestarts
  PROVE  Shapes'
BY DEF Shapes, TelemetryTypeOK, FlushType

\* A flush ends: of Close it has stored all, or says that it failed.
LEMMA EndKeeps ==
  ASSUME TelemetryInv, flush.at # "idle", NEW failed \in BOOLEAN, EndFlush(failed),
         UNCHANGED <<totals, session, callers, order, old, calls, starts>>,
         pending' \in Seq(Calls), Len(pending') <= MaxPending,
         marked' \in [has : BOOLEAN, rev : 0 .. MaxCalls],
         db' \in [totals : SUBSET Calls, events : SUBSET Calls], db'.totals = db.totals,
         faults' \in 0 .. MaxFaults,
         marked'.has => Covered(marked.rev, db.totals)',
         flush.by = "close" /\ ~failed => pending' = <<>> /\ totals \subseteq db.totals
  PROVE  TelemetryInv'
<1>1. flush' \in FlushType /\ flush'.at = "idle" /\ flush'.by = "ticker"
  BY IdleTypes DEF EndFlush
<1>2. /\ flush.by = "close" => server' = "closed" /\ closeErr' = failed
      /\ flush.by # "close" => server' = server /\ closeErr' = closeErr
  BY DEF EndFlush
<1>3. server \in {"up", "closing"} /\ (flush.by = "close" => server = "closing")
  BY DEF TelemetryInv, CloseInv
<1>4. Shapes'
  BY <1>1, <1>2, <1>3, ShapesKept DEF TelemetryInv, Shapes, TelemetryTypeOK
<1>5. Bounded'
  BY DEF TelemetryInv, Bounded
<1>6. RevisionInv'
  BY <1>1 DEF RevisionInv
<1>7. GrowthInv'
  BY <1>1, <1>2, <1>3 DEF TelemetryInv, GrowthInv
<1>8. CloseInv'
  <2>1. CloseStoresAll'
    <3>1. CASE flush.by = "close"
      <4>1. ~closeErr' => ~failed
        BY <1>2, <3>1
      <4>2. db.totals \subseteq totals
        BY <1>3 DEF TelemetryInv, GrowthInv
      <4>3. ~failed => db'.totals = totals' /\ pending' = <<>>
        BY <3>1, <4>2
      <4> QED
        BY <4>1, <4>3 DEF CloseStoresAll
    <3>2. CASE flush.by # "close"
      BY <3>2, <1>2, <1>3 DEF CloseStoresAll
    <3> QED
      BY <3>1, <3>2
  <2>2. callers' # {} => server' = "up"
    BY <1>2, <1>3 DEF TelemetryInv, CloseInv
  <2> QED
    BY <1>1, <2>1, <2>2 DEF CloseInv
<1> QED
  BY <1>4, <1>5, <1>6, <1>7, <1>8 DEF TelemetryInv

\* The events are stored, or there were none.
LEMMA CopyOrEndKeeps ==
  ASSUME TelemetryInv, flush.at \in {"take", "events"}, CopyOrEnd,
         UNCHANGED <<totals, session, marked, callers, order, old, calls, starts>>,
         pending' \in Seq(Calls), Len(pending') <= MaxPending,
         flush.by = "close" => pending' = <<>>,
         db' \in [totals : SUBSET Calls, events : SUBSET Calls], db'.totals = db.totals,
         faults' \in 0 .. MaxFaults
  PROVE  TelemetryInv'
<1>1. Shapes
  BY DEF TelemetryInv
<1>2. Covered(marked.rev, db.totals)' <=> Covered(marked.rev, db.totals)
  BY DEF Covered
<1>3. CASE Unchanged(flush.rev)
  <2>1. marked.has /\ flush.rev = marked.rev /\ EndFlush(FALSE)
    BY <1>3 DEF CopyOrEnd, Unchanged
  <2>2. flush.by = "close" => totals \subseteq db.totals
    <3>1. SUFFICES ASSUME flush.by = "close" PROVE totals \subseteq db.totals
      OBVIOUS
    <3>2. flush.rev = Revision
      BY <3>1 DEF TelemetryInv, CloseInv
    <3>3. Covered(Revision, db.totals)
      BY <2>1, <3>2 DEF TelemetryInv, RevisionInv
    <3> QED
      BY <1>1, <3>3, CoveredAll
  <2>3. marked' \in [has : BOOLEAN, rev : 0 .. MaxCalls] /\ (marked'.has => Covered(marked.rev, db.totals)')
    BY <1>1, <1>2 DEF TelemetryInv, RevisionInv, Shapes, TelemetryTypeOK
  <2> QED
    BY <2>1, <2>2, <2>3, EndKeeps
<1>4. CASE ~Unchanged(flush.rev)
  <2>1. FlushTo("copy", flush.taken, {}) /\ UNCHANGED <<server, closeErr>>
    BY <1>4 DEF CopyOrEnd
  <2>2. flush.taken \in Seq(Calls)
    BY <1>1 DEF Shapes, FlushType
  <2>3. /\ flush' \in FlushType /\ flush'.at = "copy" /\ flush'.by = flush.by
        /\ flush'.rev = flush.rev
    BY <1>1, <2>1, <2>2, FlushToTypes
  <2>4. Shapes'
    BY <1>1, <2>1, <2>3, ShapesKept DEF Shapes, TelemetryTypeOK
  <2>5. Bounded'
    BY DEF TelemetryInv, Bounded
  <2>6. RevisionInv'
    <3>1. Covered(flush.rev, totals)'
      BY <2>3 DEF TelemetryInv, RevisionInv, Covered
    <3> QED
      BY <1>2, <2>3, <3>1 DEF TelemetryInv, RevisionInv
  <2>7. GrowthInv'
    BY <2>1, <2>3 DEF TelemetryInv, GrowthInv
  <2>8. CloseInv'
    BY <2>1, <2>3 DEF TelemetryInv, CloseInv, CloseStoresAll, Revision
  <2> QED
    BY <2>4, <2>5, <2>6, <2>7, <2>8 DEF TelemetryInv
<1> QED
  BY <1>3, <1>4

\* A step that only the flush and the counters of the store see.
LEMMA FlushMoves ==
  ASSUME TelemetryInv, UNCHANGED <<server, totals, session, marked, callers, order, closeErr, old, calls, starts>>,
         flush' \in FlushType, flush.at # "idle", flush'.at # "idle",
         flush'.by = flush.by, flush'.rev = flush.rev,
         flush'.at \in {"save", "mark"} => Covered(flush.rev, flush.copy)' /\ flush'.copy \subseteq totals,
         flush'.at = "save" => db.totals \subseteq flush'.copy,
         flush'.at = "mark" => Covered(flush.rev, db.totals)',
         pending' \in Seq(Calls), Len(pending') <= MaxPending,
         flush.by = "close" /\ flush'.at # "take" => pending' = <<>>,
         db' \in [totals : SUBSET Calls, events : SUBSET Calls],
         db.totals \subseteq db'.totals, db'.totals \subseteq totals, flush'.at # "mark" => db'.totals = db.totals,
         faults' \in 0 .. MaxFaults
  PROVE  TelemetryInv'
<1>1. Shapes'
  BY ShapesKept DEF TelemetryInv, Shapes, TelemetryTypeOK
<1>2. Bounded'
  BY DEF TelemetryInv, Bounded
<1>3. RevisionInv'
  <2>1. Covered(flush.rev, totals)'
    BY DEF TelemetryInv, RevisionInv, Covered
  <2>2. marked'.has => Covered(marked.rev, db.totals)'
    BY DEF TelemetryInv, RevisionInv, Covered
  <2> QED
    BY <2>1, <2>2 DEF RevisionInv
<1>4. server \in {"up", "closing"}
  BY DEF TelemetryInv, CloseInv
<1>5. GrowthInv'
  BY <1>4 DEF TelemetryInv, GrowthInv
<1>6. CloseInv'
  BY <1>4 DEF TelemetryInv, CloseInv, CloseStoresAll, Revision
<1> QED
  BY <1>1, <1>2, <1>3, <1>5, <1>6 DEF TelemetryInv
-----------------------------------------------------------------------------
(* The steps. *)
LEMMA NewProcessKeeps ==
  ASSUME TelemetryInv, server \notin {"up", "closing"}, NewProcess(db.totals),
         UNCHANGED <<db, old, calls, faults>>, starts' \in 0 .. MaxRestarts
  PROVE  TelemetryInv'
<1>1. /\ server' = "up" /\ totals' = db.totals /\ session' = {} /\ pending' = <<>>
      /\ marked' = Unmarked /\ callers' = {} /\ order' = <<>> /\ flush' = FlushIdle /\ closeErr' = FALSE
  BY DEF NewProcess
<1>2. /\ flush' \in FlushType /\ flush'.at = "idle" /\ marked'.has = FALSE
      /\ marked' \in [has : BOOLEAN, rev : 0 .. MaxCalls]
  BY <1>1, IdleTypes, TelemetryAssumption DEF Unmarked
<1>3. /\ <<>> \in Seq(Calls) /\ Len(<<>>) <= MaxPending
      /\ closeErr' \in BOOLEAN
  <2>1. closeErr' \in BOOLEAN
    BY <1>1
  <2> QED
    BY <2>1, TelemetryAssumption
<1>4. Shapes'
  BY <1>1, <1>2, <1>3, ShapesKept, TelemetryAssumption DEF TelemetryInv, Shapes, TelemetryTypeOK
<1>5. Bounded'
  BY <1>1 DEF TelemetryInv, Bounded
<1>6. RevisionInv' /\ GrowthInv'
  BY <1>1, <1>2 DEF RevisionInv, GrowthInv
<1>7. CloseInv'
  BY <1>1, <1>2 DEF CloseInv, CloseStoresAll
<1> QED
  BY <1>4, <1>5, <1>6, <1>7 DEF TelemetryInv

LEMMA StartKeeps ==
  ASSUME TelemetryInv, Start
  PROVE  TelemetryInv'
<1>1. /\ server \notin {"up", "closing"} /\ starts' \in 0 .. MaxRestarts
      /\ UNCHANGED <<db, old, calls>>
  BY TelemetryAssumption DEF Start, TelemetryInv, Shapes, TelemetryTypeOK
<1>2. CASE NewProcess(db.totals) /\ UNCHANGED faults
  BY <1>1, <1>2, NewProcessKeeps
<1>3. CASE /\ faults' \in 0 .. MaxFaults /\ server' = "refused"
           /\ UNCHANGED <<totals, session, pending, marked, callers, order, flush, closeErr>>
  <2>1. Shapes'
    BY <1>1, <1>3, ShapesKept DEF TelemetryInv, Shapes, TelemetryTypeOK
  <2>2. flush.at = "idle"
    BY <1>1 DEF TelemetryInv, CloseInv
  <2>3. Bounded' /\ RevisionInv' /\ GrowthInv'
    BY <1>1, <1>3, <2>2 DEF TelemetryInv, Bounded, RevisionInv, GrowthInv, Covered
  <2>4. CloseInv'
    <3>1. callers = {}
      BY <1>1 DEF TelemetryInv, CloseInv
    <3> QED
      BY <1>3, <2>2, <3>1 DEF CloseInv, CloseStoresAll
  <2> QED
    BY <2>1, <2>3, <2>4 DEF TelemetryInv
<1>4. \/ NewProcess(db.totals) /\ UNCHANGED faults
      \/ /\ faults < MaxFaults /\ faults' = faults + 1 /\ server' = "refused"
         /\ UNCHANGED <<totals, session, pending, marked, callers, order, flush, closeErr>>
  BY DEF Start
<1>5. faults < MaxFaults /\ faults' = faults + 1 => faults' \in 0 .. MaxFaults
  BY TelemetryAssumption DEF TelemetryInv, Shapes, TelemetryTypeOK
<1> QED
  BY <1>2, <1>3, <1>4, <1>5

\* A new call is in the totals and in no set of earlier calls.
LEMMA RecordCallKeeps ==
  ASSUME TelemetryInv, RecordCall
  PROVE  TelemetryInv'
<1> DEFINE new == calls + 1
<1>1. /\ server = "up" /\ calls' = new /\ callers' = callers \cup {new}
      /\ totals' = totals \cup {new} /\ session' = session \cup {new}
      /\ UNCHANGED <<server, pending, marked, order, flush, closeErr, db, old, faults, starts>>
  BY DEF RecordCall
<1>2. new \in Calls /\ new \in 0 .. MaxCalls /\ new \notin 1 .. calls
      /\ 1 .. calls \subseteq 1 .. new /\ new \in 1 .. new
  BY TelemetryAssumption DEF RecordCall, TelemetryInv, Shapes, TelemetryTypeOK, Calls
<1> HIDE DEF new
<1>3. Shapes'
  <2>1. totals' \subseteq Calls /\ session' \subseteq Calls
    BY <1>1, <1>2 DEF TelemetryInv, Shapes, TelemetryTypeOK
  <2> QED
    BY <1>1, <1>2, <2>1, ShapesKept DEF TelemetryInv, Shapes, TelemetryTypeOK
<1>4. Bounded'
  BY <1>1, <1>2 DEF TelemetryInv, Bounded
<1>5. new \notin session
  BY <1>2 DEF TelemetryInv, Bounded
<1>6. ASSUME NEW rev, NEW set, Covered(rev, set)
      PROVE  \E first \in SUBSET session' :
               Cardinality(first) = rev /\ totals' \ (session' \ first) \subseteq set
  <2>1. PICK first \in SUBSET session :
          Cardinality(first) = rev /\ totals \ (session \ first) \subseteq set
    BY <1>6 DEF Covered
  <2>2. first \in SUBSET session' /\ totals' \ (session' \ first) \subseteq set
    BY <1>1, <1>5, <2>1
  <2> QED
    BY <2>1, <2>2
<1>7. RevisionInv'
  <2>1. flush.at # "idle" => Covered(flush.rev, totals)'
    <3>1. SUFFICES ASSUME flush.at # "idle" PROVE Covered(flush.rev, totals)'
      OBVIOUS
    <3>2. PICK first \in SUBSET session' :
            Cardinality(first) = flush.rev /\ totals' \ (session' \ first) \subseteq totals
      BY <3>1, <1>6 DEF TelemetryInv, RevisionInv
    <3> QED
      BY <1>1, <3>2 DEF Covered
  <2>2. flush.at \in {"save", "mark"} => Covered(flush.rev, flush.copy)'
    <3>1. SUFFICES ASSUME flush.at \in {"save", "mark"} PROVE Covered(flush.rev, flush.copy)'
      OBVIOUS
    <3>2. PICK first \in SUBSET session' :
            Cardinality(first) = flush.rev /\ totals' \ (session' \ first) \subseteq flush.copy
      BY <3>1, <1>6 DEF TelemetryInv, RevisionInv
    <3> QED
      BY <1>1, <3>2 DEF Covered
  <2>3. flush.at = "mark" => Covered(flush.rev, db.totals)'
    <3>1. SUFFICES ASSUME flush.at = "mark" PROVE Covered(flush.rev, db.totals)'
      OBVIOUS
    <3>2. PICK first \in SUBSET session' :
            Cardinality(first) = flush.rev /\ totals' \ (session' \ first) \subseteq db.totals
      BY <3>1, <1>6 DEF TelemetryInv, RevisionInv
    <3> QED
      BY <1>1, <3>2 DEF Covered
  <2>4. marked.has => Covered(marked.rev, db.totals)'
    <3>1. SUFFICES ASSUME marked.has PROVE Covered(marked.rev, db.totals)'
      OBVIOUS
    <3>2. PICK first \in SUBSET session' :
            Cardinality(first) = marked.rev /\ totals' \ (session' \ first) \subseteq db.totals
      BY <3>1, <1>6 DEF TelemetryInv, RevisionInv
    <3> QED
      BY <1>1, <3>2 DEF Covered
  <2> QED
    BY <1>1, <2>1, <2>2, <2>3, <2>4 DEF RevisionInv
<1>8. GrowthInv'
  BY <1>1 DEF TelemetryInv, GrowthInv
<1>9. CloseInv'
  BY <1>1 DEF TelemetryInv, CloseInv, CloseStoresAll
<1> QED
  BY <1>3, <1>4, <1>7, <1>8, <1>9 DEF TelemetryInv

LEMMA EnqueueKeeps ==
  ASSUME TelemetryInv, NEW c \in Calls, EnqueueCallEvent(c)
  PROVE  TelemetryInv'
<1>1. /\ c \in callers /\ callers' = callers \ {c}
      /\ pending' = Newest(Append(pending, c)) /\ order' = Append(order, c)
      /\ UNCHANGED <<server, totals, session, marked, flush, closeErr, db, old, calls, faults, starts>>
  BY DEF EnqueueCallEvent
<1>2. pending \in Seq(Calls) /\ order \in Seq(Calls) /\ callers' \subseteq Calls
  BY <1>1 DEF TelemetryInv, Shapes, TelemetryTypeOK
<1>3. Append(pending, c) \in Seq(Calls) /\ order' \in Seq(Calls)
  BY <1>1, <1>2, AppendProperties
<1>4. pending' \in Seq(Calls) /\ Len(pending') <= MaxPending
  BY <1>1, <1>3, NewestTypes
<1>5. Shapes'
  BY <1>1, <1>2, <1>3, <1>4, TelemetryAssumption, ShapesKept DEF TelemetryInv, Shapes, TelemetryTypeOK
<1>6. Bounded' /\ GrowthInv'
  BY <1>1 DEF TelemetryInv, Bounded, GrowthInv
<1>7. RevisionInv'
  BY <1>1 DEF TelemetryInv, RevisionInv, Covered
<1>8. CloseInv'
  <2>1. server = "up" /\ ~(flush.at # "idle" /\ flush.by = "close")
    BY <1>1 DEF TelemetryInv, CloseInv
  <2> QED
    BY <1>1, <2>1 DEF TelemetryInv, CloseInv, CloseStoresAll
<1> QED
  BY <1>5, <1>6, <1>7, <1>8 DEF TelemetryInv

LEMMA BeginFlushKeeps ==
  ASSUME TelemetryInv, BeginFlush
  PROVE  TelemetryInv'
<1>1. PICK by \in {"ticker", "close"} :
        /\ (by = "ticker" /\ server = "up") \/ (by = "close" /\ server = "closing")
        /\ BeginTo(by)
  BY DEF BeginFlush
<1>2. UNCHANGED <<server, totals, session, pending, marked, callers, order, closeErr, db, old,
                  calls, faults, starts>>
  BY DEF BeginFlush
<1>3. <<>> \in Seq(Calls) /\ Revision \in 0 .. MaxCalls
  BY SessionFinite DEF TelemetryInv
<1>4. /\ flush' \in FlushType /\ flush'.at = "take" /\ flush'.by = by /\ flush'.rev = Revision
  BY <1>1, <1>3, TelemetryAssumption DEF BeginTo, FlushType
<1>5. Shapes'
  BY <1>2, <1>4, ShapesKept DEF TelemetryInv, Shapes, TelemetryTypeOK
<1>6. Bounded' /\ GrowthInv'
  BY <1>2, <1>4 DEF TelemetryInv, Bounded, GrowthInv
<1>7. RevisionInv'
  <2>1. \E first \in SUBSET session :
          Cardinality(first) = Revision /\ totals \ (session \ first) \subseteq totals
    BY DEF Revision
  <2>2. Covered(flush.rev, totals)'
    BY <1>2, <1>4, <2>1 DEF Covered
  <2>3. marked.has => Covered(marked.rev, db.totals)'
    BY <1>2 DEF TelemetryInv, RevisionInv, Covered
  <2> QED
    BY <1>2, <1>4, <2>2, <2>3 DEF RevisionInv
<1>8. CloseInv'
  BY <1>1, <1>2, <1>4 DEF TelemetryInv, CloseInv, CloseStoresAll, Revision
<1> QED
  BY <1>5, <1>6, <1>7, <1>8 DEF TelemetryInv

LEMMA TakePendingKeeps ==
  ASSUME TelemetryInv, TakePending
  PROVE  TelemetryInv'
<1>1. /\ flush.at = "take" /\ pending' = <<>>
      /\ UNCHANGED <<totals, session, marked, callers, order, db, old, calls, faults, starts>>
  BY DEF TakePending
<1>2. /\ pending \in Seq(Calls) /\ pending' \in Seq(Calls) /\ Len(pending') <= MaxPending
      /\ {} \in SUBSET Calls /\ db' \in [totals : SUBSET Calls, events : SUBSET Calls]
      /\ faults' \in 0 .. MaxFaults
  BY <1>1, TelemetryAssumption, SMTT(40) DEF TelemetryInv, Shapes, TelemetryTypeOK
<1>3. CASE pending = <<>>
  BY <1>1, <1>2, <1>3, CopyOrEndKeeps DEF TakePending
<1>4. CASE pending # <<>>
  <2>1. FlushTo("events", pending, {}) /\ UNCHANGED <<server, closeErr>>
    BY <1>4 DEF TakePending
  <2>2. /\ flush' \in FlushType /\ flush'.at = "events" /\ flush'.by = flush.by
        /\ flush'.rev = flush.rev
    BY <2>1, <1>2, FlushToTypes DEF TelemetryInv
  <2>3. db.totals \subseteq totals
    BY <1>1 DEF TelemetryInv, CloseInv, GrowthInv
  <2> QED
    BY <1>1, <1>2, <2>1, <2>2, <2>3, FlushMoves
<1> QED
  BY <1>3, <1>4

\* The store is busy: the flush tries again.
LEMMA BusyKeeps ==
  ASSUME TelemetryInv, flush.at \in {"events", "save"}, Busy,
         UNCHANGED <<totals, session, pending, marked, callers, order, db, old, calls, starts>>
  PROVE  TelemetryInv'
<1>1. /\ faults' \in 0 .. MaxFaults /\ flush.tries + 1 < MaxAttempts
      /\ flush' = [flush EXCEPT !.tries = flush.tries + 1] /\ UNCHANGED <<server, closeErr>>
  BY TelemetryAssumption, SMTT(40) DEF Busy, TelemetryInv, Shapes, TelemetryTypeOK
<1>2. flush.tries + 1 \in 0 .. MaxAttempts /\ flush \in FlushType
  BY <1>1, TelemetryAssumption DEF TelemetryInv, Shapes, FlushType
<1>3. /\ flush' \in FlushType /\ flush'.at = flush.at /\ flush'.by = flush.by
      /\ flush'.rev = flush.rev /\ flush'.copy = flush.copy
  BY <1>1, <1>2 DEF FlushType
<1>4. /\ flush.at = "save" => Covered(flush.rev, flush.copy)
      /\ flush.at = "save" => db.totals \subseteq flush.copy /\ flush.copy \subseteq totals
      /\ db.totals \subseteq totals
      /\ flush.by = "close" => pending = <<>>
  BY DEF TelemetryInv, RevisionInv, GrowthInv, CloseInv
<1>5. flush.at = "save" => Covered(flush.rev, flush.copy)'
  BY <1>3, <1>4 DEF Covered
<1>6. /\ pending' \in Seq(Calls) /\ Len(pending') <= MaxPending
      /\ db' \in [totals : SUBSET Calls, events : SUBSET Calls]
  BY DEF TelemetryInv, Shapes, TelemetryTypeOK
<1> QED
  BY <1>1, <1>3, <1>4, <1>5, <1>6, FlushMoves

LEMMA FailsKeeps ==
  ASSUME TelemetryInv, flush.at \in {"events", "save"}, Fails,
         pending' \in Seq(Calls), Len(pending') <= MaxPending,
         UNCHANGED <<totals, session, marked, callers, order, db, old, calls, starts>>
  PROVE  TelemetryInv'
<1>1. faults' \in 0 .. MaxFaults
  <2>1. faults < MaxFaults /\ faults' = faults + 1
    BY DEF Fails
  <2> QED
    BY <2>1, TelemetryAssumption DEF TelemetryInv, Shapes, TelemetryTypeOK
<1>4. EndFlush(TRUE)
  BY DEF Fails
<1>2. marked'.has => Covered(marked.rev, db.totals)'
  BY DEF TelemetryInv, RevisionInv, Covered
<1>3. /\ marked' \in [has : BOOLEAN, rev : 0 .. MaxCalls]
      /\ db' \in [totals : SUBSET Calls, events : SUBSET Calls]
  BY DEF TelemetryInv, Shapes, TelemetryTypeOK
<1> QED
  BY <1>1, <1>2, <1>3, <1>4, EndKeeps

LEMMA SaveCallEventsKeeps ==
  ASSUME TelemetryInv, SaveCallEvents
  PROVE  TelemetryInv'
<1>1. /\ flush.at = "events"
      /\ UNCHANGED <<totals, session, marked, callers, order, old, calls, starts>>
  BY DEF SaveCallEvents
<1>2. /\ flush.taken \in Seq(Calls) /\ pending \in Seq(Calls) /\ Len(pending) <= MaxPending
      /\ db \in [totals : SUBSET Calls, events : SUBSET Calls] /\ faults \in 0 .. MaxFaults
  BY DEF TelemetryInv, Shapes, TelemetryTypeOK
<1>3. CASE /\ db' = [db EXCEPT !.events = (@ \cup Listed(flush.taken)) \ old]
           /\ CopyOrEnd /\ UNCHANGED <<pending, faults>>
  <2>1. Listed(flush.taken) \subseteq Calls
    BY <1>2, ElementOfSeq DEF Listed
  <2>2. db' \in [totals : SUBSET Calls, events : SUBSET Calls] /\ db'.totals = db.totals
    BY <1>2, <1>3, <2>1
  <2>3. flush.by = "close" => pending = <<>>
    BY <1>1 DEF TelemetryInv, CloseInv
  <2> QED
    BY <1>1, <1>2, <1>3, <2>2, <2>3, CopyOrEndKeeps
<1>4. CASE Busy /\ UNCHANGED <<db, pending>>
  BY <1>1, <1>4, BusyKeeps
<1>5. CASE Fails /\ pending' = Requeued /\ UNCHANGED db
  <2>1. flush.taken \o pending \in Seq(Calls)
    BY <1>2, ConcatProperties
  <2>2. pending' \in Seq(Calls) /\ Len(pending') <= MaxPending
    BY <1>5, <2>1, NewestTypes DEF Requeued
  <2> QED
    BY <1>1, <1>5, <2>2, FailsKeeps
<1> QED
  BY <1>3, <1>4, <1>5 DEF SaveCallEvents

LEMMA CopyTotalsKeeps ==
  ASSUME TelemetryInv, CopyTotals
  PROVE  TelemetryInv'
<1>1. /\ flush.at = "copy" /\ FlushTo("save", flush.taken, totals)
      /\ UNCHANGED <<server, totals, session, pending, marked, callers, order, closeErr, db, old,
                     calls, faults, starts>>
  BY DEF CopyTotals
<1>2. flush.taken \in Seq(Calls) /\ totals \in SUBSET Calls
  BY DEF TelemetryInv, Shapes, TelemetryTypeOK
<1>3. /\ flush' \in FlushType /\ flush'.at = "save" /\ flush'.by = flush.by
      /\ flush'.rev = flush.rev /\ flush'.copy = totals
  BY <1>1, <1>2, FlushToTypes DEF TelemetryInv
<1>4. /\ Covered(flush.rev, totals) /\ db.totals \subseteq totals
      /\ flush.by = "close" => pending = <<>>
  BY <1>1 DEF TelemetryInv, RevisionInv, GrowthInv, CloseInv
<1>5. Covered(flush.rev, flush.copy)'
  BY <1>1, <1>3, <1>4 DEF Covered
<1>6. /\ pending' \in Seq(Calls) /\ Len(pending') <= MaxPending /\ faults' \in 0 .. MaxFaults
      /\ db' \in [totals : SUBSET Calls, events : SUBSET Calls]
  BY <1>1 DEF TelemetryInv, Shapes, TelemetryTypeOK
<1> QED
  BY <1>1, <1>3, <1>4, <1>5, <1>6, FlushMoves

LEMMA SaveSnapshotKeeps ==
  ASSUME TelemetryInv, SaveSnapshot
  PROVE  TelemetryInv'
<1>1. /\ flush.at = "save"
      /\ UNCHANGED <<totals, session, pending, marked, callers, order, old, calls, starts>>
  BY DEF SaveSnapshot
<1>2. /\ flush.taken \in Seq(Calls) /\ flush.copy \in SUBSET Calls
      /\ pending' \in Seq(Calls) /\ Len(pending') <= MaxPending
      /\ db \in [totals : SUBSET Calls, events : SUBSET Calls] /\ faults \in 0 .. MaxFaults
  BY <1>1 DEF TelemetryInv, Shapes, TelemetryTypeOK, FlushType
<1>3. CASE /\ db' = [db EXCEPT !.totals = flush.copy]
           /\ FlushTo("mark", flush.taken, flush.copy) /\ UNCHANGED <<server, closeErr, faults>>
  <2>1. db' \in [totals : SUBSET Calls, events : SUBSET Calls] /\ db'.totals = flush.copy
    BY <1>2, <1>3
  <2>2. /\ flush' \in FlushType /\ flush'.at = "mark" /\ flush'.by = flush.by
        /\ flush'.rev = flush.rev /\ flush'.copy = flush.copy
    BY <1>2, <1>3, FlushToTypes DEF TelemetryInv
  <2>3. /\ Covered(flush.rev, flush.copy) /\ db.totals \subseteq flush.copy
        /\ flush.copy \subseteq totals
        /\ flush.by = "close" => pending = <<>>
    BY <1>1 DEF TelemetryInv, RevisionInv, GrowthInv, CloseInv
  <2>4. Covered(flush.rev, flush.copy)' /\ Covered(flush.rev, db.totals)'
    BY <1>1, <2>1, <2>2, <2>3 DEF Covered
  <2> QED
    BY <1>1, <1>2, <1>3, <2>1, <2>2, <2>3, <2>4, FlushMoves
<1>4. CASE (Busy \/ Fails) /\ UNCHANGED db
  BY <1>1, <1>2, <1>4, BusyKeeps, FailsKeeps
<1> QED
  BY <1>3, <1>4 DEF SaveSnapshot

LEMMA MarkKeeps ==
  ASSUME TelemetryInv, Mark
  PROVE  TelemetryInv'
<1>1. /\ flush.at = "mark" /\ marked' = Marked /\ EndFlush(FALSE)
      /\ UNCHANGED <<totals, session, pending, callers, order, db, old, calls, faults, starts>>
  BY DEF Mark
<1>2. flush.rev \in 0 .. MaxCalls
  BY DEF TelemetryInv, Shapes, FlushType
<1>3. marked' \in [has : BOOLEAN, rev : 0 .. MaxCalls] /\ marked'.rev = flush.rev
  BY <1>1, <1>2 DEF Marked
<1>4. Covered(flush.rev, db.totals) /\ (flush.by = "close" => flush.rev = Revision /\ pending = <<>>)
  BY <1>1 DEF TelemetryInv, RevisionInv, CloseInv
<1>5. Covered(marked.rev, db.totals)'
  BY <1>1, <1>3, <1>4 DEF Covered
<1>6. flush.by = "close" => totals \subseteq db.totals
  BY <1>4, CoveredAll DEF TelemetryInv
<1>7. /\ pending' \in Seq(Calls) /\ Len(pending') <= MaxPending /\ faults' \in 0 .. MaxFaults
      /\ db' \in [totals : SUBSET Calls, events : SUBSET Calls]
  BY <1>1 DEF TelemetryInv, Shapes, TelemetryTypeOK
<1> QED
  BY <1>1, <1>3, <1>4, <1>5, <1>6, <1>7, EndKeeps

LEMMA CloseKeeps ==
  ASSUME TelemetryInv, Close
  PROVE  TelemetryInv'
<1>1. /\ server = "up" /\ server' = "closing" /\ callers = {}
      /\ UNCHANGED <<totals, session, pending, marked, callers, order, flush, closeErr, db, old,
                     calls, faults, starts>>
  BY DEF Close
<1>2. Shapes'
  BY <1>1, ShapesKept DEF TelemetryInv, Shapes, TelemetryTypeOK
<1>3. Bounded' /\ RevisionInv' /\ GrowthInv'
  BY <1>1 DEF TelemetryInv, Bounded, RevisionInv, GrowthInv, Covered
<1>4. CloseInv'
  BY <1>1 DEF TelemetryInv, CloseInv, CloseStoresAll
<1> QED
  BY <1>2, <1>3, <1>4 DEF TelemetryInv

LEMMA CrashKeeps ==
  ASSUME TelemetryInv, Crash
  PROVE  TelemetryInv'
<1>1. /\ server' = "down" /\ totals' = {} /\ session' = {} /\ pending' = <<>>
      /\ marked' = Unmarked /\ callers' = {} /\ order' = <<>> /\ flush' = FlushIdle /\ closeErr' = FALSE
      /\ UNCHANGED <<db, old, calls, faults, starts>>
  BY DEF Crash
<1>2. /\ flush' \in FlushType /\ flush'.at = "idle" /\ marked'.has = FALSE
      /\ marked' \in [has : BOOLEAN, rev : 0 .. MaxCalls]
  BY <1>1, IdleTypes, TelemetryAssumption DEF Unmarked
<1>3. /\ <<>> \in Seq(Calls) /\ Len(<<>>) <= MaxPending
      /\ closeErr' \in BOOLEAN
  <2>1. closeErr' \in BOOLEAN
    BY <1>1
  <2> QED
    BY <2>1, TelemetryAssumption
<1>4. Shapes'
  BY <1>1, <1>2, <1>3, ShapesKept, TelemetryAssumption DEF TelemetryInv, Shapes, TelemetryTypeOK
<1>5. Bounded' /\ RevisionInv' /\ GrowthInv' /\ CloseInv'
  BY <1>1, <1>2 DEF TelemetryInv, Bounded, RevisionInv, GrowthInv, CloseInv, CloseStoresAll
<1> QED
  BY <1>4, <1>5 DEF TelemetryInv

\* Steps that change nothing the invariant speaks of, but the age of the calls.
LEMMA AgeKeeps ==
  ASSUME TelemetryInv, Age \/ UNCHANGED telemetryVars
  PROVE  TelemetryInv'
<1>1. /\ UNCHANGED <<server, totals, session, pending, marked, callers, order, flush, closeErr, db,
                     calls, faults, starts>>
      /\ old' = 1 .. calls \/ old' = old
  BY DEF Age, telemetryVars
<1>2. 1 .. calls \subseteq Calls
  BY TelemetryAssumption DEF TelemetryInv, Shapes, TelemetryTypeOK, Calls
<1>3. Shapes'
  BY <1>1, <1>2, ShapesKept DEF TelemetryInv, Shapes, TelemetryTypeOK
<1>4. Bounded' /\ RevisionInv' /\ GrowthInv'
  BY <1>1 DEF TelemetryInv, Bounded, RevisionInv, GrowthInv, Covered
<1>5. CloseInv'
  BY <1>1 DEF TelemetryInv, CloseInv, CloseStoresAll, Revision
<1> QED
  BY <1>3, <1>4, <1>5 DEF TelemetryInv

LEMMA TelemetryStepKeeps == TelemetryInv /\ [TelemetryNext]_telemetryVars => TelemetryInv'
<1> SUFFICES ASSUME TelemetryInv, [TelemetryNext]_telemetryVars PROVE TelemetryInv'
  OBVIOUS
<1>1. CASE Start \/ RecordCall \/ Enqueue \/ Close \/ Crash
  BY <1>1, StartKeeps, RecordCallKeeps, EnqueueKeeps, CloseKeeps, CrashKeeps DEF Enqueue
<1>2. CASE FlushStep
  BY <1>2, BeginFlushKeeps, TakePendingKeeps, SaveCallEventsKeeps, CopyTotalsKeeps,
     SaveSnapshotKeeps, MarkKeeps DEF FlushStep
<1>3. CASE Age \/ UNCHANGED telemetryVars
  BY <1>3, AgeKeeps
<1> QED
  BY <1>1, <1>2, <1>3 DEF TelemetryNext
-----------------------------------------------------------------------------
\* Tracker, queue, flush and store keep their shape, and the queue its limit (Runtime).
THEOREM TelemetryTypeCorrect == TelemetrySpec => []TelemetryTypeOK
<1>1. TelemetryInv => TelemetryTypeOK
  BY DEF TelemetryInv, Shapes
<1> QED
  BY TelemetryInitHolds, TelemetryStepKeeps, <1>1, PTL DEF TelemetrySpec

\* A flush that is skipped because the revision was noted misses no call: the revision was
\* read before the totals were copied (Runtime.Flush).
THEOREM RevisionIsHonest == TelemetrySpec => []NothingForgotten
<1>1. TelemetryInv => NothingForgotten
  BY CoveredAll DEF TelemetryInv, RevisionInv, NothingForgotten
<1> QED
  BY TelemetryInitHolds, TelemetryStepKeeps, <1>1, PTL DEF TelemetrySpec

\* A Close without an error has stored all totals and left no event (Runtime.Close).
THEOREM CloseIsComplete == TelemetrySpec => []CloseStoresAll
<1>1. TelemetryInv => CloseStoresAll
  BY DEF TelemetryInv, CloseInv
<1> QED
  BY TelemetryInitHolds, TelemetryStepKeeps, <1>1, PTL DEF TelemetrySpec

\* The stored totals only grow, over crashes, failed saves and restarts.
THEOREM TotalsGrow == TelemetrySpec => TotalsNeverShrink
<1>1. TelemetryInv /\ [TelemetryNext]_telemetryVars => [db.totals \subseteq db.totals']_telemetryVars
  <2> SUFFICES ASSUME TelemetryInv, TelemetryNext PROVE db.totals \subseteq db.totals'
    OBVIOUS
  <2>1. CASE UNCHANGED db
    BY <2>1
  <2>2. CASE SaveCallEvents
    <3>1. db \in [totals : SUBSET Calls, events : SUBSET Calls]
      BY DEF TelemetryInv, Shapes
    <3>2. db'.totals = db.totals
      BY <2>2, <3>1 DEF SaveCallEvents
    <3> QED
      BY <3>2
  <2>3. CASE SaveSnapshot
    <3>1. /\ db \in [totals : SUBSET Calls, events : SUBSET Calls]
          /\ db.totals \subseteq flush.copy
      BY <2>3 DEF TelemetryInv, Shapes, GrowthInv, SaveSnapshot
    <3>2. db' = [db EXCEPT !.totals = flush.copy] \/ UNCHANGED db
      BY <2>3 DEF SaveSnapshot
    <3> QED
      BY <3>1, <3>2
  <2> QED
    BY <2>1, <2>2, <2>3 DEF TelemetryNext, Start, RecordCall, Enqueue, EnqueueCallEvent, FlushStep,
       BeginFlush, TakePending, CopyTotals, Mark, Close, Crash, Age
<1> QED
  BY TelemetryInitHolds, TelemetryStepKeeps, <1>1, PTL DEF TelemetrySpec, TotalsNeverShrink
-----------------------------------------------------------------------------
(* The queue of call events. *)
EndsWith(o, s) == Len(s) <= Len(o) /\ \A k \in 1 .. Len(s) : s[k] = o[Len(o) - Len(s) + k]

\* Where the event of a call may be, and need not be any more.
Settled == Listed(pending) \cup Listed(flush.taken) \cup db.events \cup old

\* The queue is the end of what was enqueued, and so is what a flush took with all since,
\* unless the queue has filled up meanwhile.
OrderInv ==
  /\ session = callers \cup Listed(order)
  /\ EndsWith(order, pending)
  /\ flush.at = "events" => Len(pending) = MaxPending \/ EndsWith(order, flush.taken \o pending)

\* Once they are saved, the events that a flush still lists are safe.
SavedInv ==
  /\ flush.at \in {"idle", "take"} => flush.taken = <<>>
  /\ flush.at \in {"copy", "save", "mark"} => Listed(flush.taken) \subseteq db.events \cup old

\* Of what was enqueued, the last MaxPending are not lost.
KeptInv == \A i \in 1 .. Len(order) : order[i] \in Settled \/ i <= Len(order) - MaxPending

QueueInv == OrderInv /\ SavedInv /\ KeptInv

\* Only calls there have been grow old.
Aged == old \subseteq 1 .. calls

LEMMA ListedIs ==
  ASSUME NEW s \in Seq(Calls)
  PROVE  /\ DOMAIN s = 1 .. Len(s) /\ Len(s) \in Nat
         /\ Listed(s) \subseteq Calls
         /\ \A x : x \in Listed(s) <=> \E i \in 1 .. Len(s) : s[i] = x
<1>1. DOMAIN s = 1 .. Len(s) /\ Len(s) \in Nat /\ \A i \in 1 .. Len(s) : s[i] \in Calls
  BY LenProperties, ElementOfSeq
<1> QED
  BY <1>1 DEF Listed

LEMMA ListedConcat ==
  ASSUME NEW s \in Seq(Calls), NEW t \in Seq(Calls)
  PROVE  /\ s \o t \in Seq(Calls) /\ Len(s \o t) = Len(s) + Len(t)
         /\ Listed(s \o t) = Listed(s) \cup Listed(t)
         /\ \A i \in 1 .. Len(s) : (s \o t)[i] = s[i]
         /\ \A i \in 1 .. Len(t) : (s \o t)[Len(s) + i] = t[i]
<1>1. /\ s \o t \in Seq(Calls) /\ Len(s \o t) = Len(s) + Len(t)
      /\ \A i \in 1 .. Len(s) + Len(t) : (s \o t)[i] = IF i <= Len(s) THEN s[i] ELSE t[i - Len(s)]
  BY ConcatProperties
<1>2. /\ \A i \in 1 .. Len(s) : (s \o t)[i] = s[i]
      /\ \A i \in 1 .. Len(t) : (s \o t)[Len(s) + i] = t[i]
  BY <1>1, ListedIs
<1>3. \A x : x \in Listed(s \o t) <=> x \in Listed(s) \/ x \in Listed(t)
  <2>1. ASSUME NEW x, x \in Listed(s \o t) PROVE x \in Listed(s) \/ x \in Listed(t)
    <3>1. PICK i \in 1 .. Len(s) + Len(t) : (s \o t)[i] = x
      BY <1>1, <2>1, ListedIs
    <3>2. CASE i <= Len(s)
      BY <1>1, <3>1, <3>2, ListedIs
    <3>3. CASE ~(i <= Len(s))
      <4>1. i - Len(s) \in 1 .. Len(t) /\ t[i - Len(s)] = x
        BY <1>1, <3>1, <3>3, ListedIs
      <4> QED
        BY <4>1, ListedIs
    <3> QED
      BY <3>2, <3>3
  <2>2. ASSUME NEW x, x \in Listed(s) PROVE x \in Listed(s \o t)
    <3>1. PICK i \in 1 .. Len(s) : s[i] = x
      BY <2>2, ListedIs
    <3>2. i \in 1 .. Len(s \o t) /\ (s \o t)[i] = x
      BY <1>1, <1>2, <3>1, ListedIs
    <3> QED
      BY <1>1, <3>2, ListedIs
  <2>3. ASSUME NEW x, x \in Listed(t) PROVE x \in Listed(s \o t)
    <3>1. PICK i \in 1 .. Len(t) : t[i] = x
      BY <2>3, ListedIs
    <3>2. Len(s) + i \in 1 .. Len(s \o t) /\ (s \o t)[Len(s) + i] = x
      BY <1>1, <1>2, <3>1, ListedIs
    <3> QED
      BY <1>1, <3>2, ListedIs
  <2> QED
    BY <2>1, <2>2, <2>3
<1> QED
  BY <1>1, <1>2, <1>3

\* What Newest keeps is at the end of the queue.
LEMMA NewestIs ==
  ASSUME NEW s \in Seq(Calls)
  PROVE  LET n == Newest(s) IN
         /\ n \in Seq(Calls) /\ Len(n) = (IF Len(s) <= MaxPending THEN Len(s) ELSE MaxPending)
         /\ \A i \in 1 .. Len(n) : n[i] = s[Len(s) - Len(n) + i]
<1>1. CASE Len(s) <= MaxPending
  <2>1. Newest(s) = s
    BY <1>1 DEF Newest
  <2> QED
    BY <1>1, <2>1, ListedIs
<1>2. CASE ~(Len(s) <= MaxPending)
  <2> DEFINE m == Len(s) - MaxPending + 1
             k == Len(s)
  <2>1. m \in Int /\ k \in Int /\ m >= 1 /\ m <= k /\ k - m + 1 = MaxPending
        /\ Len(s) - MaxPending = m - 1
    BY <1>2, TelemetryAssumption, LenProperties
  <2>2. \A i \in m .. k : s[i] \in Calls
    BY <2>1, ElementOfSeq
  <2>3. Newest(s) = SubSeq(s, m, k)
    BY <1>2 DEF Newest
  <2> HIDE DEF m, k
  <2>4. SubSeq(s, m, k) \in Seq(Calls) /\ Len(SubSeq(s, m, k)) = k - m + 1
        /\ \A i \in 1 .. k - m + 1 : SubSeq(s, m, k)[i] = s[m + i - 1]
    BY <2>1, <2>2, SubSeqProperties
  <2>5. /\ Newest(s) \in Seq(Calls) /\ Len(Newest(s)) = MaxPending
        /\ \A i \in 1 .. MaxPending : Newest(s)[i] = s[m + i - 1]
    BY <2>1, <2>3, <2>4
  <2>6. \A i \in 1 .. MaxPending : m + i - 1 = Len(s) - MaxPending + i
    BY <2>1, TelemetryAssumption, LenProperties
  <2> QED
    BY <1>2, <2>5, <2>6
<1> QED
  BY <1>1, <1>2

\* What Newest keeps of the end of a sequence is its end; all of it, or MaxPending.
LEMMA NewestEnds ==
  ASSUME NEW o \in Seq(Calls), NEW s \in Seq(Calls), EndsWith(o, s)
  PROVE  EndsWith(o, Newest(s)) /\ (Newest(s) = s \/ Len(Newest(s)) = MaxPending)
<1> DEFINE n == Newest(s)
<1>1. /\ Len(n) = (IF Len(s) <= MaxPending THEN Len(s) ELSE MaxPending)
      /\ \A i \in 1 .. Len(n) : n[i] = s[Len(s) - Len(n) + i]
  BY NewestIs
<1>2. n = s \/ Len(n) = MaxPending
  BY <1>1 DEF Newest
<1>3. Len(o) \in Nat /\ Len(s) \in Nat /\ Len(n) \in Nat /\ Len(n) <= Len(s)
  BY <1>1, ListedIs, TelemetryAssumption
<1> HIDE DEF n
<1>4. ASSUME NEW k \in 1 .. Len(n) PROVE n[k] = o[Len(o) - Len(n) + k]
  <2>1. Len(s) - Len(n) + k \in 1 .. Len(s)
    BY <1>3
  <2>2. s[Len(s) - Len(n) + k] = o[Len(o) - Len(s) + (Len(s) - Len(n) + k)]
    BY <2>1 DEF EndsWith
  <2>3. Len(o) - Len(s) + (Len(s) - Len(n) + k) = Len(o) - Len(n) + k
    BY <1>3
  <2> QED
    BY <1>1, <2>2, <2>3
<1>5. EndsWith(o, n)
  BY <1>3, <1>4 DEF EndsWith
<1> QED
  BY <1>2, <1>5 DEF n

\* An event at the end of both keeps the one the end of the other.
LEMMA AppendEnds ==
  ASSUME NEW o \in Seq(Calls), NEW s \in Seq(Calls), EndsWith(o, s), NEW c \in Calls
  PROVE  EndsWith(Append(o, c), Append(s, c))
<1> DEFINE p == Append(o, c)
           t == Append(s, c)
<1>1. /\ Len(p) = Len(o) + 1 /\ p[Len(o) + 1] = c /\ \A i \in 1 .. Len(o) : p[i] = o[i]
      /\ Len(t) = Len(s) + 1 /\ t[Len(s) + 1] = c /\ \A i \in 1 .. Len(s) : t[i] = s[i]
      /\ Len(o) \in Nat /\ Len(s) \in Nat /\ Len(s) <= Len(o)
  BY AppendProperties, LenProperties DEF EndsWith
<1> HIDE DEF p, t
<1>2. ASSUME NEW k \in 1 .. Len(t) PROVE t[k] = p[Len(p) - Len(t) + k]
  <2>1. CASE k = Len(s) + 1
    <3>1. Len(p) - Len(t) + k = Len(o) + 1
      BY <1>1, <2>1
    <3> QED
      BY <1>1, <2>1, <3>1
  <2>2. CASE k # Len(s) + 1
    <3>1. /\ k \in 1 .. Len(s) /\ Len(o) - Len(s) + k \in 1 .. Len(o)
          /\ Len(p) - Len(t) + k = Len(o) - Len(s) + k
      BY <1>1, <2>2
    <3>2. s[k] = o[Len(o) - Len(s) + k]
      BY <3>1 DEF EndsWith
    <3> QED
      BY <1>1, <3>1, <3>2
  <2> QED
    BY <2>1, <2>2
<1>3. EndsWith(p, t)
  BY <1>1, <1>2 DEF EndsWith
<1> QED
  BY <1>3 DEF p, t

\* The end of a sequence lists what stands there.
LEMMA EndLists ==
  ASSUME NEW o \in Seq(Calls), NEW s \in Seq(Calls), EndsWith(o, s),
         NEW i \in 1 .. Len(o), i > Len(o) - Len(s)
  PROVE  o[i] \in Listed(s)
<1> DEFINE k == i - (Len(o) - Len(s))
<1>1. Len(o) \in Nat /\ Len(s) \in Nat /\ Len(s) <= Len(o)
  BY ListedIs DEF EndsWith
<1>2. k \in 1 .. Len(s) /\ Len(o) - Len(s) + k = i
  BY <1>1
<1>3. s[k] = o[i]
  BY <1>2 DEF EndsWith
<1> QED
  BY <1>2, <1>3, ListedIs

LEMMA AppendLists ==
  ASSUME NEW s \in Seq(Calls), NEW c \in Calls
  PROVE  Append(s, c) \in Seq(Calls) /\ Listed(Append(s, c)) = Listed(s) \cup {c}
<1> DEFINE q == Append(s, c)
<1>1. /\ q \in Seq(Calls) /\ Len(q) = Len(s) + 1 /\ q[Len(s) + 1] = c
      /\ \A i \in 1 .. Len(s) : q[i] = s[i]
      /\ Len(s) \in Nat
  BY LenProperties, AppendProperties
<1> HIDE DEF q
<1>2. \A x : x \in Listed(q) <=> \E i \in 1 .. Len(s) + 1 : q[i] = x
  BY <1>1, ListedIs
<1>3. \A x : x \in Listed(s) <=> \E i \in 1 .. Len(s) : s[i] = x
  BY ListedIs
<1>4. \A i \in 1 .. Len(s) + 1 : i \in 1 .. Len(s) \/ i = Len(s) + 1
  BY <1>1
<1>5. Len(s) + 1 \in 1 .. Len(s) + 1 /\ \A i \in 1 .. Len(s) : i \in 1 .. Len(s) + 1
  BY <1>1
<1>6. Listed(q) = Listed(s) \cup {c}
  BY <1>1, <1>2, <1>3, <1>4, <1>5
<1> QED
  BY <1>1, <1>6 DEF q

LEMMA ConcatAppend ==
  ASSUME NEW s \in Seq(Calls), NEW t \in Seq(Calls), NEW c \in Calls
  PROVE  Append(s \o t, c) = s \o Append(t, c)
<1> DEFINE u == <<c>>
<1>1. u \in Seq(Calls) /\ s \o t \in Seq(Calls)
  BY ConcatProperties
<1>2. Append(s \o t, c) = (s \o t) \o u /\ Append(t, c) = t \o u
  BY <1>1, AppendIsConcat
<1> HIDE DEF u
<1>3. (s \o t) \o u = s \o (t \o u)
  BY <1>1, ConcatAssociative
<1> QED
  BY <1>2, <1>3

LEMMA NoneListed == Listed(<<>>) = {}
BY DEF Listed

LEMMA QueueTypes ==
  ASSUME TelemetryInv
  PROVE  /\ pending \in Seq(Calls) /\ flush.taken \in Seq(Calls) /\ order \in Seq(Calls)
         /\ calls \in Nat /\ Len(pending) \in Nat /\ Len(pending) <= MaxPending
         /\ Len(order) \in Nat
<1>1. /\ pending \in Seq(Calls) /\ flush.taken \in Seq(Calls) /\ order \in Seq(Calls)
      /\ calls \in Nat /\ Len(pending) <= MaxPending
  BY TelemetryAssumption DEF TelemetryInv, Shapes, TelemetryTypeOK
<1> QED
  BY <1>1, LenProperties

LEMMA NoneEnds ==
  ASSUME NEW o \in Seq(Calls)
  PROVE  EndsWith(o, <<>>)
BY LenProperties DEF EndsWith

\* A process that has enqueued nothing has lost nothing.
LEMMA FreshHolds ==
  ASSUME session = {}, pending = <<>>, callers = {}, order = <<>>,
         flush.at = "idle", flush.taken = <<>>
  PROVE  QueueInv
<1>1. EndsWith(order, pending)
  BY DEF EndsWith
<1> QED
  BY <1>1, NoneListed DEF QueueInv, OrderInv, SavedInv, KeptInv

LEMMA QueueInitHolds == TelemetryInit => QueueInv
BY FreshHolds DEF TelemetryInit, FlushIdle

LEMMA FreshKeeps ==
  ASSUME session' = {}, pending' = <<>>, callers' = {}, order' = <<>>, flush' = FlushIdle
  PROVE  QueueInv'
<1>1. flush'.at = "idle" /\ flush'.taken = <<>>
  BY DEF FlushIdle
<1>2. EndsWith(order, pending)'
  BY DEF EndsWith
<1> QED
  BY <1>1, <1>2, NoneListed DEF QueueInv, OrderInv, SavedInv, KeptInv

\* A step that leaves the queue alone, and lets go of an event only when it is saved.
LEMMA SafeKeeps ==
  ASSUME QueueInv, UNCHANGED <<session, pending, callers, order>>,
         db.events \cup old \subseteq db'.events \cup old',
         flush'.taken = flush.taken \/ flush'.taken = <<>>,
         Listed(flush.taken) \subseteq Listed(flush'.taken) \cup db'.events \cup old',
         flush'.at = "events" => flush.at = "events" /\ flush'.taken = flush.taken,
         SavedInv'
  PROVE  QueueInv'
<1>1. Settled \subseteq Settled'
  BY DEF Settled
<1>2. OrderInv'
  BY DEF QueueInv, OrderInv
<1>3. KeptInv'
  BY <1>1 DEF QueueInv, KeptInv
<1> QED
  BY <1>2, <1>3 DEF QueueInv

LEMMA EndIsIdle ==
  ASSUME NEW failed, EndFlush(failed)
  PROVE  flush'.at = "idle" /\ flush'.taken = <<>>
BY DEF EndFlush, FlushIdle

\* The events have been stored, or there were none.
LEMMA CopyOrEndIsSafe ==
  ASSUME QueueInv, flush.at \in {"take", "events"}, CopyOrEnd, UNCHANGED <<session, pending, callers, order>>,
         db.events \cup old \subseteq db'.events \cup old',
         Listed(flush.taken) \subseteq db'.events \cup old'
  PROVE  QueueInv'
<1>1. \/ flush'.at = "idle" /\ flush'.taken = <<>>
      \/ flush'.at = "copy" /\ flush'.taken = flush.taken
  <2>1. CASE EndFlush(FALSE)
    BY <2>1, EndIsIdle
  <2>2. CASE FlushTo("copy", flush.taken, {})
    BY <2>2 DEF FlushTo
  <2> QED
    BY <2>1, <2>2 DEF CopyOrEnd
<1>2. SavedInv'
  BY <1>1, NoneListed DEF SavedInv
<1> QED
  BY <1>1, <1>2, SafeKeeps

LEMMA RecordKeepsQueue ==
  ASSUME QueueInv, RecordCall
  PROVE  QueueInv'
<1>1. /\ callers' = callers \cup {calls + 1} /\ session' = session \cup {calls + 1}
      /\ UNCHANGED <<pending, order, flush, db, old>>
  BY DEF RecordCall
<1>2. OrderInv'
  BY <1>1 DEF QueueInv, OrderInv
<1>3. SavedInv' /\ KeptInv'
  BY <1>1 DEF QueueInv, SavedInv, KeptInv, Settled
<1> QED
  BY <1>2, <1>3 DEF QueueInv

\* An event joins the queue, which may be full.
LEMMA EnqueueKeepsQueue ==
  ASSUME TelemetryInv, TelemetryInv', QueueInv, NEW c \in Calls, EnqueueCallEvent(c)
  PROVE  QueueInv'
<1> DEFINE q == Append(pending, c)
           o == Append(order, c)
<1>1. /\ c \in callers /\ callers' = callers \ {c} /\ pending' = Newest(q) /\ order' = o
      /\ UNCHANGED <<session, flush, db, old>>
  BY DEF EnqueueCallEvent
<1>2. /\ q \in Seq(Calls) /\ o \in Seq(Calls) /\ Len(q) = Len(pending) + 1 /\ Len(o) = Len(order) + 1
      /\ o[Len(order) + 1] = c /\ \A i \in 1 .. Len(order) : o[i] = order[i]
  BY QueueTypes, AppendProperties
<1>3. Listed(q) = Listed(pending) \cup {c} /\ Listed(o) = Listed(order) \cup {c}
  BY QueueTypes, AppendLists
<1>4. EndsWith(o, q)
  BY QueueTypes, AppendEnds DEF QueueInv, OrderInv
<1> HIDE DEF q, o
<1>5. EndsWith(o, pending') /\ (pending' = q \/ Len(pending') = MaxPending)
  BY <1>1, <1>2, <1>4, NewestEnds
<1>6. OrderInv'
  <2>1. session' = callers' \cup Listed(order')
    BY <1>1, <1>3 DEF QueueInv, OrderInv
  <2>2. ASSUME flush'.at = "events", Len(pending') # MaxPending
        PROVE  EndsWith(order', flush'.taken \o pending')
    <3>1. pending' = q /\ Len(pending) # MaxPending
      BY <1>2, <1>5, <2>2, QueueTypes, TelemetryAssumption DEF TelemetryInv, Shapes, TelemetryTypeOK
    <3>2. EndsWith(order, flush.taken \o pending) /\ flush.taken \o pending \in Seq(Calls)
      BY <1>1, <2>2, <3>1, QueueTypes, ListedConcat DEF QueueInv, OrderInv
    <3>3. EndsWith(o, Append(flush.taken \o pending, c))
      BY <3>2, QueueTypes, AppendEnds DEF o
    <3>4. Append(flush.taken \o pending, c) = flush.taken \o q
      BY QueueTypes, ConcatAppend DEF q
    <3> QED
      BY <1>1, <3>1, <3>3, <3>4
  <2> QED
    BY <1>1, <1>5, <2>1, <2>2 DEF OrderInv
<1>7. SavedInv'
  BY <1>1 DEF QueueInv, SavedInv
<1>8. KeptInv'
  <2> SUFFICES ASSUME NEW i \in 1 .. Len(o), i > Len(o) - MaxPending PROVE o[i] \in Settled'
    BY <1>1, <1>2, QueueTypes, TelemetryAssumption DEF KeptInv
  <2>1. CASE Len(pending') = MaxPending
    <3>1. pending' \in Seq(Calls)
      BY DEF TelemetryInv, Shapes, TelemetryTypeOK
    <3>2. o[i] \in Listed(pending')
      BY <1>2, <1>5, <2>1, <3>1, EndLists
    <3> QED
      BY <3>2 DEF Settled
  <2>2. CASE pending' = q
    <3>1. CASE i = Len(order) + 1
      BY <1>2, <1>3, <2>2, <3>1 DEF Settled
    <3>2. CASE i # Len(order) + 1
      <4>1. i \in 1 .. Len(order) /\ ~(i <= Len(order) - MaxPending) /\ o[i] = order[i]
        BY <1>2, <3>2, QueueTypes, TelemetryAssumption
      <4>2. order[i] \in Settled
        BY <4>1 DEF QueueInv, KeptInv
      <4> QED
        BY <1>1, <1>3, <2>2, <4>1, <4>2 DEF Settled
    <3> QED
      BY <3>1, <3>2
  <2> QED
    BY <1>5, <2>1, <2>2
<1> QED
  BY <1>6, <1>7, <1>8 DEF QueueInv

LEMMA TakeKeepsQueue ==
  ASSUME TelemetryInv, QueueInv, TakePending
  PROVE  QueueInv'
<1>1. /\ flush.at = "take" /\ flush.taken = <<>> /\ pending' = <<>>
      /\ UNCHANGED <<session, callers, order, db, old>>
  BY DEF TakePending, QueueInv, SavedInv
<1>2. CASE pending = <<>>
  BY <1>1, <1>2, NoneListed, CopyOrEndIsSafe DEF TakePending
<1>3. CASE pending # <<>>
  <2>1. flush'.at = "events" /\ flush'.taken = pending
    BY <1>3 DEF TakePending, FlushTo
  <2>2. pending \o <<>> = pending /\ EndsWith(order, <<>>)
    BY QueueTypes, NoneEnds
  <2>3. OrderInv'
    BY <1>1, <2>1, <2>2 DEF QueueInv, OrderInv
  <2>4. SavedInv'
    BY <2>1 DEF SavedInv
  <2>5. KeptInv'
    <3>1. Settled' = Settled
      BY <1>1, <2>1, NoneListed DEF Settled
    <3> QED
      BY <1>1, <3>1 DEF QueueInv, KeptInv
  <2> QED
    BY <2>3, <2>4, <2>5 DEF QueueInv
<1> QED
  BY <1>2, <1>3

\* The events that could not be saved go back before those queued since; if the queue has
\* filled up, there is no room for any.
LEMMA RequeueKeeps ==
  ASSUME TelemetryInv, QueueInv, flush.at = "events", Fails, pending' = Requeued,
         UNCHANGED <<session, callers, order, db, old>>
  PROVE  QueueInv'
<1> DEFINE q == flush.taken \o pending
<1>1. flush'.at = "idle" /\ flush'.taken = <<>>
  BY EndIsIdle DEF Fails
<1>2. /\ pending \in Seq(Calls) /\ flush.taken \in Seq(Calls) /\ order \in Seq(Calls)
      /\ Len(pending) \in Nat /\ Len(flush.taken) \in Nat /\ Len(order) \in Nat
  BY QueueTypes, ListedIs
<1>3. /\ q \in Seq(Calls) /\ Len(q) = Len(flush.taken) + Len(pending)
      /\ Listed(q) = Listed(flush.taken) \cup Listed(pending)
      /\ \A i \in 1 .. Len(pending) : q[Len(flush.taken) + i] = pending[i]
  BY <1>2, ListedConcat
<1>4. pending' = Newest(q)
  BY DEF Requeued
<1>5. Len(pending) = MaxPending \/ EndsWith(order, q)
  BY DEF QueueInv, OrderInv
<1> HIDE DEF q
<1>6. /\ pending' \in Seq(Calls)
      /\ Len(pending') = (IF Len(q) <= MaxPending THEN Len(q) ELSE MaxPending)
      /\ \A i \in 1 .. Len(pending') : pending'[i] = q[Len(q) - Len(pending') + i]
  <2>1. LET n == Newest(q) IN
        /\ n \in Seq(Calls) /\ Len(n) = (IF Len(q) <= MaxPending THEN Len(q) ELSE MaxPending)
        /\ \A i \in 1 .. Len(n) : n[i] = q[Len(q) - Len(n) + i]
    BY <1>3, NewestIs
  <2> QED
    BY <1>4, <2>1
<1>7. EndsWith(order, pending') /\ (pending' = q \/ Len(pending') = MaxPending)
  <2>1. CASE EndsWith(order, q)
    BY <1>2, <1>3, <1>4, <2>1, NewestEnds
  <2>2. CASE Len(pending) = MaxPending
    <3>0. ~(Len(q) <= MaxPending) \/ Len(q) = MaxPending
      BY <1>2, <1>3, <2>2, TelemetryAssumption
    <3>1. Len(pending') = MaxPending /\ Len(q) - Len(pending') = Len(flush.taken)
      <4>1. Len(pending') = MaxPending
        BY <1>6, <3>0
      <4> QED
        BY <1>2, <1>3, <2>2, <4>1
    <3>2. \A i \in 1 .. Len(pending') : pending'[i] = pending[i]
      BY <1>3, <1>6, <2>2, <3>1
    <3>3. EndsWith(order, pending)
      BY DEF QueueInv, OrderInv
    <3> QED
      BY <2>2, <3>1, <3>2, <3>3 DEF EndsWith
  <2> QED
    BY <1>5, <2>1, <2>2
<1>8. OrderInv'
  BY <1>1, <1>7 DEF QueueInv, OrderInv
<1>9. SavedInv'
  BY <1>1 DEF SavedInv
<1>10. KeptInv'
  <2> SUFFICES ASSUME NEW i \in 1 .. Len(order), i > Len(order) - MaxPending
               PROVE  order[i] \in Settled'
    BY <1>2, TelemetryAssumption DEF KeptInv
  <2>1. order[i] \in Settled
    BY <1>2, TelemetryAssumption DEF QueueInv, KeptInv
  <2>2. CASE Len(pending') = MaxPending
    BY <1>2, <1>6, <1>7, <2>2, EndLists DEF Settled
  <2>3. CASE pending' = q
    BY <1>3, <2>1, <2>3 DEF Settled
  <2> QED
    BY <1>7, <2>2, <2>3
<1> QED
  BY <1>8, <1>9, <1>10 DEF QueueInv

LEMMA SaveEventsKeepsQueue ==
  ASSUME TelemetryInv, QueueInv, SaveCallEvents
  PROVE  QueueInv'
<1>1. flush.at = "events" /\ UNCHANGED <<session, callers, order, old>>
  BY DEF SaveCallEvents
<1>2. CASE /\ db' = [db EXCEPT !.events = (@ \cup Listed(flush.taken)) \ old]
           /\ CopyOrEnd /\ UNCHANGED <<pending, faults>>
  <2>1. db'.events = (db.events \cup Listed(flush.taken)) \ old
    BY <1>2 DEF TelemetryInv, Shapes
  <2> QED
    BY <1>1, <1>2, <2>1, CopyOrEndIsSafe
<1>3. CASE Busy /\ UNCHANGED <<db, pending>>
  <2>1. flush'.at = flush.at /\ flush'.taken = flush.taken
    BY <1>3 DEF Busy, TelemetryInv, Shapes, FlushType
  <2>2. SavedInv'
    BY <1>1, <1>3, <2>1 DEF SavedInv
  <2> QED
    BY <1>1, <1>3, <2>1, <2>2, SafeKeeps
<1>4. CASE Fails /\ pending' = Requeued /\ UNCHANGED db
  BY <1>1, <1>4, RequeueKeeps
<1> QED
  BY <1>2, <1>3, <1>4 DEF SaveCallEvents

\* The steps of a flush that do not touch the events.
LEMMA FlushKeepsQueue ==
  ASSUME TelemetryInv, QueueInv, BeginFlush \/ CopyTotals \/ SaveSnapshot \/ Mark
  PROVE  QueueInv'
<1>1. UNCHANGED <<session, pending, callers, order, old>> /\ db'.events = db.events
  BY DEF BeginFlush, CopyTotals, SaveSnapshot, Mark, TelemetryInv, Shapes
<1>2. CASE flush'.at = "idle" /\ flush'.taken = <<>> /\ flush.at \in {"save", "mark"}
  <2>1. SavedInv'
    BY <1>2 DEF SavedInv
  <2> QED
    BY <1>1, <1>2, <2>1, SafeKeeps DEF QueueInv, SavedInv
<1>3. CASE /\ flush'.taken = flush.taken
           /\ flush'.at \in {"copy", "save", "mark"} /\ flush.at \in {"copy", "save", "mark"}
  <2>1. SavedInv'
    BY <1>1, <1>3 DEF QueueInv, SavedInv
  <2> QED
    BY <1>1, <1>3, <2>1, SafeKeeps
<1>4. CASE BeginFlush
  <2>1. flush.taken = <<>> /\ flush'.taken = <<>> /\ flush'.at = "take"
    BY <1>4 DEF BeginFlush, BeginTo, QueueInv, SavedInv
  <2>2. SavedInv'
    BY <2>1 DEF SavedInv
  <2> QED
    BY <1>1, <2>1, <2>2, SafeKeeps, NoneListed
<1>5. CASE CopyTotals
  BY <1>3, <1>5 DEF CopyTotals, FlushTo
<1>6. CASE SaveSnapshot
  <2>1. CASE FlushTo("mark", flush.taken, flush.copy)
    BY <1>3, <1>6, <2>1 DEF SaveSnapshot, FlushTo
  <2>2. CASE Busy
    BY <1>3, <1>6, <2>2 DEF SaveSnapshot, Busy, TelemetryInv, Shapes, FlushType
  <2>3. CASE Fails
    BY <1>2, <1>6, <2>3, EndIsIdle DEF SaveSnapshot, Fails
  <2> QED
    BY <1>6, <2>1, <2>2, <2>3 DEF SaveSnapshot
<1>7. CASE Mark
  BY <1>2, <1>7, EndIsIdle DEF Mark
<1> QED
  BY <1>4, <1>5, <1>6, <1>7

\* The steps that leave the flush alone.
LEMMA OtherKeepsQueue ==
  ASSUME TelemetryInv, Aged, QueueInv, Close \/ Age \/ UNCHANGED telemetryVars
  PROVE  QueueInv'
<1>1. UNCHANGED <<session, pending, callers, order, flush, db>> /\ old \subseteq old'
  BY DEF Aged, Close, Age, telemetryVars
<1>2. SavedInv'
  BY <1>1 DEF QueueInv, SavedInv
<1> QED
  BY <1>1, <1>2, SafeKeeps

LEMMA StartKeepsQueue ==
  ASSUME QueueInv, Start
  PROVE  QueueInv'
<1>1. CASE UNCHANGED <<session, pending, callers, order, flush>>
  <2>1. UNCHANGED <<db, old>>
    BY DEF Start
  <2>2. SavedInv'
    BY <1>1, <2>1 DEF QueueInv, SavedInv
  <2> QED
    BY <1>1, <2>1, <2>2, SafeKeeps
<1>2. CASE NewProcess(db.totals) \/ NewProcess({})
  BY <1>2, FreshKeeps DEF NewProcess
<1> QED
  BY <1>1, <1>2 DEF Start

LEMMA AgedHolds ==
  /\ TelemetryInit => Aged
  /\ TelemetryInv /\ Aged /\ [TelemetryNext]_telemetryVars => Aged'
<1>1. TelemetryInit => Aged
  BY DEF TelemetryInit, Aged
<1>2. ASSUME TelemetryInv, Aged, [TelemetryNext]_telemetryVars PROVE Aged'
  <2>1. CASE UNCHANGED <<old, calls>>
    BY <1>2, <2>1 DEF Aged
  <2>2. CASE Age
    BY <2>2 DEF Age, Aged
  <2>3. CASE RecordCall
    <3>1. old' = old /\ calls' = calls + 1 /\ calls \in Nat
      BY <1>2, <2>3, QueueTypes DEF RecordCall
    <3> QED
      BY <1>2, <3>1 DEF Aged
  <2> QED
    BY <1>2, <2>1, <2>2, <2>3 DEF TelemetryNext, telemetryVars, Start, Enqueue, EnqueueCallEvent, FlushStep,
       BeginFlush, TakePending, SaveCallEvents, CopyTotals, SaveSnapshot, Mark, Close, Crash
<1> QED
  BY <1>1, <1>2

LEMMA QueueStepKeeps ==
  TelemetryInv /\ TelemetryInv' /\ Aged /\ QueueInv /\ [TelemetryNext]_telemetryVars => QueueInv'
<1> SUFFICES ASSUME TelemetryInv, TelemetryInv', Aged, QueueInv, [TelemetryNext]_telemetryVars
             PROVE  QueueInv'
  OBVIOUS
<1>1. CASE Start \/ RecordCall \/ Enqueue
  BY <1>1, StartKeepsQueue, RecordKeepsQueue, EnqueueKeepsQueue DEF Enqueue
<1>2. CASE FlushStep
  BY <1>2, FlushKeepsQueue, TakeKeepsQueue, SaveEventsKeepsQueue DEF FlushStep
<1>3. CASE Close \/ Age \/ UNCHANGED telemetryVars
  BY <1>3, OtherKeepsQueue
<1>4. CASE Crash
  BY <1>4, FreshKeeps DEF Crash
<1> QED
  BY <1>1, <1>2, <1>3, <1>4 DEF TelemetryNext

\* However many calls record and enqueue at the same time, and whatever fails and is put back,
\* an event is lost only to MaxPending events enqueued after it, and the queue keeps the order
\* of enqueueing (Runtime.enqueueCallEvent, Runtime.requeueCallEvents).
THEOREM OldestAreLost == TelemetrySpec => []OldestRollOff
<1>1. TelemetryInv /\ QueueInv => OldestRollOff
  <2> SUFFICES ASSUME TelemetryInv, QueueInv PROVE OldestRollOff
    OBVIOUS
  <2>1. ASSUME NEW c \in session \ (Settled \cup callers)
        PROVE  \E i \in 1 .. Len(order) - MaxPending : order[i] = c
    <3>1. c \in Listed(order)
      BY <2>1 DEF QueueInv, OrderInv
    <3>2. PICK i \in 1 .. Len(order) : order[i] = c
      BY <3>1, QueueTypes, ListedIs
    <3>3. i <= Len(order) - MaxPending
      BY <2>1, <3>2 DEF QueueInv, KeptInv
    <3>4. i \in 1 .. Len(order) - MaxPending
      BY <3>2, <3>3, QueueTypes, TelemetryAssumption
    <3> QED
      BY <3>2, <3>4
  <2>2. \A k \in 1 .. Len(pending) : pending[k] = order[Len(order) - Len(pending) + k]
    BY DEF QueueInv, OrderInv, EndsWith
  <2> QED
    BY <2>1, <2>2 DEF OldestRollOff, Settled
<1> QED
  BY TelemetryInitHolds, TelemetryStepKeeps, AgedHolds, QueueInitHolds, QueueStepKeeps, <1>1,
     PTL DEF TelemetrySpec
-----------------------------------------------------------------------------
(* The schema of the telemetry database: any number of processes.  The version may go
   back when a process applies a migration that another one has overtaken; what the file
   has never does. *)

\* The file d has what the migrations up to version v add.
Reaches(d, v) == /\ v >= 1 => d.snapshots
                 /\ v >= 2 => d.events
                 /\ v >= 3 => d.runColumn /\ d.benchmarks

IsDisk(d) == /\ DOMAIN d = {"version", "snapshots", "events", "runColumn", "benchmarks"}
             /\ d.version \in 0 .. 4

OpenerType == [at : {"closed", "migrating", "ready", "failed"}, next : 0 .. 5]

\* A version is recorded after its tables, and events come after snapshots.
DiskInv ==
  /\ IsDisk(disk)
  /\ disk.events => disk.snapshots
  /\ Reaches(disk, disk.version)

\* What a process that migrates, or is ready, has seen or made.
OpenerInv ==
  /\ opener \in [Openers -> OpenerType]
  /\ \A o \in Openers :
       /\ opener[o].at = "migrating" =>
            opener[o].next \in 1 .. 4 /\ Reaches(disk, opener[o].next - 1)
       /\ opener[o].at = "ready" => Reaches(disk, Current)

SchemaInv == DiskInv /\ OpenerInv

\* What the migrations make of a file.
LEMMA MigratedFields ==
  ASSUME NEW v \in 1 .. 3, IsDisk(disk), disk' = Migrated(v)
  PROVE  /\ IsDisk(disk') /\ disk'.version = v
         /\ disk'.snapshots <=> v = 1 \/ disk.snapshots
         /\ disk'.events <=> v = 2 \/ disk.events
         /\ disk'.runColumn <=> v = 3 \/ disk.runColumn
         /\ disk'.benchmarks <=> v = 3 \/ disk.benchmarks
<1>1. CASE v = 1
  <2>1. disk' = [disk EXCEPT !.version = 1, !.snapshots = TRUE]
    BY <1>1 DEF Migrated
  <2>2. DOMAIN disk' = DOMAIN disk /\ disk'.version = 1
    BY <2>1 DEF IsDisk
  <2>3. disk'.snapshots = TRUE
    BY <2>1 DEF IsDisk
  <2>4. /\ disk'.events = disk.events /\ disk'.runColumn = disk.runColumn
        /\ disk'.benchmarks = disk.benchmarks
    BY <2>1 DEF IsDisk
  <2> QED
    BY <1>1, <2>2, <2>3, <2>4 DEF IsDisk
<1>2. CASE v = 2
  <2>1. disk' = [disk EXCEPT !.version = 2, !.events = TRUE]
    BY <1>2 DEF Migrated
  <2>2. DOMAIN disk' = DOMAIN disk /\ disk'.version = 2
    BY <2>1 DEF IsDisk
  <2>3. disk'.events = TRUE
    BY <2>1 DEF IsDisk
  <2>4. /\ disk'.snapshots = disk.snapshots /\ disk'.runColumn = disk.runColumn
        /\ disk'.benchmarks = disk.benchmarks
    BY <2>1 DEF IsDisk
  <2> QED
    BY <1>2, <2>2, <2>3, <2>4 DEF IsDisk
<1>3. CASE v = 3
  <2>1. disk' = [disk EXCEPT !.version = 3, !.runColumn = TRUE, !.benchmarks = TRUE]
    BY <1>3 DEF Migrated
  <2>2. DOMAIN disk' = DOMAIN disk /\ disk'.version = 3
    BY <2>1 DEF IsDisk
  <2>3. disk'.runColumn = TRUE /\ disk'.benchmarks = TRUE
    BY <2>1 DEF IsDisk
  <2>4. disk'.snapshots = disk.snapshots /\ disk'.events = disk.events
    BY <2>1 DEF IsDisk
  <2> QED
    BY <1>3, <2>2, <2>3, <2>4 DEF IsDisk
<1> QED
  BY <1>1, <1>2, <1>3

LEMMA SchemaInitHolds == SchemaInit => SchemaInv
<1> SUFFICES ASSUME SchemaInit PROVE SchemaInv
  OBVIOUS
<1>1. disk \in Found /\ opener = [o \in Openers |-> [at |-> "closed", next |-> 0]]
  BY DEF SchemaInit
<1>2. DiskInv
  BY <1>1 DEF DiskInv, IsDisk, Found, Disk, Reaches
<1>3. OpenerInv
  BY <1>1 DEF OpenerInv, OpenerType
<1> QED
  BY <1>2, <1>3 DEF SchemaInv

LEMMA DetectedIsThere ==
  ASSUME DiskInv
  PROVE  Detected \in 0 .. 4 /\ Reaches(disk, Detected)
BY DEF Detected, Current, DiskInv, IsDisk, Reaches

\* A migration adds what its version says and takes nothing away.
LEMMA MigratedAdds ==
  ASSUME DiskInv, NEW v \in 1 .. 3, Reaches(disk, v - 1), disk' = Migrated(v)
  PROVE  DiskInv' /\ Reaches(disk', v) /\ \A w \in 0 .. 5 : Reaches(disk, w) => Reaches(disk', w)
<1>1. /\ IsDisk(disk') /\ disk'.version = v
      /\ disk'.snapshots <=> v = 1 \/ disk.snapshots
      /\ disk'.events <=> v = 2 \/ disk.events
      /\ disk'.runColumn <=> v = 3 \/ disk.runColumn
      /\ disk'.benchmarks <=> v = 3 \/ disk.benchmarks
  BY MigratedFields DEF DiskInv
<1>2. \A w \in 0 .. 5 : Reaches(disk, w) => Reaches(disk', w)
  BY <1>1 DEF Reaches
<1>3. Reaches(disk', v) /\ (disk'.events => disk'.snapshots)
  BY <1>1 DEF Reaches, DiskInv
<1> QED
  BY <1>1, <1>2, <1>3 DEF DiskInv

LEMMA DetectKeeps ==
  ASSUME SchemaInv, NEW o \in Openers, Detect(o)
  PROVE  SchemaInv'
<1>1. UNCHANGED disk /\ opener' = [opener EXCEPT ![o] =
        [at |-> IF Detected > Current THEN "failed" ELSE "migrating", next |-> Detected + 1]]
  BY DEF Detect
<1>2. Detected \in 0 .. 4 /\ Reaches(disk, Detected)
  BY DetectedIsThere DEF SchemaInv
<1>3. DiskInv'
  BY <1>1 DEF SchemaInv, DiskInv
<1>4. Detected + 1 \in 0 .. 5 /\ Detected + 1 - 1 = Detected
      /\ (~(Detected > Current) => Detected + 1 \in 1 .. 4)
  BY <1>2 DEF Current
<1>5. OpenerInv'
  BY <1>1, <1>2, <1>4 DEF SchemaInv, OpenerInv, OpenerType
<1> QED
  BY <1>3, <1>5 DEF SchemaInv

LEMMA MigrateKeeps ==
  ASSUME SchemaInv, NEW o \in Openers, Migrate(o)
  PROVE  SchemaInv'
<1>1. PICK v \in 1 .. 3 : opener[o].next = v
  BY DEF Migrate, SchemaInv, OpenerInv, Current
<1>2. opener[o].at = "migrating" /\ Reaches(disk, v - 1)
  BY <1>1 DEF Migrate, SchemaInv, OpenerInv
<1>3. CASE disk' = Migrated(v) /\ opener' = [opener EXCEPT ![o].next = v + 1]
  <2>1. DiskInv' /\ Reaches(disk', v) /\ \A w \in 0 .. 5 : Reaches(disk, w) => Reaches(disk', w)
    BY <1>2, <1>3, MigratedAdds DEF SchemaInv
  <2>2. /\ opener' \in [Openers -> OpenerType]
        /\ opener'[o].at = "migrating" /\ opener'[o].next = v + 1
        /\ \A e \in Openers : e # o => opener'[e] = opener[e]
    BY <1>2, <1>3 DEF SchemaInv, OpenerInv, OpenerType
  <2>3. v + 1 \in 1 .. 4 /\ v + 1 - 1 = v
    OBVIOUS
  <2>4. ASSUME NEW e \in Openers
        PROVE  /\ opener'[e].at = "migrating" =>
                    opener'[e].next \in 1 .. 4 /\ Reaches(disk', opener'[e].next - 1)
               /\ opener'[e].at = "ready" => Reaches(disk', Current)
    <3>1. CASE e = o
      BY <2>1, <2>2, <2>3, <3>1
    <3>2. CASE e # o
      BY <2>1, <2>2, <3>2 DEF SchemaInv, OpenerInv, Current
    <3> QED
      BY <3>1, <3>2
  <2> QED
    BY <2>1, <2>2, <2>4 DEF SchemaInv, OpenerInv
<1>4. CASE opener' = [opener EXCEPT ![o].at = "failed"] /\ UNCHANGED disk
  BY <1>4 DEF SchemaInv, DiskInv, OpenerInv, OpenerType
<1> QED
  BY <1>1, <1>3, <1>4 DEF Migrate

LEMMA OpenedOrLeftKeeps ==
  ASSUME SchemaInv, NEW o \in Openers, Opened(o) \/ Leave(o)
  PROVE  SchemaInv'
<1>1. UNCHANGED disk /\ DiskInv'
  BY DEF Opened, Leave, SchemaInv, DiskInv
<1>2. CASE Opened(o)
  <2>1. opener[o].next = 4 /\ Reaches(disk, 4 - 1)
    BY <1>2 DEF Opened, SchemaInv, OpenerInv, Current
  <2>2. opener' = [opener EXCEPT ![o].at = "ready"] /\ Reaches(disk, Current)
    BY <1>2, <2>1 DEF Opened, Reaches, Current
  <2> QED
    BY <1>1, <2>2 DEF SchemaInv, OpenerInv, OpenerType
<1>3. CASE Leave(o)
  BY <1>1, <1>3 DEF Leave, SchemaInv, OpenerInv, OpenerType
<1> QED
  BY <1>2, <1>3

LEMMA SchemaStepKeeps == SchemaInv /\ [SchemaNext]_schemaVars => SchemaInv'
<1> SUFFICES ASSUME SchemaInv, [SchemaNext]_schemaVars PROVE SchemaInv'
  OBVIOUS
<1>1. CASE SchemaNext
  BY <1>1, DetectKeeps, MigrateKeeps, OpenedOrLeftKeeps DEF SchemaNext
<1>2. CASE UNCHANGED schemaVars
  BY <1>2 DEF schemaVars, SchemaInv, DiskInv, OpenerInv
<1> QED
  BY <1>1, <1>2

\* Whoever opens the database, in whatever order migrations are applied and processes die,
\* an openDB that succeeds finds the current tables and columns.
THEOREM ReadyIsCurrent == SchemaSpec => []ReadyMeansCurrent
<1>1. SchemaInv => ReadyMeansCurrent
  <2> SUFFICES ASSUME SchemaInv, NEW o \in Openers, opener[o].at = "ready"
               PROVE  disk.snapshots /\ disk.events /\ disk.runColumn /\ disk.benchmarks
    BY DEF ReadyMeansCurrent
  <2> QED
    BY DEF SchemaInv, OpenerInv, Reaches, Current
<1> QED
  BY SchemaInitHolds, SchemaStepKeeps, <1>1, PTL DEF SchemaSpec
-----------------------------------------------------------------------------
(* The server process. *)

CallPlaces == {"lookup", "await", "gate", "handler", "fresh", "finalize"}
EndPlaces == {"stopping", "flushing", "backend", "exiting", "exited"}
Places == {"starting", "check", "read", "write"} \cup CallPlaces \cup EndPlaces
Faults == {"start", "cancelled", "decode", "write", "sigpipe", "worker", "telemetry", "backend"}
MetaFields == {"own", "weight", "fresh", "saved"}
Payloads == [isError : BOOLEAN, hasMeta : BOOLEAN, meta : SUBSET MetaFields, nan : BOOLEAN]
AnswerRecords == [id : Nat, payload : Payloads, error : BOOLEAN]

ServerType ==
  /\ sent \in Seq(Messages)
  /\ loop \in [at : Places, read : Nat]
  /\ answers \in Seq(AnswerRecords)
  /\ begun \in Nat /\ records \in Nat
  /\ closing \in [errors : SUBSET Faults, code : Nat]
  /\ call = [args |-> call.args, expired |-> call.expired, payload |-> call.payload]
  /\ call.payload \in Payloads

\* The messages read are messages sent, and the one in hand is a request.
ReadInv ==
  /\ loop.read <= Len(sent)
  /\ loop.at = "starting" => loop.read = 0
  /\ loop.at \in CallPlaces \cup {"write"} => loop.read \in 1 .. Len(sent) /\ Message.id
  /\ loop.at \in CallPlaces => Message.method = "call"

\* The answers are those to the requests read, without the one in hand.
AnswersInv ==
  /\ \A i, j \in DOMAIN answers : i < j => answers[i].id < answers[j].id
  /\ \A i \in DOMAIN answers : answers[i].id \in 1 .. loop.read
  /\ loop.at \in {"starting", "check", "read"} => Answered = Requests(loop.read)
  /\ loop.at \in CallPlaces \cup {"write"} => Answered = Requests(loop.read - 1)

\* What is about to be written is what the policy leaves, as is what has been.
AsConfigured(p) ==
  /\ cfg.meta.mode = "all" => p.hasMeta /\ "saved" \in p.meta
  /\ cfg.meta.mode = "none" => ~p.hasMeta
  /\ cfg.meta.mode \notin {"all", "none"} => p.meta \subseteq cfg.meta.fields

MetaInv ==
  /\ loop.at = "write" /\ Message.method = "call" => AsConfigured(call.payload)
  /\ \A i \in DOMAIN answers : sent[answers[i].id].method = "call" =>
       AsConfigured(answers[i].payload) /\ (answers[i].error <=> ~Encodable(answers[i].payload))

\* A call that has passed the lookup names a tool that the process registered.
ToolInv == loop.at \in {"await", "gate", "handler"} => Message.tool \in Registered

\* A process that exits with 0 has seen a signal, or no error.
ExitInv ==
  /\ "cancelled" \in closing.errors => signal
  /\ loop.at = "exited" /\ closing.code = 0 => closing.errors = {} \/ "cancelled" \in closing.errors

\* A loop that nothing ended but its input has answered every request, and the input is over.
EndInv ==
  loop.at \in EndPlaces /\ closing.errors \cap {"start", "cancelled", "decode", "write", "sigpipe"} = {} =>
    Answered = Requests(loop.read) /\ InputOver

ServerInv ==
  /\ ServerType /\ ReadInv /\ AnswersInv /\ RecordedOnce /\ MetaInv /\ ToolInv /\ ExitInv /\ EndInv

LEMMA ServerInitHolds == ServerInit => ServerInv
<1> SUFFICES ASSUME ServerInit PROVE ServerInv
  OBVIOUS
<1>1. loop.at = "starting" /\ loop.read = 0 /\ sent = <<>> /\ answers = <<>> /\ ~Calling
  BY DEF ServerInit, Calling
<1>2. ServerType
  <2>1. loop \in [at : Places, read : Nat] /\ closing \in [errors : SUBSET Faults, code : Nat]
    BY DEF ServerInit, Places
  <2>2. NoPayload \in Payloads
    BY DEF NoPayload, Payload, Payloads
  <2>3. call.payload = NoPayload
        /\ call = [args |-> call.args, expired |-> call.expired, payload |-> call.payload]
    BY DEF ServerInit, CallIdle
  <2> QED
    BY <1>1, <2>1, <2>2, <2>3 DEF ServerType, ServerInit
<1>3. ReadInv /\ MetaInv /\ ToolInv
  BY <1>1 DEF ReadInv, MetaInv, ToolInv, CallPlaces
<1>4. AnswersInv
  BY <1>1 DEF AnswersInv, Answered, Requests, CallPlaces
<1>5. RecordedOnce /\ ExitInv
  <2>1. begun = 0 /\ records = 0 /\ closing.errors = {}
    BY DEF ServerInit
  <2>2. (IF Calling THEN 1 ELSE 0) = 0 /\ 0 - 0 = 0
    BY <1>1
  <2> QED
    BY <1>1, <2>1, <2>2 DEF RecordedOnce, ExitInv
<1>6. EndInv
  BY <1>1 DEF EndInv, EndPlaces
<1> QED
  BY <1>2, <1>3, <1>4, <1>5, <1>6 DEF ServerInv

LEMMA GotoMoves ==
  ASSUME ServerType, NEW place \in Places, Goto(place)
  PROVE  /\ loop' \in [at : Places, read : Nat]
         /\ loop'.at = place /\ loop'.read = loop.read
BY DEF ServerType, Goto

\* Where a step may lead that reads nothing and writes nothing.
Drift ==
  /\ loop' \in [at : Places, read : Nat] /\ loop'.read = loop.read
  /\ loop'.at # "starting" \/ loop.at = "starting"
  /\ loop'.at \in {"check", "read"} => loop.at \in {"starting", "check", "read"}
  /\ loop'.at \in CallPlaces => loop.at \in CallPlaces
  /\ loop'.at = "write" => loop.at \in CallPlaces \cup {"write"}

LEMMA DriftKeeps ==
  ASSUME ServerInv, UNCHANGED <<cfg, sent, answers>>, Drift,
         loop'.at = "write" /\ Message.method = "call" => AsConfigured(call'.payload)
  PROVE  ReadInv' /\ AnswersInv' /\ MetaInv'
<1>1. Message' = Message /\ Answered' = Answered /\ Requests(loop.read)' = Requests(loop.read)
      /\ Requests(loop.read - 1)' = Requests(loop.read - 1)
  BY DEF Message, Answered, Requests, Drift
<1>2. ReadInv'
  BY <1>1 DEF ServerInv, ReadInv, Drift, CallPlaces
<1>3. AnswersInv'
  BY <1>1 DEF ServerInv, AnswersInv, Drift, CallPlaces
<1>4. \A p : AsConfigured(p)' = AsConfigured(p)
  BY DEF AsConfigured
<1>5. MetaInv'
  BY <1>1 DEF ServerInv, MetaInv, AsConfigured
<1> QED
  BY <1>2, <1>3, <1>5

LEMMA SentGrows ==
  ASSUME ServerInv, NEW m \in Messages, sent' = Append(sent, m)
  PROVE  /\ sent' \in Seq(Messages) /\ Len(sent') = Len(sent) + 1
         /\ \A i \in 1 .. Len(sent) : sent'[i] = sent[i]
BY DEF ServerInv, ServerType

LEMMA SendKeeps == ServerInv /\ Send => ServerInv'
<1> SUFFICES ASSUME ServerInv, Send PROVE ServerInv'
  OBVIOUS
<1> USE DEF Send
<1>1. PICK m \in Messages : sent' = Append(sent, m)
  OBVIOUS
<1>2. /\ sent' \in Seq(Messages) /\ Len(sent') = Len(sent) + 1 /\ Len(sent) \in Nat
      /\ \A i \in 1 .. Len(sent) : sent'[i] = sent[i]
  BY <1>1, SentGrows DEF ServerInv, ServerType
<1>3. loop.read \in Nat /\ loop.read <= Len(sent)
  BY DEF ServerInv, ServerType, ReadInv
<1>4. ServerType'
  BY <1>2 DEF ServerInv, ServerType
<1>5. loop.read \in 1 .. Len(sent) => Message' = Message
  BY <1>2 DEF Message
<1>6. ReadInv' /\ ToolInv'
  BY <1>2, <1>3, <1>5 DEF ServerInv, ReadInv, ToolInv, Registered, CallPlaces
<1>7. Requests(loop.read)' = Requests(loop.read) /\ Requests(loop.read - 1)' = Requests(loop.read - 1)
  BY <1>2, <1>3 DEF Requests
<1>8. AnswersInv'
  BY <1>7 DEF ServerInv, AnswersInv, Answered
<1>9. MetaInv'
  <2>1. \A i \in DOMAIN answers : sent'[answers[i].id] = sent[answers[i].id]
    BY <1>2, <1>3 DEF ServerInv, AnswersInv
  <2>2. loop.at = "write" => Message' = Message
    BY <1>5 DEF ServerInv, ReadInv
  <2> QED
    BY <2>1, <2>2 DEF ServerInv, MetaInv, AsConfigured
<1>10. RecordedOnce' /\ ExitInv'
  BY DEF ServerInv, RecordedOnce, Calling, ExitInv
<1>11. EndInv'
  <2>1. InputOver => InputOver'
    BY <1>3, <1>5 DEF InputOver
  <2> QED
    BY <1>7, <2>1 DEF ServerInv, EndInv, Answered
<1> QED
  BY <1>4, <1>6, <1>8, <1>9, <1>10, <1>11 DEF ServerInv

LEMMA OutsideKeeps == ServerInv /\ (HangUp \/ EditProject \/ Terminate \/ Expire) => ServerInv'
<1> SUFFICES ASSUME ServerInv, HangUp \/ EditProject \/ Terminate \/ Expire PROVE ServerInv'
  OBVIOUS
<1>1. /\ UNCHANGED <<cfg, sent, loop, answers, begun, records, closing>>
      /\ call'.payload = call.payload
      /\ call' = [args |-> call'.args, expired |-> call'.expired, payload |-> call'.payload]
      /\ signal => signal'
      /\ hungUp => hungUp'
  BY DEF HangUp, EditProject, Terminate, Expire, ServerInv, ServerType
<1>2. ServerType' /\ Drift
  BY <1>1 DEF ServerInv, ServerType, Drift
<1>3. loop'.at = "write" /\ Message.method = "call" => AsConfigured(call'.payload)
  BY <1>1 DEF ServerInv, MetaInv
<1>4. ReadInv' /\ AnswersInv' /\ MetaInv'
  BY <1>1, <1>2, <1>3, DriftKeeps
<1>5. RecordedOnce' /\ ToolInv' /\ ExitInv'
  BY <1>1 DEF ServerInv, RecordedOnce, Calling, ToolInv, Registered, Message, ExitInv
<1>6. EndInv'
  BY <1>1 DEF ServerInv, EndInv, Answered, Requests, InputOver, Message
<1> QED
  BY <1>2, <1>4, <1>5, <1>6 DEF ServerInv

LEMMA AroundCallsKeep == ServerInv /\ (StartWorker \/ CheckContext \/ ReadEnd) => ServerInv'
<1> SUFFICES ASSUME ServerInv, StartWorker \/ CheckContext \/ ReadEnd PROVE ServerInv'
  OBVIOUS
<1>1. /\ loop.at \in {"starting", "check", "read"}
      /\ \E place \in {"check", "read", "flushing", "stopping"} : Goto(place)
      /\ UNCHANGED <<cfg, sent, signal, call, answers, begun, records>>
  BY DEF StartWorker, CheckContext, ReadEnd, AtEnd, EndServe
<1>2. PICK place \in {"check", "read", "flushing", "stopping"} : Goto(place)
  BY <1>1
<1>3. loop' \in [at : Places, read : Nat] /\ loop'.at = place /\ loop'.read = loop.read
  BY <1>2, GotoMoves DEF ServerInv, Places, EndPlaces
<1>4. closing' \in [errors : SUBSET Faults, code : Nat] /\ ("cancelled" \in closing'.errors => signal)
  BY DEF StartWorker, CheckContext, ReadEnd, EndServe, ServerInv, ServerType, ExitInv, Faults
<1>5. ServerType'
  BY <1>1, <1>3, <1>4 DEF ServerInv, ServerType
<1>6. Drift
  BY <1>1, <1>3 DEF Drift, CallPlaces
<1>7. ReadInv' /\ AnswersInv' /\ MetaInv'
  BY <1>1, <1>3, <1>6, DriftKeeps
<1>8. RecordedOnce' /\ ToolInv' /\ ExitInv'
  BY <1>1, <1>3, <1>4 DEF ServerInv, RecordedOnce, Calling, ToolInv, ExitInv
<1>9. EndInv'
  <2>1. Answered' = Answered /\ Requests(loop.read)' = Requests(loop.read)
    BY <1>1, <1>3 DEF Answered, Requests
  <2>2. CASE StartWorker
    BY <2>2, <1>3, GotoMoves, ZenonT(60) DEF StartWorker, EndInv, EndPlaces, ServerInv, ServerType, Goto
  <2>3. CASE CheckContext
    BY <2>3, <1>3, ZenonT(60) DEF CheckContext, EndServe, EndInv, EndPlaces, ServerInv, ServerType, Goto
  <2>4. CASE ReadEnd
    <3>1. hungUp' /\ loop'.read = Len(sent')
      BY <2>4, <1>1, <1>3 DEF ReadEnd, AtEnd
    <3>2. Answered = Requests(loop.read)
      BY <2>4 DEF ReadEnd, AtEnd, ServerInv, AnswersInv
    <3> QED
      BY <2>1, <3>1, <3>2 DEF EndInv, InputOver
  <2> QED
    BY <2>2, <2>3, <2>4
<1> QED
  BY <1>5, <1>7, <1>8, <1>9 DEF ServerInv

\* The steps of CallTool: the next place, and what they make of the call.
LEMMA CallStepKeeps ==
  ASSUME ServerInv, loop.at \in CallPlaces, NEW place \in CallPlaces, Goto(place),
         UNCHANGED <<cfg, sent, signal, answers, begun, records, closing>>,
         call' = [args |-> call'.args, expired |-> call'.expired, payload |-> call'.payload],
         call'.payload \in Payloads,
         place \in {"await", "gate", "handler"} => Message.tool \in Registered
  PROVE  ServerInv'
<1>1. loop' \in [at : Places, read : Nat] /\ loop'.at = place /\ loop'.read = loop.read
  BY GotoMoves DEF ServerInv, Places
<1>2. ServerType'
  BY <1>1 DEF ServerInv, ServerType
<1>3. Drift /\ loop'.at # "write"
  BY <1>1 DEF Drift, CallPlaces
<1>4. ReadInv' /\ AnswersInv' /\ MetaInv'
  BY <1>3, DriftKeeps
<1>5. Calling /\ Calling'
  BY <1>1 DEF Calling, CallPlaces
<1>6. RecordedOnce' /\ ToolInv' /\ ExitInv'
  BY <1>1, <1>5 DEF ServerInv, RecordedOnce, ToolInv, Message, Registered, ExitInv, CallPlaces
<1>7. EndInv'
  BY <1>1 DEF EndInv, EndPlaces, CallPlaces
<1> QED
  BY <1>2, <1>4, <1>6, <1>7 DEF ServerInv

LEMMA ErrorPayloadTyped == ErrorPayload \in Payloads /\ NoPayload \in Payloads
BY DEF ErrorPayload, NoPayload, Payload, Payloads

LEMMA CallPayloadSet ==
  ASSUME ServerInv, NEW p \in Payloads, call' = [call EXCEPT !.payload = p]
  PROVE  /\ call' = [args |-> call'.args, expired |-> call'.expired, payload |-> call'.payload]
         /\ call'.payload = p /\ call'.payload \in Payloads
BY DEF ServerInv, ServerType

LEMMA ConcludeErrorKeeps ==
  ASSUME ServerInv, loop.at \in CallPlaces, ConcludeError(ErrorPayload),
         UNCHANGED <<cfg, sent, signal, answers, begun, records, closing>>
  PROVE  ServerInv'
<1>1. Goto("finalize") /\ call' = [call EXCEPT !.payload = ErrorPayload]
  BY DEF ConcludeError
<1>2. "finalize" \in CallPlaces
  BY DEF CallPlaces
<1> QED
  BY <1>1, <1>2, CallStepKeeps, CallPayloadSet, ErrorPayloadTyped

LEMMA CallerLookupKeeps == ServerInv /\ CallerLookup => ServerInv'
<1> SUFFICES ASSUME ServerInv, CallerLookup PROVE ServerInv'
  OBVIOUS
<1>1. loop.at \in CallPlaces /\ "await" \in CallPlaces
      /\ UNCHANGED <<cfg, sent, signal, answers, begun, records, closing>>
  BY DEF CallerLookup, CallPlaces
<1>2. PICK args \in {CoercedArguments(call.args)} :
        IF Message.tool \in Registered /\ Valid(args)
        THEN Goto("await") /\ call' = [call EXCEPT !.args = args]
        ELSE ConcludeError(ErrorPayload)
  BY DEF CallerLookup
<1>3. CASE Message.tool \in Registered /\ Valid(args)
  <2>1. /\ call' = [args |-> call'.args, expired |-> call'.expired, payload |-> call'.payload]
        /\ call'.payload \in Payloads
    BY <1>2, <1>3 DEF ServerInv, ServerType
  <2> QED
    BY <1>1, <1>2, <1>3, <2>1, CallStepKeeps
<1>4. CASE ~(Message.tool \in Registered /\ Valid(args))
  BY <1>1, <1>2, <1>4, ConcludeErrorKeeps
<1> QED
  BY <1>3, <1>4

LEMMA AwaitAndGateKeep == ServerInv /\ (AwaitFreshness \/ Gate) => ServerInv'
<1> SUFFICES ASSUME ServerInv, AwaitFreshness \/ Gate PROVE ServerInv'
  OBVIOUS
<1>1. /\ loop.at \in CallPlaces /\ Message.tool \in Registered
      /\ UNCHANGED <<cfg, sent, signal, answers, begun, records, closing>>
      /\ \/ ConcludeError(ErrorPayload)
         \/ \E place \in {"gate", "handler"} : Goto(place) /\ UNCHANGED call
  BY DEF AwaitFreshness, Gate, CallPlaces, ServerInv, ToolInv
<1>2. CASE ConcludeError(ErrorPayload)
  BY <1>1, <1>2, ConcludeErrorKeeps
<1>3. CASE \E place \in {"gate", "handler"} : Goto(place) /\ UNCHANGED call
  <2>1. PICK place \in {"gate", "handler"} : Goto(place) /\ UNCHANGED call
    BY <1>3
  <2>2. /\ call' = [args |-> call'.args, expired |-> call'.expired, payload |-> call'.payload]
        /\ call'.payload \in Payloads /\ place \in CallPlaces
    BY <2>1 DEF ServerInv, ServerType, CallPlaces
  <2> QED
    BY <1>1, <2>1, <2>2, CallStepKeeps
<1> QED
  BY <1>1, <1>2, <1>3

LEMMA PayloadTyped ==
  ASSUME NEW isError \in BOOLEAN, NEW hasMeta \in BOOLEAN, NEW meta \in SUBSET MetaFields,
         NEW nan \in BOOLEAN
  PROVE  Payload(isError, hasMeta, meta, nan) \in Payloads
BY DEF Payload, Payloads

LEMMA HandleKeeps == ServerInv /\ Handle => ServerInv'
<1> SUFFICES ASSUME ServerInv, Handle PROVE ServerInv'
  OBVIOUS
<1>1. /\ loop.at \in CallPlaces /\ "fresh" \in CallPlaces /\ "finalize" \in CallPlaces
      /\ UNCHANGED <<cfg, sent, signal, answers, begun, records, closing>>
  BY DEF Handle, CallPlaces
<1>2. CASE ConcludeError(ErrorPayload)
  BY <1>1, <1>2, ConcludeErrorKeeps
<1>3. CASE Goto("finalize") /\ call' = [call EXCEPT !.payload = NoPayload]
  BY <1>1, <1>3, CallStepKeeps, CallPayloadSet, ErrorPayloadTyped
<1>4. ASSUME Goto("fresh"), NEW isError \in BOOLEAN, NEW own \in BOOLEAN,
             call' = [call EXCEPT !.payload = Payload(isError, own, IF own THEN {"own"} ELSE {}, FALSE)]
      PROVE  ServerInv'
  <2>1. (IF own THEN {"own"} ELSE {}) \in SUBSET MetaFields
    BY DEF MetaFields
  <2>2. Payload(isError, own, IF own THEN {"own"} ELSE {}, FALSE) \in Payloads
    BY <2>1, PayloadTyped
  <2> QED
    BY <1>1, <1>4, <2>2, CallStepKeeps, CallPayloadSet
<1>5. ASSUME Goto("fresh"), NEW rows \in BOOLEAN,
             call' = [call EXCEPT !.payload = Payload(FALSE, TRUE, {"own", "weight"}, rows)]
      PROVE  ServerInv'
  <2>1. Payload(FALSE, TRUE, {"own", "weight"}, rows) \in Payloads
    BY PayloadTyped DEF MetaFields
  <2> QED
    BY <1>1, <1>5, <2>1, CallStepKeeps, CallPayloadSet
<1> QED
  BY <1>2, <1>3, <1>4, <1>5 DEF Handle

LEMMA AttachFreshnessKeeps == ServerInv /\ AttachFreshness => ServerInv'
<1> SUFFICES ASSUME ServerInv, AttachFreshness PROVE ServerInv'
  OBVIOUS
<1>1. /\ loop.at \in CallPlaces /\ "finalize" \in CallPlaces /\ Goto("finalize")
      /\ UNCHANGED <<cfg, sent, signal, answers, begun, records, closing>>
  BY DEF AttachFreshness, CallPlaces
<1>2. call.payload \in Payloads
  BY DEF ServerInv, ServerType
<1>3. PICK known \in BOOLEAN : call' = [call EXCEPT !.payload = WithFreshness(call.payload, known)]
  BY DEF AttachFreshness, ServerInv, ServerType
<1>4. WithFreshness(call.payload, known) \in Payloads
  BY <1>2 DEF WithFreshness, Payloads, MetaFields
<1> QED
  BY <1>1, <1>3, <1>4, CallStepKeeps, CallPayloadSet

\* What the policy leaves is what the configuration asks for.
LEMMA PolicyApplies ==
  ASSUME NEW p \in Payloads
  PROVE  FinalPayload(p) \in Payloads /\ AsConfigured(FinalPayload(p))
<1> DEFINE meta == p.meta \cup {"saved"}
           kept == meta \cap cfg.meta.fields
<1>1. p.isError \in BOOLEAN /\ meta \in SUBSET MetaFields /\ kept \in SUBSET MetaFields
      /\ {} \in SUBSET MetaFields
  BY DEF Payloads, MetaFields
<1>2. WithSavings(p) \in Payloads /\ WithSavings(p).meta = meta /\ WithSavings(p).hasMeta = TRUE
  BY <1>1 DEF WithSavings, Payloads
<1>3. CASE cfg.meta.mode = "all"
  <2>1. FinalPayload(p) = WithSavings(p)
    BY <1>3 DEF FinalPayload, Policed
  <2>2. FinalPayload(p) \in Payloads
    BY <1>2, <2>1
  <2>3. FinalPayload(p).hasMeta = TRUE /\ FinalPayload(p).meta = meta
    BY <1>2, <2>1
  <2> QED
    BY <1>3, <2>2, <2>3 DEF AsConfigured
<1>4. CASE cfg.meta.mode # "all" /\ (cfg.meta.mode = "none" \/ kept = {})
  <2>1. FinalPayload(p) = [WithSavings(p) EXCEPT !.hasMeta = FALSE, !.meta = {}]
    BY <1>2, <1>4 DEF FinalPayload, Policed
  <2>2. FinalPayload(p) \in Payloads
    BY <1>1, <1>2, <2>1 DEF Payloads
  <2>3. FinalPayload(p).hasMeta = FALSE /\ FinalPayload(p).meta = {}
    BY <1>2, <2>1 DEF Payloads
  <2> QED
    BY <1>4, <2>2, <2>3 DEF AsConfigured
<1>5. CASE cfg.meta.mode # "all" /\ ~(cfg.meta.mode = "none" \/ kept = {})
  <2>1. FinalPayload(p) = [WithSavings(p) EXCEPT !.meta = kept]
    BY <1>2, <1>5 DEF FinalPayload, Policed
  <2>2. FinalPayload(p) \in Payloads
    BY <1>1, <1>2, <2>1 DEF Payloads
  <2>3. FinalPayload(p).meta \subseteq cfg.meta.fields
    BY <1>2, <2>1 DEF Payloads
  <2> QED
    BY <1>5, <2>2, <2>3 DEF AsConfigured
<1> QED
  BY <1>3, <1>4, <1>5

LEMMA FinalizeKeeps == ServerInv /\ Finalize => ServerInv'
<1> SUFFICES ASSUME ServerInv, Finalize PROVE ServerInv'
  OBVIOUS
<1>1. /\ loop.at = "finalize" /\ Goto("write")
      /\ UNCHANGED <<cfg, sent, signal, answers, begun, closing>>
  BY DEF Finalize
<1>2. loop' \in [at : Places, read : Nat] /\ loop'.at = "write" /\ loop'.read = loop.read
  BY <1>1, GotoMoves DEF ServerInv, Places
<1>3. FinalPayload(call.payload) \in Payloads /\ AsConfigured(FinalPayload(call.payload))
  BY PolicyApplies DEF ServerInv, ServerType
<1>4. call' = [call EXCEPT !.payload = FinalPayload(call.payload)]
  BY DEF Finalize, ServerInv, ServerType
<1>5. /\ call' = [args |-> call'.args, expired |-> call'.expired, payload |-> call'.payload]
      /\ call'.payload = FinalPayload(call.payload) /\ call'.payload \in Payloads
  BY <1>3, <1>4, CallPayloadSet
<1>6. begun \in Nat /\ records \in Nat /\ records' \in Nat
  BY DEF ServerInv, ServerType, Finalize
<1>7. ServerType'
  BY <1>1, <1>2, <1>5, <1>6 DEF ServerInv, ServerType
<1>8. Drift
  BY <1>1, <1>2 DEF Drift, CallPlaces
<1>9. ReadInv' /\ AnswersInv' /\ MetaInv'
  BY <1>1, <1>3, <1>5, <1>8, DriftKeeps
<1>10. RecordedOnce'
  <2>1. Calling /\ ~Calling'
    BY <1>1, <1>2 DEF Calling
  <2> QED
    BY <1>1, <1>6, <2>1 DEF ServerInv, RecordedOnce, Finalize
<1>11. ToolInv' /\ ExitInv' /\ EndInv'
  BY <1>1, <1>2 DEF ServerInv, ToolInv, ExitInv, EndInv, EndPlaces
<1> QED
  BY <1>7, <1>9, <1>10, <1>11 DEF ServerInv

LEMMA ReadMessageKeeps == ServerInv /\ ReadMessage => ServerInv'
<1> SUFFICES ASSUME ServerInv, ReadMessage PROVE ServerInv'
  OBVIOUS
<1> DEFINE m == sent[loop.read + 1]
<1>1. /\ loop.at = "read" /\ loop.read < Len(sent) /\ UNCHANGED <<cfg, sent, signal, answers, records>>
      /\ loop' = [at |-> Route(m), read |-> loop.read + 1]
  BY DEF ReadMessage
<1>2. Route(m) \in {"stopping", "check", "lookup", "write"}
      /\ (Route(m) \in {"lookup", "write"} => m.id)
      /\ (Route(m) = "check" => ~m.id)
      /\ (Route(m) = "lookup" <=> m.method = "call" /\ m.id)
  BY DEF Route, Notification
<1>3. loop.read \in Nat /\ loop'.read = loop.read + 1 /\ loop'.at = Route(m) /\ Message' = m
      /\ Len(sent) \in Nat
  BY <1>1 DEF ServerInv, ServerType, Message
<1>4. ServerType'
  <2>1. loop' \in [at : Places, read : Nat]
    BY <1>1, <1>2, <1>3 DEF Places, CallPlaces, EndPlaces
  <2>2. closing' \in [errors : SUBSET Faults, code : Nat]
    BY DEF ReadMessage, ServerInv, ServerType, Faults
  <2>3. call' = [args |-> call'.args, expired |-> call'.expired, payload |-> call'.payload]
        /\ call'.payload = NoPayload
    BY DEF ReadMessage, CallIdle
  <2>4. begun' \in Nat
    BY DEF ReadMessage, ServerInv, ServerType
  <2> QED
    BY <1>1, <2>1, <2>2, <2>3, <2>4, ErrorPayloadTyped DEF ServerInv, ServerType
<1>5. ReadInv'
  BY <1>1, <1>2, <1>3 DEF ReadInv, CallPlaces
<1>6. AnswersInv'
  <2>1. Answered' = Answered /\ Answered = Requests(loop.read)
    BY <1>1 DEF Answered, ServerInv, AnswersInv
  <2>3. ASSUME Route(m) = "check" PROVE Answered' = Requests(loop.read)'
    <3>1. ~sent[loop.read + 1].id
      BY <1>2, <2>3
    <3> QED
      BY <1>1, <1>3, <2>1, <3>1 DEF Requests
  <2>4. loop'.read - 1 = loop.read /\ Requests(loop.read - 1)' = Requests(loop.read)
    BY <1>1, <1>3 DEF Requests
  <2>5. \A i \in DOMAIN answers : answers[i].id \in 1 .. loop'.read
    BY <1>3 DEF ServerInv, AnswersInv
  <2>6. \A i, j \in DOMAIN answers : i < j => answers[i].id < answers[j].id
    BY DEF ServerInv, AnswersInv
  <2>7. loop'.at \in {"starting", "check", "read"} => Route(m) = "check"
    BY <1>2, <1>3
  <2> QED
    BY <1>1, <2>1, <2>3, <2>4, <2>5, <2>6, <2>7 DEF AnswersInv
<1>7. MetaInv'
  BY <1>1, <1>2, <1>3 DEF ServerInv, MetaInv, AsConfigured
<1>8. RecordedOnce'
  <2>1. ~Calling /\ (Calling' <=> Route(m) = "lookup")
    BY <1>1, <1>2, <1>3 DEF Calling
  <2> QED
    BY <1>1, <2>1 DEF ServerInv, ServerType, RecordedOnce, ReadMessage
<1>9. ToolInv'
  BY <1>2, <1>3 DEF ToolInv
<1>10. ExitInv'
  <2>1. closing'.errors \subseteq {"decode"}
    BY DEF ReadMessage, ServerInv, ServerType
  <2> QED
    BY <1>2, <1>3, <2>1 DEF ExitInv
<1>11. EndInv'
  <2> SUFFICES ASSUME Route(m) = "stopping", closing'.errors \cap {"decode"} = {}
               PROVE  Answered' = Requests(loop.read)' /\ InputOver'
    BY <1>2, <1>3 DEF EndInv, EndPlaces
  <2>1. m.method = "blank"
    BY DEF ReadMessage, Route, Unframed, ServerInv, ServerType
  <2>2. m \in Messages /\ ~m.id
    BY <1>1, <1>3, <2>1, BlankAssumption DEF ServerInv, ServerType
  <2>3. Answered' = Answered /\ Answered = Requests(loop.read)
    BY <1>1 DEF Answered, ServerInv, AnswersInv
  <2>4. Requests(loop.read)' = Requests(loop.read)
    BY <1>1, <1>3, <2>2 DEF Requests
  <2>5. InputOver'
    BY <1>3, <2>1 DEF InputOver
  <2> QED
    BY <2>3, <2>4, <2>5
<1> QED
  BY <1>4, <1>5, <1>6, <1>7, <1>8, <1>9, <1>10, <1>11 DEF ServerInv

LEMMA WriteKeeps == ServerInv /\ Write => ServerInv'
<1> SUFFICES ASSUME ServerInv, Write PROVE ServerInv'
  OBVIOUS
<1>1. /\ loop.at = "write" /\ UNCHANGED <<cfg, sent, signal, begun, records>>
      /\ loop.read \in Nat /\ loop.read \in 1 .. Len(sent) /\ Message.id
      /\ Answered = Requests(loop.read - 1)
  BY DEF Write, ServerInv, ServerType, ReadInv, AnswersInv
<1>2. call' = [args |-> call'.args, expired |-> call'.expired, payload |-> call'.payload]
      /\ call'.payload = NoPayload
  BY DEF Write, CallIdle
<1>3. ~Calling
  BY <1>1 DEF Calling
<1>4. ASSUME NEW place \in {"stopping", "exited"}, Goto(place), UNCHANGED answers,
             closing' \in [errors : SUBSET Faults, code : Nat],
             "cancelled" \notin closing'.errors, place = "exited" => closing'.code # 0,
             closing'.errors \cap {"write", "sigpipe"} # {}
      PROVE  ServerInv'
  <2>1. loop' \in [at : Places, read : Nat] /\ loop'.at = place /\ loop'.read = loop.read
    BY <1>4, GotoMoves DEF ServerInv, Places, EndPlaces
  <2>2. ServerType'
    BY <1>1, <1>2, <1>4, <2>1, ErrorPayloadTyped DEF ServerInv, ServerType
  <2>3. Drift /\ loop'.at # "write"
    BY <2>1 DEF Drift, CallPlaces
  <2>4. ReadInv' /\ AnswersInv' /\ MetaInv'
    BY <1>1, <1>4, <2>3, DriftKeeps
  <2>5. RecordedOnce' /\ ToolInv' /\ ExitInv'
    BY <1>1, <1>3, <1>4, <2>1 DEF ServerInv, RecordedOnce, Calling, ToolInv, ExitInv
  <2>6. EndInv'
    BY <1>4 DEF EndInv
  <2> QED
    BY <2>2, <2>4, <2>5, <2>6 DEF ServerInv
<1>5. CASE EndServe({"write"}) /\ UNCHANGED answers
  BY <1>4, <1>5 DEF EndServe, ServerInv, ServerType, Faults
<1>6. CASE Goto("exited") /\ UNCHANGED answers /\ closing' = [errors |-> {"sigpipe"}, code |-> 141]
  BY <1>4, <1>6 DEF Faults
<1>7. ASSUME Goto("check"), UNCHANGED closing,
             answers' = Append(answers, [id |-> loop.read, payload |-> call.payload, error |-> ProtocolError])
      PROVE  ServerInv'
  <2> DEFINE new == [id |-> loop.read, payload |-> call.payload, error |-> ProtocolError]
             n == Len(answers)
  <2>1. loop' \in [at : Places, read : Nat] /\ loop'.at = "check" /\ loop'.read = loop.read
    BY <1>7, GotoMoves DEF ServerInv, Places
  <2>2. /\ new \in AnswerRecords /\ n \in Nat /\ answers \in Seq(AnswerRecords)
        /\ new.error <=> ProtocolError
    <3>1. ProtocolError \in BOOLEAN
      BY DEF ProtocolError
    <3> QED
      BY <1>1, <3>1 DEF ServerInv, ServerType, AnswerRecords
  <2> HIDE DEF new
  <2>3. answers' = Append(answers, new)
    BY <1>7 DEF new
  <2>4. /\ answers' \in Seq(AnswerRecords) /\ Len(answers') = n + 1
        /\ \A i \in 1 .. n : answers'[i] = answers[i]
        /\ answers'[n + 1] = new /\ DOMAIN answers = 1 .. n /\ DOMAIN answers' = 1 .. n + 1
    BY <2>2, <2>3
  <2>5. new.id = loop.read /\ new.payload = call.payload
    BY DEF new
  <2> HIDE DEF n
  <2>6. ServerType'
    BY <1>1, <1>2, <1>7, <2>1, <2>4, ErrorPayloadTyped DEF ServerInv, ServerType
  <2>7. ReadInv'
    BY <1>1, <2>1 DEF ReadInv, ServerInv, CallPlaces
  <2>8. \A i \in 1 .. n : answers[i].id \in 1 .. loop.read - 1
    <3> SUFFICES ASSUME NEW i \in 1 .. n PROVE answers[i].id \in 1 .. loop.read - 1
      OBVIOUS
    <3>1. answers[i].id \in Answered
      BY <2>4 DEF Answered
    <3> QED
      BY <1>1, <3>1 DEF Requests
  <2>9. Answered' = Answered \cup {loop.read}
    <3>1. Answered' = {answers'[i].id : i \in 1 .. n + 1}
      BY <2>4 DEF Answered
    <3>2. Answered = {answers[i].id : i \in 1 .. n}
      BY <2>4 DEF Answered
    <3>3. 1 .. n + 1 = (1 .. n) \cup {n + 1}
      BY <2>2
    <3> QED
      BY <2>4, <2>5, <3>1, <3>2, <3>3
  <2>10. Requests(loop.read)' = Requests(loop.read - 1) \cup {loop.read}
    BY <1>1, <2>1 DEF Requests, Message
  <2>11. AnswersInv'
    <3>1. ASSUME NEW i \in 1 .. n + 1, NEW j \in 1 .. n + 1, i < j
          PROVE  answers'[i].id < answers'[j].id
      <4>1. i \in 1 .. n
        BY <2>2, <3>1
      <4>2. CASE j = n + 1
        <5>1. answers'[i].id \in 1 .. loop.read - 1
          BY <2>4, <2>8, <4>1
        <5>2. answers'[j].id = loop.read
          BY <2>4, <2>5, <4>2
        <5> QED
          BY <1>1, <5>1, <5>2
      <4>3. CASE j # n + 1
        <5>1. j \in 1 .. n
          BY <2>2, <4>3
        <5>2. i \in DOMAIN answers /\ j \in DOMAIN answers
              /\ answers'[i] = answers[i] /\ answers'[j] = answers[j]
          BY <2>4, <4>1, <5>1
        <5> QED
          BY <3>1, <5>2 DEF ServerInv, AnswersInv
      <4> QED
        BY <4>2, <4>3
    <3>2. ASSUME NEW i \in 1 .. n + 1 PROVE answers'[i].id \in 1 .. loop'.read
      <4>1. CASE i = n + 1
        BY <1>1, <2>1, <2>4, <2>5, <4>1
      <4>2. CASE i # n + 1
        <5>1. i \in 1 .. n
          BY <2>2, <4>2
        <5>2. answers'[i].id \in 1 .. loop.read - 1
          BY <2>4, <2>8, <5>1
        <5> QED
          BY <1>1, <2>1, <5>2
      <4> QED
        BY <4>1, <4>2
    <3> QED
      BY <1>1, <2>1, <2>4, <2>9, <2>10, <3>1, <3>2 DEF AnswersInv, CallPlaces
  <2>12. MetaInv'
    <3>1. ASSUME NEW i \in 1 .. n + 1, sent[answers'[i].id].method = "call"
          PROVE  AsConfigured(answers'[i].payload) /\ (answers'[i].error <=> ~Encodable(answers'[i].payload))
      <4>1. CASE i = n + 1
        <5>1. answers'[i] = new /\ Message.method = "call"
          BY <2>4, <2>5, <3>1, <4>1 DEF Message
        <5>2. AsConfigured(new.payload)
          BY <1>1, <2>5, <5>1 DEF ServerInv, MetaInv
        <5>3. new.error <=> ~Encodable(new.payload)
          BY <2>2, <2>5, <5>1 DEF ProtocolError
        <5> QED
          BY <5>1, <5>2, <5>3
      <4>2. CASE i # n + 1
        <5>1. i \in DOMAIN answers /\ answers'[i] = answers[i]
          BY <2>2, <2>4, <4>2
        <5> QED
          BY <1>1, <3>1, <5>1 DEF ServerInv, MetaInv
      <4> QED
        BY <4>1, <4>2
    <3> QED
      BY <1>1, <2>1, <2>4, <3>1 DEF MetaInv, AsConfigured
  <2>13. RecordedOnce' /\ ToolInv' /\ ExitInv'
    BY <1>1, <1>3, <1>7, <2>1 DEF ServerInv, RecordedOnce, Calling, ToolInv, ExitInv
  <2>14. EndInv'
    BY <2>1 DEF EndInv, EndPlaces
  <2> QED
    BY <2>6, <2>7, <2>11, <2>12, <2>13, <2>14 DEF ServerInv
<1> QED
  BY <1>5, <1>6, <1>7 DEF Write

LEMMA ShutdownKeeps ==
  ServerInv /\ (StopWorker \/ CloseTelemetry \/ CloseBackend \/ Exit) => ServerInv'
<1> SUFFICES ASSUME ServerInv, StopWorker \/ CloseTelemetry \/ CloseBackend \/ Exit
             PROVE  ServerInv'
  OBVIOUS
<1>1. /\ loop.at \in EndPlaces
      /\ \E place \in EndPlaces : Goto(place)
      /\ UNCHANGED <<cfg, sent, hungUp, signal, call, answers, begun, records>>
  BY DEF StopWorker, CloseTelemetry, CloseBackend, Exit, Shut, EndPlaces
<1>2. PICK place \in EndPlaces : Goto(place)
  BY <1>1
<1>3. loop' \in [at : Places, read : Nat] /\ loop'.at = place /\ loop'.read = loop.read
  BY <1>2, GotoMoves DEF ServerInv, Places
<1>4. closing' \in [errors : SUBSET Faults, code : Nat]
      /\ ("cancelled" \in closing'.errors => "cancelled" \in closing.errors)
  BY DEF StopWorker, CloseTelemetry, CloseBackend, Exit, Shut, ExitCode, ServerInv, ServerType, Faults
<1>5. ServerType'
  BY <1>1, <1>3, <1>4 DEF ServerInv, ServerType
<1>6. Drift /\ loop'.at # "write"
  BY <1>1, <1>3 DEF Drift, CallPlaces, EndPlaces
<1>7. ReadInv' /\ AnswersInv' /\ MetaInv'
  BY <1>1, <1>6, DriftKeeps
<1>8. RecordedOnce' /\ ToolInv'
  BY <1>1, <1>3 DEF ServerInv, RecordedOnce, Calling, ToolInv, EndPlaces
<1>9. ExitInv'
  <2>1. CASE Exit
    BY <2>1 DEF Exit, ExitCode, ServerInv, ServerType, ExitInv
  <2>2. CASE StopWorker \/ CloseTelemetry \/ CloseBackend
    <3>1. loop'.at # "exited"
      BY <2>2, GotoMoves DEF StopWorker, CloseTelemetry, CloseBackend, Shut, ServerInv, Places, EndPlaces
    <3> QED
      BY <1>1, <1>4, <3>1 DEF ExitInv, ServerInv
  <2> QED
    BY <2>1, <2>2
<1>10. EndInv'
  <2>1. closing.errors \subseteq closing'.errors
    BY SMTT(40) DEF StopWorker, CloseTelemetry, CloseBackend, Exit, Shut, ServerInv, ServerType
  <2> QED
    BY <1>1, <1>3, <2>1 DEF ServerInv, EndInv, Answered, Requests, InputOver, Message
<1> QED
  BY <1>5, <1>7, <1>8, <1>9, <1>10 DEF ServerInv

LEMMA ServerNextKeeps == ServerInv /\ [ServerNext]_serverVars => ServerInv'
<1> SUFFICES ASSUME ServerInv, [ServerNext]_serverVars PROVE ServerInv'
  OBVIOUS
<1>1. CASE ServerNext
  BY <1>1, SendKeeps, OutsideKeeps, AroundCallsKeep, ReadMessageKeeps, WriteKeeps,
     CallerLookupKeeps, AwaitAndGateKeep, HandleKeeps, AttachFreshnessKeeps, FinalizeKeeps,
     ShutdownKeeps DEF ServerNext, ServerStep
<1>2. CASE UNCHANGED serverVars
  <2>1. UNCHANGED <<cfg, sent, hungUp, signal, loop, call, answers, begun, records, closing>>
    BY <1>2 DEF serverVars
  <2>2. Drift /\ (loop'.at = "write" /\ Message.method = "call" => AsConfigured(call'.payload))
    BY <2>1 DEF ServerInv, ServerType, Drift, MetaInv
  <2> QED
    BY <2>1, <2>2, DriftKeeps
       DEF ServerInv, ServerType, RecordedOnce, Calling, ToolInv, Message, Registered, ExitInv, EndInv,
           Answered, Requests, InputOver
<1> QED
  BY <1>1, <1>2

\* Whatever clients send, handlers do and signals interrupt: requests have their answers, in
\* order and as the configuration asks, every call is in the telemetry once, a disabled tool
\* does not run, and an exit code of 0 without a signal means that the input was over, nothing
\* failed and every request read was answered.
THEOREM ServerTellsTheTruth == ServerSpec => []ServerAccounts
<1>1. ServerInv => ServerAccounts
  <2> SUFFICES ASSUME ServerInv PROVE ServerAccounts
    OBVIOUS
  <2>1. OneAnswerEach
    BY DEF ServerInv, AnswersInv, OneAnswerEach
  <2>2. MetaAsConfigured
    BY DEF ServerInv, MetaInv, AsConfigured, MetaAsConfigured
  <2>3. DisabledNeverRuns
    BY DEF ServerInv, ToolInv, Registered, DisabledNeverRuns
  <2>4. ExitCodeHonest
    BY DEF ServerInv, ExitInv, EndInv, EndPlaces, ExitCodeHonest
  <2> QED
    BY <2>1, <2>2, <2>3, <2>4 DEF ServerAccounts, ServerInv
<1> QED
  BY ServerInitHolds, ServerNextKeeps, <1>1, PTL DEF ServerSpec

-----------------------------------------------------------------------------
(* The trends.                                                              *)

LEMMA HasLeast == ASSUME NEW S \in SUBSET Nat, S # {} PROVE \E x \in S : \A y \in S : x <= y
<1> DEFINE R == OpToRel(<, Nat)
<1>1. \A x, y \in Nat : x < y => <<x, y>> \in R
  BY DEF OpToRel
<1>2. IsWellFoundedOn(R, Nat)
  BY NatLessThanWellFounded
<1> HIDE DEF R
<1>3. PICK x \in S : \A y \in S : ~(<<y, x>> \in R)
  BY <1>2, WFMin
<1>4. ASSUME NEW y \in S PROVE x <= y
  <2>1. x \in Nat /\ y \in Nat /\ ~(y < x)
    BY <1>1, <1>3
  <2> QED
    BY <2>1
<1> QED
  BY <1>4

LEMMA Division ==
  ASSUME NEW t \in Nat, NEW b \in Nat \ {0}
  PROVE  t = b * (t \div b) + (t % b) /\ t % b \in 0 .. b - 1 /\ t \div b \in Nat
OBVIOUS

LEMMA Growing ==
  ASSUME NEW s \in Nat, NEW t \in Nat, s <= t
  PROVE  \A b \in Nat : s * b <= t * b
OBVIOUS

\* The places that the text of a second takes up.
Width == (Base + 1) * (Base + 1)

\* The text of a time lies among those of its second, whatever its fraction.
LEMMA TextInSecond ==
  ASSUME NEW t \in Nat
  PROVE  /\ Text(t) \in Nat /\ Second(t) \in Nat /\ Width \in Nat
         /\ Second(t) * Width <= Text(t) /\ Text(t) < (Second(t) + 1) * Width
<1> DEFINE K == Base + 1
           S == Second(t)
           tenths == (t \div Base) % Base
           rest == t % Base
           digits == IF rest # 0 THEN tenths * (Base + 1) + rest
                     ELSE IF tenths # 0 THEN tenths * (Base + 1) + Base
                     ELSE Base * (Base + 1)
<1>1. Base \in Nat \ {0} /\ K \in Nat /\ Base * Base \in Nat \ {0}
  BY TrendsAssumption
<1>2. rest \in 0 .. Base - 1 /\ tenths \in 0 .. Base - 1 /\ S \in Nat
  <2>1. t \div Base \in Nat
    BY <1>1, Division
  <2> QED
    BY <1>1, <2>1, Division DEF Second
<1>3. Text(t) = S * (Base + 1) * (Base + 1) + digits
  BY DEF Text
<1>4. digits \in Nat /\ digits <= Base * K
  <2>1. tenths * K \in Nat /\ (tenths + 1) * K = tenths * K + K
    BY <1>1, <1>2
  <2>2. tenths + 1 <= Base /\ tenths + 1 \in Nat
    BY <1>1, <1>2
  <2>3. (tenths + 1) * K <= Base * K /\ Base * K \in Nat
    BY <1>1, <2>2, Growing
  <2>4. digits \in {tenths * K + rest, tenths * K + Base, Base * K}
    OBVIOUS
  <2> HIDE DEF tenths, rest, digits
  <2> QED
    BY <1>1, <1>2, <2>1, <2>3, <2>4
<1>5. Base * K < K * K /\ K * K \in Nat
  BY <1>1
<1>6. S * K * K = S * (K * K) /\ S * (K * K) \in Nat /\ (S + 1) * (K * K) = S * (K * K) + K * K
  BY <1>1, <1>2
<1> HIDE DEF digits
<1>7. Text(t) = S * (K * K) + digits
  BY <1>3, <1>6
<1>8. Width = K * K
  BY DEF Width
<1> HIDE DEF S, K
<1>9. /\ Text(t) \in Nat /\ S * (K * K) <= Text(t)
      /\ Text(t) < (S + 1) * (K * K)
  <2> DEFINE A == S * (K * K)
             W == K * K
             B == Base * K
             Z == (S + 1) * (K * K)
  <2>1. A \in Nat /\ W \in Nat /\ Z = A + W /\ digits <= B /\ B < W /\ Text(t) = A + digits
        /\ B \in Nat
    BY <1>1, <1>4, <1>5, <1>6, <1>7
  <2> HIDE DEF A, W, B, Z
  <2>2. Text(t) \in Nat /\ A <= Text(t) /\ Text(t) < Z
    BY <1>4, <2>1
  <2> QED
    BY <2>2 DEF A, Z
<1> QED
  BY <1>2, <1>5, <1>8, <1>9 DEF S

\* The text of a later second sorts after it.
LEMMA LaterSecondLater ==
  ASSUME NEW s \in Nat, NEW t \in Nat, Second(s) < Second(t)
  PROVE  Text(s) <= Text(t)
<1>1. /\ Text(s) \in Nat /\ Second(s) \in Nat /\ Width \in Nat
      /\ Text(s) < (Second(s) + 1) * Width
  BY TextInSecond
<1>2. Text(t) \in Nat /\ Second(t) \in Nat /\ Second(t) * Width <= Text(t)
  BY TextInSecond
<1>3. (Second(s) + 1) * Width <= Second(t) * Width
  <2>1. Second(s) + 1 \in Nat /\ Second(s) + 1 <= Second(t)
    BY <1>1, <1>2
  <2> QED
    BY <1>1, <1>2, <2>1, Growing
<1> DEFINE A == (Second(s) + 1) * Width
           B == Second(t) * Width
<1>4. A \in Nat /\ B \in Nat
  BY <1>1, <1>2
<1> HIDE DEF A, B
<1>5. Text(s) < A /\ A <= B /\ B <= Text(t)
  BY <1>1, <1>2, <1>3 DEF A, B
<1> QED
  BY <1>1, <1>2, <1>4, <1>5

LEMMA SecondsGrow == ASSUME NEW s \in Nat, NEW t \in Nat, s <= t PROVE Second(s) <= Second(t)
<1>1. Base * Base \in Nat \ {0}
  BY TrendsAssumption
<1>2. \A b \in Nat \ {0} : s \div b <= t \div b
  OBVIOUS
<1> QED
  BY <1>1, <1>2 DEF Second

\* What a window of a query counts, whatever the other windows of it are: all of its period
\* after its first second, and nothing outside its period.
LEMMA WindowCounts ==
  ASSUME NEW now \in Times, NEW windows \in SUBSET Windows, NEW w \in windows,
         \A v \in windows : v.duration <= now, stored \subseteq Times
  PROVE  LET events == LoadCallEvents(EarliestStart(windows, now))
         IN  /\ {t \in stored : Second(StartOf(w, now)) < Second(t) /\ t < now}
                  \subseteq InWindow(w, now, events)
             /\ InWindow(w, now, events) \subseteq InWindow(w, now, stored)
<1> DEFINE begins == {StartOf(v, now) : v \in windows}
           since == EarliestStart(windows, now)
<1>1. now \in Nat /\ \A v \in windows : StartOf(v, now) \in Nat
  BY TrendsAssumption DEF Times, StartOf
<1>2. since \in begins /\ \A y \in begins : since <= y
  <2>1. begins \in SUBSET Nat /\ begins # {}
    BY <1>1
  <2> HIDE DEF begins
  <2>2. \E x \in begins : \A y \in begins : x <= y
    BY <2>1, HasLeast
  <2>3. since = Min(begins)
    BY DEF EarliestStart, begins
  <2> QED
    BY <2>2, <2>3 DEF Min
<1>3. since \in Nat /\ since <= StartOf(w, now) /\ StartOf(w, now) \in Nat
  BY <1>1, <1>2
<1> HIDE DEF begins, since
<1>4. ASSUME NEW t \in stored, Second(StartOf(w, now)) < Second(t), t < now
      PROVE  t \in InWindow(w, now, LoadCallEvents(since))
  <2>1. t \in Nat /\ Second(t) \in Nat /\ Second(StartOf(w, now)) \in Nat /\ Second(since) \in Nat
    BY <1>3, TrendsAssumption, TextInSecond DEF Times
  <2>2. Second(since) <= Second(StartOf(w, now))
    BY <1>3, SecondsGrow
  <2>3. Text(since) <= Text(t)
    BY <1>3, <1>4, <2>1, <2>2, LaterSecondLater
  <2>4. Text(since) \in Nat /\ Text(t) \in Nat
    BY <1>3, <2>1, TextInSecond
  <2>5. StartOf(w, now) <= t
    BY <1>3, <1>4, <2>1, SecondsGrow
  <2> QED
    BY <1>4, <2>3, <2>4, <2>5 DEF InWindow, LoadCallEvents
<1>5. InWindow(w, now, LoadCallEvents(since)) \subseteq InWindow(w, now, stored)
  BY DEF InWindow, LoadCallEvents
<1> QED
  BY <1>4, <1>5 DEF since

\* A window's row has what the window counts.
TrendsInv ==
  /\ stored \subseteq Times
  /\ TrendsCountRecent

\* A window counts every call after its first second, and none outside its period, however
\* the times are written and whatever other windows the query has.
THEOREM RecentIsCounted == TrendsSpec => []TrendsCountRecent
<1>1. TrendsInit => TrendsInv
  BY DEF TrendsInit, TrendsIdle, TrendsInv, TrendsCountRecent
<1>2. TrendsInv /\ QueryTrends => TrendsInv'
  <2> SUFFICES ASSUME TrendsInv, QueryTrends PROVE TrendsInv'
    OBVIOUS
  <2>1. stored' = stored /\ stored \subseteq Times
    BY DEF QueryTrends, TrendsInv
  <2>2. PICK now \in Times, windows \in (SUBSET Windows) \ {{}} :
          /\ \A w \in windows : w.duration <= now
          /\ trends' = [now |-> now, rows |->
               {WindowRow(w, now, LoadCallEvents(EarliestStart(windows, now))) : w \in windows}]
    BY DEF QueryTrends
  <2> DEFINE events == LoadCallEvents(EarliestStart(windows, now))
  <2>3. ASSUME NEW w \in windows
        PROVE  LET row == WindowRow(w, now, events)
               IN  /\ row.window = w
                   /\ row.calls >= Cardinality({t \in stored :
                         Second(StartOf(w, now)) < Second(t) /\ t < now})
                   /\ row.calls <= Cardinality(InWindow(w, now, stored))
    <3> DEFINE recent == {t \in stored : Second(StartOf(w, now)) < Second(t) /\ t < now}
               counted == InWindow(w, now, events)
               all == InWindow(w, now, stored)
    <3>1. WindowRow(w, now, events).window = w
          /\ WindowRow(w, now, events).calls = Cardinality(counted)
      BY DEF WindowRow
    <3>2. recent \subseteq counted /\ counted \subseteq all
      BY <2>1, <2>2, WindowCounts
    <3>3. all \subseteq 0 .. Horizon
      BY <2>1 DEF InWindow, Times
    <3> HIDE DEF recent, counted, all
    <3>4. IsFiniteSet(0 .. Horizon)
      BY FS_Interval, TrendsAssumption
    <3>5. IsFiniteSet(all) /\ IsFiniteSet(counted) /\ IsFiniteSet(recent)
      BY <3>2, <3>3, <3>4, FS_Subset
    <3>6. Cardinality(recent) <= Cardinality(counted) /\ Cardinality(counted) <= Cardinality(all)
      BY <3>2, <3>5, FS_Subset
    <3>7. Cardinality(recent) \in Nat /\ Cardinality(counted) \in Nat /\ Cardinality(all) \in Nat
      BY <3>5, FS_CardinalityType
    <3>8. Cardinality(counted) >= Cardinality(recent)
      BY <3>6, <3>7
    <3> QED
      BY <3>1, <3>6, <3>8 DEF recent, all
  <2> HIDE DEF events
  <2>4. trends'.now = now /\ trends'.rows = {WindowRow(w, now, events) : w \in windows}
    BY <2>2 DEF events
  <2>5. TrendsCountRecent'
    <3> SUFFICES ASSUME NEW row \in trends'.rows
                 PROVE  /\ row.calls >= Cardinality({t \in stored :
                             Second(StartOf(row.window, now)) < Second(t) /\ t < now})
                        /\ row.calls <= Cardinality(InWindow(row.window, now, stored))
      BY <2>1, <2>4 DEF TrendsCountRecent
    <3>1. PICK w \in windows : row = WindowRow(w, now, events)
      BY <2>4
    <3>2. row.window = w
      BY <2>3, <3>1
    <3> QED
      BY <2>3, <3>1, <3>2
  <2> QED
    BY <2>1, <2>5 DEF TrendsInv
<1>3. TrendsInv /\ UNCHANGED trendVars => TrendsInv'
  BY DEF trendVars, TrendsInv, TrendsCountRecent, InWindow
<1>4. TrendsInv => TrendsCountRecent
  BY DEF TrendsInv
<1> QED
  BY <1>1, <1>2, <1>3, <1>4, PTL DEF TrendsSpec

\* A call that a window counts falls into a bucket that the window has, and only into that
\* one: none is lost between two points.
THEOREM EveryCallHasABucket ==
  ASSUME NEW w \in Windows, NEW now \in Times, w.duration <= now, NEW events \in SUBSET Times,
         NEW t \in InWindow(w, now, events)
  PROVE  /\ Align(t, w.step) \in Buckets(w, now)
         /\ \A b \in Buckets(w, now) : b <= t /\ t < b + w.step => b = Align(t, w.step)
<1> DEFINE s == StartOf(w, now)
           n == w.step
<1>1. n \in Nat \ {0} /\ now \in Nat /\ s \in Nat /\ t \in Nat /\ s <= t /\ t < now
  BY TrendsAssumption DEF Times, StartOf, InWindow
<1> HIDE DEF s, n
<1>2. /\ s = n * (s \div n) + (s % n) /\ s \div n \in Nat /\ s % n \in 0 .. n - 1
      /\ t = n * (t \div n) + (t % n) /\ t \div n \in Nat /\ t % n \in 0 .. n - 1
  BY <1>1, Division
<1>3. Align(s, n) = n * (s \div n) /\ Align(t, n) = n * (t \div n)
  BY <1>1, <1>2 DEF Align
<1>4. n * (s \div n) <= n * (t \div n) /\ n * (s \div n) \in Nat /\ n * (t \div n) \in Nat
  <2>1. s \div n <= t \div n
    BY <1>1
  <2> QED
    BY <1>1, <1>2, <2>1
<1>5. Align(t, n) <= t /\ t < Align(t, n) + n
  BY <1>1, <1>2, <1>3, <1>4
<1>6. \A k \in Nat : (n * k) % n = 0
  BY <1>1
<1>7. Align(t, n) \in Buckets(w, now)
  <2>1. Align(t, n) \in Align(s, n) .. now /\ Align(t, n) < now
    BY <1>1, <1>3, <1>4, <1>5
  <2>2. Align(t, n) % n = 0
    BY <1>2, <1>3, <1>6
  <2> QED
    BY <2>1, <2>2 DEF Buckets, s, n
<1>8. ASSUME NEW b \in Buckets(w, now), b <= t, t < b + n PROVE b = Align(t, n)
  <2>1. b \in Nat /\ b % n = 0
    BY <1>1, <1>3, <1>4 DEF Buckets, s, n
  <2>2. b = n * (b \div n) /\ b \div n \in Nat
    <3>1. b = n * (b \div n) + (b % n) /\ b \div n \in Nat
      BY <1>1, <2>1, Division
    <3>2. n * (b \div n) \in Nat
      BY <1>1, <3>1
    <3> QED
      BY <2>1, <3>1, <3>2
  <2> DEFINE k == b \div n
             m == t \div n
  <2> HIDE DEF k, m
  <2>3. k \in Nat /\ m \in Nat /\ b = n * k /\ n * m <= t /\ t < n * m + n
    BY <1>2, <1>3, <1>5, <2>2 DEF k, m
  <2>4. ~(k < m)
    <3> SUFFICES ASSUME k < m PROVE FALSE
      OBVIOUS
    <3>1. k + 1 <= m /\ (k + 1) * n <= m * n
      BY <1>1, <2>3, Growing
    <3>2. n * k + n <= n * m
      BY <1>1, <2>3, <3>1
    <3> QED
      BY <1>1, <1>8, <2>3, <3>2
  <2>5. ~(m < k)
    <3> SUFFICES ASSUME m < k PROVE FALSE
      OBVIOUS
    <3>1. m + 1 <= k /\ (m + 1) * n <= k * n
      BY <1>1, <2>3, Growing
    <3>2. n * m + n <= n * k
      BY <1>1, <2>3, <3>1
    <3> QED
      BY <1>1, <1>8, <2>3, <3>2
  <2>6. k = m
    BY <2>3, <2>4, <2>5
  <2> QED
    BY <1>3, <2>3, <2>6 DEF m
<1> QED
  BY <1>7, <1>8 DEF n

\* The counts of the points, one mark for each, are as many as the calls of the window.
LEMMA PointsOfWindow ==
  ASSUME NEW w \in Windows, NEW now \in Times, w.duration <= now, NEW events \in SUBSET Times
  PROVE  WindowRow(w, now, events).calls = Cardinality(Marks(WindowRow(w, now, events).points))
<1> DEFINE C == InWindow(w, now, events)
           B == Buckets(w, now)
           Part(b) == {t \in C : Align(t, w.step) = b}
           points == {[bucket |-> b, calls |-> Cardinality(Part(b))] : b \in B}
           marks == Marks(points)
           g == [b \in B |-> CHOOSE f : f \in Bijection(1 .. Cardinality(Part(b)), Part(b))]
           f == [m \in marks |-> g[m[1]][m[2]]]
<1>1. WindowRow(w, now, events).calls = Cardinality(C) /\ WindowRow(w, now, events).points = points
  BY DEF WindowRow
<1>2. IsFiniteSet(C)
  <2>1. IsFiniteSet(0 .. Horizon)
    BY FS_Interval, TrendsAssumption
  <2>2. C \subseteq 0 .. Horizon
    BY DEF Times, InWindow
  <2> QED
    BY <2>1, <2>2, FS_Subset
<1>3. \A t \in C : Align(t, w.step) \in B
  BY EveryCallHasABucket
<1> HIDE DEF C, B
<1>4. ASSUME NEW b \in B
      PROVE  /\ Cardinality(Part(b)) \in Nat
             /\ g[b] \in Bijection(1 .. Cardinality(Part(b)), Part(b))
  <2>1. IsFiniteSet(Part(b))
    BY <1>2, FS_Subset
  <2>2. Cardinality(Part(b)) \in Nat /\ ExistsBijection(1 .. Cardinality(Part(b)), Part(b))
    BY <2>1, FS_CardinalityType
  <2> QED
    BY <2>2 DEF ExistsBijection
<1>5. \A b \in B : Part(b) \subseteq C /\ \A t \in Part(b) : Align(t, w.step) = b
  OBVIOUS
<1>6. \A t \in C : t \in Part(Align(t, w.step))
  OBVIOUS
<1> HIDE DEF Part, g
<1>7. \A m \in marks : m[1] \in B /\ m[2] \in 1 .. Cardinality(Part(m[1])) /\ m = <<m[1], m[2]>>
  BY DEF Marks
<1>8. ASSUME NEW b \in B, NEW i \in 1 .. Cardinality(Part(b)) PROVE <<b, i>> \in marks
  <2> DEFINE p == [bucket |-> b, calls |-> Cardinality(Part(b))]
  <2>1. p \in points /\ <<b, i>> \in {p.bucket} \X (1 .. p.calls)
    OBVIOUS
  <2> HIDE DEF p, points
  <2> QED
    BY <2>1 DEF Marks
<1> HIDE DEF marks
<1>9. \A b \in B : \A i \in 1 .. Cardinality(Part(b)) : g[b][i] \in Part(b)
  BY <1>4 DEF Bijection, Injection
<1>10. f \in [marks -> C]
  BY <1>5, <1>7, <1>9
<1>11. ASSUME NEW m \in marks, NEW n \in marks, f[m] = f[n] PROVE m = n
  <2>1. g[m[1]][m[2]] = g[n[1]][n[2]]
    BY <1>11
  <2>2. m[1] = n[1]
    BY <1>5, <1>7, <1>9, <2>1
  <2>3. m[2] = n[2]
    BY <1>4, <1>7, <2>1, <2>2 DEF Bijection, Injection, IsInjective
  <2> QED
    BY <1>7, <2>2, <2>3
<1>12. ASSUME NEW t \in C PROVE \E m \in marks : f[m] = t
  <2> DEFINE b == Align(t, w.step)
  <2>1. b \in B /\ t \in Part(b)
    BY <1>3, <1>6
  <2> HIDE DEF b
  <2>2. PICK i \in 1 .. Cardinality(Part(b)) : g[b][i] = t
    BY <1>4, <2>1 DEF Bijection, Surjection
  <2>3. <<b, i>> \in marks
    BY <1>8, <2>1
  <2> QED
    BY <2>2, <2>3
<1>13. f \in Injection(marks, C) /\ f \in Surjection(marks, C)
  BY <1>10, <1>11, <1>12 DEF Injection, Surjection, IsInjective
<1> HIDE DEF f
<1>14. Cardinality(marks) = Cardinality(C)
  BY <1>2, <1>13, FS_Injection
<1> QED
  BY <1>1, <1>14 DEF marks

\* What a query answers is what was recorded: its windows count what happened in them, and the
\* points of a window add up to it (QueryTrends).
THEOREM TrendsAreHonest == TrendsSpec => []TrendsHonest
<1> DEFINE Inv == stored \subseteq Times /\ PointsAddUp
<1>1. TrendsInit => Inv
  BY DEF TrendsInit, TrendsIdle, PointsAddUp
<1>2. Inv /\ QueryTrends => Inv'
  <2> SUFFICES ASSUME Inv, QueryTrends PROVE Inv'
    OBVIOUS
  <2>1. stored' = stored
    BY DEF QueryTrends
  <2>2. PICK now \in Times, windows \in (SUBSET Windows) \ {{}} :
          /\ \A w \in windows : w.duration <= now
          /\ trends' = [now |-> now, rows |->
               {WindowRow(w, now, LoadCallEvents(EarliestStart(windows, now))) : w \in windows}]
    BY DEF QueryTrends
  <2> DEFINE events == LoadCallEvents(EarliestStart(windows, now))
  <2>3. events \in SUBSET Times
    BY DEF LoadCallEvents
  <2> HIDE DEF events
  <2>4. trends'.rows = {WindowRow(w, now, events) : w \in windows}
    BY <2>2 DEF events
  <2>5. \A w \in windows :
          WindowRow(w, now, events).calls = Cardinality(Marks(WindowRow(w, now, events).points))
    BY <2>2, <2>3, PointsOfWindow
  <2> QED
    BY <2>1, <2>4, <2>5 DEF PointsAddUp
<1>3. Inv /\ UNCHANGED trendVars => Inv'
  BY DEF trendVars, PointsAddUp
<1>4. TrendsInit /\ [][QueryTrends]_trendVars => []Inv
  <2>1. Inv /\ [QueryTrends]_trendVars => Inv'
    BY <1>2, <1>3
  <2> QED
    BY <1>1, <2>1, PTL
<1>5. Inv /\ TrendsCountRecent => TrendsHonest
  BY DEF TrendsHonest
<1> QED
  BY <1>4, <1>5, RecentIsCounted, PTL DEF TrendsSpec
=============================================================================
