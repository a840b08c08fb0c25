------------------------ MODULE VectorBackendProofs -------------------------
(***************************************************************************)
(* What the vector backend promises for every number of callers, processes,  *)
(* records and dimensions, whatever fails, times out or arrives late: it     *)
(* keeps the contract of its interface with either adapter, a process that   *)
(* has bootstrapped agrees with the collection, and embeddings come back in  *)
(* the order of their texts.                                                 *)
(***************************************************************************)
EXTENDS VectorBackend, FiniteSetTheorems, FunctionTheorems, SequenceTheorems, TLAPS

-----------------------------------------------------------------------------
(* The invariant. *)
Points == {"idle", "attempt", "backoff", "tx", "ensure"} \cup Sending

CallType ==
  [at : Points, op : Ops, ns : Namespaces \cup {Idle.ns}, recs : SUBSET Records, dim : Values,
   attempt : 1 .. MaxAttempts, left : SUBSET Records, found : SUBSET Records,
   done : SUBSET Records, got : Seq(Inputs), cancelled : BOOLEAN,
   outcome : {"none", "ok", "failed"}]

Write == [recs : SUBSET Records, value : Values]

\* Which operations come to a program point.
OpFits(o) ==
  /\ o.at \in {"ensure", "readColl", "create"} => o.op \in {"upsert", "query"}
  /\ o.at = "send" => o.op = "upsert"
  /\ o.at = "search" => o.op = "query"
  /\ o.at = "ping" => o.op = "health"
  /\ o.at = "read" => o.op \in {"delete", "drop", "health"}
  /\ o.at \in {"lookup", "remove"} => o.op = "delete"
  /\ o.at \in {"count", "clear"} => o.op = "drop"
  /\ o.at = "embed" => o.op = "embed"
  /\ o.at = "tx" => o.op # "embed"
  /\ o.op \in {"query", "health", "embed"} => o.recs = {}
  /\ o.op \in {"upsert", "query"} => o.dim # 0

\* A record the call names is done, or still to be sent or removed.
WorkFits(o) ==
  /\ o.left \subseteq o.recs /\ o.found \subseteq o.recs /\ o.done \subseteq o.recs
  /\ o.at \in {"attempt", "ensure", "readColl", "create"} => o.left = o.recs
  /\ o.at = "send" => o.recs \subseteq o.done \cup o.left
  /\ o.at = "remove" => o.recs \subseteq o.done \cup o.found

Ordered(got) == Len(got) <= Texts /\ \A i \in DOMAIN got : got[i] = i

CallOK(o) ==
  /\ IF o.at = "idle" THEN o = Returned(o.outcome) ELSE o.outcome = "none"
  /\ o.at = "backoff" => o.attempt # MaxAttempts
  /\ OpFits(o) /\ WorkFits(o) /\ Ordered(o.got)

\* Where a call can be with backend b and a collection of dimension k.
Reached(o, b, k) ==
  /\ b = "sqlite" => o.at \in {"idle", "attempt", "backoff", "tx", "embed"}
  /\ b = "qdrant" => o.at # "tx"
  /\ o.at \in {"send", "lookup", "remove", "count", "clear"} => k # 0
  /\ o.at = "send" => k = o.dim

CallsInv ==
  /\ call \in [Callers -> CallType]
  /\ \A c \in Callers : CallOK(call[c]) /\ Reached(call[c], backend, coll)

\* Without a collection there are no points and no requests for them.
StoreInv ==
  /\ backend \in Backends /\ coll \in Values
  /\ store \in [Records -> Values] /\ stray \subseteq Write
  /\ backend = "sqlite" => coll = 0 /\ stray = {}
  /\ backend = "qdrant" /\ coll = 0 => stray = {} /\ \A r \in Records : store[r] = 0

BootInv == boot \in [Processes -> Values] /\ BootAgrees

BackendInv == CallsInv /\ StoreInv /\ BootInv
-----------------------------------------------------------------------------
(* The records of calls. *)

\* What the fields of a call are.
LEMMA CallFields ==
  ASSUME NEW o \in CallType
  PROVE  /\ o.at \in Points /\ o.op \in Ops /\ o.recs \in SUBSET Records /\ o.dim \in Values
         /\ o.attempt \in 1 .. MaxAttempts /\ o.left \in SUBSET Records
         /\ o.found \in SUBSET Records /\ o.done \in SUBSET Records /\ o.got \in Seq(Inputs)
         /\ o.cancelled \in BOOLEAN /\ o.outcome \in {"none", "ok", "failed"}
BY DEF CallType

\* A call goes elsewhere.
LEMMA Going ==
  ASSUME NEW o \in CallType, NEW pc \in Points
  PROVE  LET n == [o EXCEPT !.at = pc] IN
         /\ n \in CallType
         /\ n.at = pc /\ n.op = o.op /\ n.recs = o.recs /\ n.dim = o.dim
         /\ n.attempt = o.attempt /\ n.left = o.left /\ n.found = o.found
         /\ n.done = o.done /\ n.got = o.got /\ n.outcome = o.outcome
BY DEF CallType

LEMMA IdleIs ==
  /\ Idle \in CallType
  /\ Idle.at = "idle" /\ Idle.op = "health" /\ Idle.recs = {} /\ Idle.dim = 0
  /\ Idle.attempt = 1 /\ Idle.left = {} /\ Idle.found = {} /\ Idle.done = {}
  /\ Idle.got = <<>> /\ Idle.outcome = "none"
<1>1. <<>> \in Seq(Inputs)
  OBVIOUS
<1> QED
  BY <1>1, BackendAssumption DEF Idle, CallType, Points, Ops, Values

\* What a caller has when its call is over.
LEMMA ReturnedIs ==
  ASSUME NEW outcome \in {"none", "ok", "failed"}
  PROVE  LET n == Returned(outcome) IN
         /\ n \in CallType /\ n.at = "idle" /\ n.recs = {} /\ n.done = {} /\ n.outcome = outcome
         /\ NewValue(n) = 0
         /\ CallOK(n) /\ \A b, k : Reached(n, b, k)
<1> DEFINE n == [Idle EXCEPT !.outcome = outcome]
<1>1. /\ n \in CallType
      /\ n.at = "idle" /\ n.op = "health" /\ n.recs = {} /\ n.dim = 0
      /\ n.left = {} /\ n.found = {} /\ n.done = {} /\ n.got = <<>> /\ n.outcome = outcome
  BY IdleIs DEF CallType
<1>2. n = Returned(outcome)
  BY DEF Returned
<1> HIDE DEF n
<1>3. OpFits(n) /\ WorkFits(n)
  BY <1>1 DEF OpFits, WorkFits
<1>4. Ordered(n.got)
  BY <1>1, BackendAssumption DEF Ordered
<1>5. CallOK(n)
  BY <1>1, <1>2, <1>3, <1>4 DEF CallOK
<1>6. \A b, k : Reached(n, b, k)
  BY <1>1 DEF Reached
<1>7. NewValue(n) = 0
  BY <1>1 DEF NewValue
<1> QED
  BY <1>1, <1>2, <1>5, <1>6, <1>7

LEMMA PointsOf ==
  /\ \A pc \in {"tx", "embed", "ensure", "ping", "read", "readColl", "create", "send", "search",
               "lookup", "remove", "count", "clear", "backoff", "attempt"} : pc \in Points
  /\ \A pc \in {"tx", "embed", "ensure", "ping", "read", "readColl", "create", "send", "search",
               "lookup", "remove", "count", "clear", "backoff", "attempt"} : pc # "idle"
BY DEF Points, Sending

\* What the contract sees of a call.
View(o) == [on |-> o.at # "idle", recs |-> o.recs, value |-> NewValue(o), done |-> o.done,
            outcome |-> o.outcome]

\* An attempt that failed ends the call, or the contract sees nothing of it.
LEMMA FailedIs ==
  ASSUME NEW o \in CallType, CallOK(o), o.at # "idle", NEW retryable \in BOOLEAN
  PROVE  /\ Failed(o, retryable) \in CallType /\ CallOK(Failed(o, retryable))
         /\ \A b, k : Reached(Failed(o, retryable), b, k)
         /\ \/ Failed(o, retryable) = Returned("failed")
            \/ View(Failed(o, retryable)) = View(o)
<1>1. CASE Failed(o, retryable) = Returned("failed")
  BY <1>1, ReturnedIs
<1>2. CASE retryable /\ o.attempt # MaxAttempts /\ Failed(o, retryable) = [o EXCEPT !.at = "backoff"]
  <2> DEFINE n == [o EXCEPT !.at = "backoff"]
  <2>1. /\ n \in CallType /\ n.at = "backoff" /\ n.op = o.op /\ n.recs = o.recs /\ n.dim = o.dim
        /\ n.attempt = o.attempt /\ n.left = o.left /\ n.found = o.found
        /\ n.done = o.done /\ n.got = o.got /\ n.outcome = o.outcome
    BY Going, PointsOf
  <2>2. n = Failed(o, retryable)
    BY <1>2
  <2> HIDE DEF n
  <2>3. CallOK(n)
    BY <1>2, <2>1 DEF CallOK, OpFits, WorkFits
  <2>4. \A b, k : Reached(n, b, k)
    BY <2>1 DEF Reached
  <2>5. View(n) = View(o)
    BY <2>1 DEF View, NewValue
  <2> QED
    BY <2>1, <2>2, <2>3, <2>4, <2>5
<1> QED
  BY <1>1, <1>2 DEF Failed
-----------------------------------------------------------------------------
(* The contract, in terms of calls. *)
Seen == [c \in Callers |-> View(call[c])]

LEMMA SeenIs ==
  /\ Contract!vars = <<store, Seen, stray>>
  /\ Contract!vars' = <<store', Seen', stray'>>
BY DEF Contract!vars, Seen, View

\* The view changes where the call does.
LEMMA SeenChanges ==
  ASSUME call \in [Callers -> CallType], NEW c \in Callers, NEW n, call' = [call EXCEPT ![c] = n]
  PROVE  Seen' = [Seen EXCEPT ![c] = View(n)]
<1>1. \A e \in Callers : call'[e] = IF e = c THEN n ELSE call[e]
  OBVIOUS
<1>2. Seen' = [e \in Callers |-> View(call'[e])]
  BY DEF Seen, View, NewValue
<1> QED
  BY <1>1, <1>2 DEF Seen

LEMMA RefinesStutter ==
  ASSUME call \in [Callers -> CallType], NEW c \in Callers, NEW n, call' = [call EXCEPT ![c] = n],
         View(n) = View(call[c]), UNCHANGED <<store, stray>>
  PROVE  UNCHANGED Contract!vars
<1>1. Seen' = Seen
  BY SeenChanges DEF Seen
<1> QED
  BY <1>1, SeenIs

LEMMA RefinesAsk ==
  ASSUME call \in [Callers -> CallType], NEW c \in Callers, NEW n \in CallType,
         call' = [call EXCEPT ![c] = n], call[c].at = "idle", n.at # "idle", n.done = {},
         n.outcome = "none", UNCHANGED <<store, stray>>
  PROVE  Contract!Next
<1>1. n.recs \in SUBSET Records /\ NewValue(n) \in Values
  BY CallFields DEF NewValue, Values
<1>2. View(n) = [on |-> TRUE, recs |-> n.recs, value |-> NewValue(n), done |-> {}, outcome |-> "none"]
  BY DEF View
<1>3. Contract!Ask(c, n.recs, NewValue(n))
  BY <1>2, SeenChanges DEF Contract!Ask, Seen, View
<1> QED
  BY <1>1, <1>3 DEF Contract!Next

LEMMA RefinesEffect ==
  ASSUME call \in [Callers -> CallType], NEW c \in Callers, NEW n, call' = [call EXCEPT ![c] = n],
         call[c].at # "idle", NEW R \in SUBSET call[c].recs,
         View(n) = [View(call[c]) EXCEPT !.done = @ \cup R],
         store' = Written(R, NewValue(call[c])), UNCHANGED stray
  PROVE  Contract!Next
<1>1. Contract!Effect(c, R)
  BY SeenChanges DEF Contract!Effect, Contract!Written, Written, Seen, View
<1> QED
  BY <1>1 DEF Contract!Next

LEMMA RefinesSucceed ==
  ASSUME call \in [Callers -> CallType], NEW c \in Callers, call' = [call EXCEPT ![c] = Returned("ok")],
         call[c].at # "idle", NEW R \in SUBSET call[c].recs, call[c].recs \subseteq call[c].done \cup R,
         store' = Written(R, NewValue(call[c])), UNCHANGED stray
  PROVE  Contract!Next
<1>1. View(Returned("ok")) = Contract!Ended("ok")
  BY ReturnedIs DEF View, Contract!Ended
<1>2. Contract!Succeed(c, R)
  BY <1>1, SeenChanges DEF Contract!Succeed, Contract!Written, Written, Seen, View
<1> QED
  BY <1>2 DEF Contract!Next

LEMMA RefinesFail ==
  ASSUME call \in [Callers -> CallType], NEW c \in Callers,
         call' = [call EXCEPT ![c] = Returned("failed")],
         call[c].at # "idle", NEW R \in SUBSET call[c].recs,
         store' = Written(R, NewValue(call[c])), UNCHANGED stray
  PROVE  Contract!Next
<1>1. View(Returned("failed")) = Contract!Ended("failed")
  BY ReturnedIs DEF View, Contract!Ended
<1>2. Contract!Fail(c, R)
  BY <1>1, SeenChanges DEF Contract!Fail, Contract!Written, Written, Seen, View
<1> QED
  BY <1>2 DEF Contract!Next

LEMMA RefinesAbandon ==
  ASSUME call \in [Callers -> CallType], NEW c \in Callers, NEW n, call' = [call EXCEPT ![c] = n],
         n = Returned("failed") \/ View(n) = View(call[c]),
         call[c].at # "idle", NEW R \in SUBSET call[c].recs,
         stray' = stray \cup {[recs |-> R, value |-> NewValue(call[c])]}, UNCHANGED store
  PROVE  Contract!Next
<1>1. CASE n = Returned("failed")
  <2>1. View(Returned("failed")) = Contract!Ended("failed")
    BY ReturnedIs DEF View, Contract!Ended
  <2>2. Contract!Abandon(c, R, TRUE)
    BY <1>1, <2>1, SeenChanges DEF Contract!Abandon, Seen, View
  <2> QED
    BY <2>2 DEF Contract!Next
<1>2. CASE View(n) = View(call[c])
  <2>1. Seen' = Seen
    BY <1>2, SeenChanges DEF Seen
  <2>2. Contract!Abandon(c, R, FALSE)
    BY <2>1 DEF Contract!Abandon, Seen, View
  <2> QED
    BY <2>2 DEF Contract!Next
<1> QED
  BY <1>1, <1>2

\* Writing nothing leaves the store as it is.
LEMMA NothingWritten ==
  ASSUME store \in [Records -> Values], NEW v
  PROVE  Written({}, v) = store
BY DEF Written
\* A call that has done more: the contract sees just that.
LEMMA ViewOfDone ==
  ASSUME NEW o, NEW m, NEW B, m.at = o.at, m.op = o.op, m.recs = o.recs, m.dim = o.dim,
         m.done = o.done \cup B, m.outcome = o.outcome
  PROVE  View(m) = [View(o) EXCEPT !.done = @ \cup B]
<1>1. NewValue(m) = NewValue(o)
  BY DEF NewValue
<1>2. (m.at # "idle") = (o.at # "idle")
  OBVIOUS
<1> QED
  BY <1>1, <1>2 DEF View
-----------------------------------------------------------------------------
(* What a step has to show. *)
Keeps == BackendInv' /\ [Contract!Next]_(Contract!vars)

LEMMA CallsKept ==
  ASSUME CallsInv, NEW c \in Callers, NEW n \in CallType, call' = [call EXCEPT ![c] = n],
         CallOK(n), Reached(n, backend, coll'), UNCHANGED backend, coll' = coll \/ coll = 0
  PROVE  CallsInv'
<1>1. call' \in [Callers -> CallType] /\ call'[c] = n /\ \A e \in Callers : e # c => call'[e] = call[e]
  BY DEF CallsInv
<1>2. ASSUME NEW e \in Callers, e # c PROVE CallOK(call'[e]) /\ Reached(call'[e], backend', coll')
  <2>1. call'[e] = call[e] /\ CallOK(call[e]) /\ Reached(call[e], backend, coll)
    BY <1>1, <1>2 DEF CallsInv
  <2>2. CASE coll' = coll
    BY <2>1, <2>2
  <2>3. CASE coll = 0
    BY <2>1, <2>3 DEF Reached
  <2> QED
    BY <2>1, <2>2, <2>3
<1> QED
  BY <1>1, <1>2 DEF CallsInv

\* Records change only where there is a place for them.
LEMMA StoreKept ==
  ASSUME StoreInv, UNCHANGED <<backend, stray>>,
         coll' = coll \/ (coll = 0 /\ coll' \in Values /\ backend = "qdrant"),
         NEW R \in SUBSET Records, NEW v \in Values, store' = Written(R, v),
         R = {} \/ coll # 0 \/ backend = "sqlite" \/ v = 0
  PROVE  StoreInv'
<1>1. store' \in [Records -> Values] /\ \A r \in Records : store'[r] = IF r \in R THEN v ELSE store[r]
  BY DEF StoreInv, Written
<1> QED
  BY <1>1 DEF StoreInv, Backends

\* A step that only moves a call on: the contract sees nothing, or the call fails.
LEMMA MoveKeeps ==
  ASSUME BackendInv, NEW c \in Callers, NEW n \in CallType, call' = [call EXCEPT ![c] = n],
         CallOK(n), Reached(n, backend, coll), UNCHANGED <<backend, store, coll, stray>>, BootInv',
         \/ View(n) = View(call[c])
         \/ n = Returned("failed") /\ call[c].at # "idle"
  PROVE  Keeps
<1>1. CallsInv'
  BY CallsKept DEF BackendInv
<1>2. StoreInv'
  BY DEF BackendInv, StoreInv
<1>3. View(n) = View(call[c]) => UNCHANGED Contract!vars
  BY RefinesStutter DEF BackendInv, CallsInv
<1>4. n = Returned("failed") /\ call[c].at # "idle" => Contract!Next
  <2>1. store' = Written({}, NewValue(call[c]))
    BY NothingWritten DEF BackendInv, StoreInv
  <2> QED
    BY <2>1, RefinesFail DEF BackendInv, CallsInv
<1> QED
  BY <1>1, <1>2, <1>3, <1>4 DEF Keeps, BackendInv

\* A step with which the call succeeds.
LEMMA SucceedKeeps ==
  ASSUME BackendInv, NEW c \in Callers, call' = [call EXCEPT ![c] = Returned("ok")],
         call[c].at # "idle", NEW R \in SUBSET call[c].recs, call[c].recs \subseteq call[c].done \cup R,
         store' = Written(R, NewValue(call[c])), UNCHANGED <<backend, coll, boot, stray>>,
         R = {} \/ coll # 0 \/ backend = "sqlite" \/ NewValue(call[c]) = 0
  PROVE  Keeps
<1>1. call[c] \in CallType /\ call \in [Callers -> CallType]
  BY DEF BackendInv, CallsInv
<1>2. NewValue(call[c]) \in Values /\ R \in SUBSET Records
  BY <1>1, CallFields DEF NewValue, Values
<1>3. CallsInv'
  BY ReturnedIs, CallsKept DEF BackendInv
<1>4. StoreInv'
  BY <1>2, StoreKept DEF BackendInv
<1>5. BootInv'
  BY DEF BackendInv, BootInv, BootAgrees
<1> QED
  BY <1>1, <1>3, <1>4, <1>5, RefinesSucceed DEF Keeps, BackendInv

\* An attempt that fails before it changes anything.
LEMMA FailedKeeps ==
  ASSUME BackendInv, NEW c \in Callers, call[c].at # "idle", NEW retryable \in BOOLEAN,
         call' = [call EXCEPT ![c] = Failed(call[c], retryable)],
         UNCHANGED <<backend, store, coll, boot, stray>>
  PROVE  Keeps
<1>1. call[c] \in CallType /\ CallOK(call[c])
  BY DEF BackendInv, CallsInv
<1>2. BootInv'
  BY DEF BackendInv, BootInv, BootAgrees
<1> QED
  BY <1>1, <1>2, FailedIs, MoveKeeps

\* A call that gives up.
LEMMA GivesUpKeeps ==
  ASSUME BackendInv, NEW c \in Callers, call[c].at # "idle",
         call' = [call EXCEPT ![c] = Returned("failed")],
         UNCHANGED <<backend, store, coll, boot, stray>>
  PROVE  Keeps
<1>1. BootInv'
  BY DEF BackendInv, BootInv, BootAgrees
<1> QED
  BY <1>1, ReturnedIs, MoveKeeps

\* A call that moves to another program point with the work it has.
LEMMA GoKeeps ==
  ASSUME BackendInv, NEW c \in Callers, call[c].at # "idle", NEW pc \in Points, pc # "idle",
         pc # "backoff",
         call' = [call EXCEPT ![c] = [call[c] EXCEPT !.at = pc]],
         OpFits([call[c] EXCEPT !.at = pc]), WorkFits([call[c] EXCEPT !.at = pc]),
         Reached([call[c] EXCEPT !.at = pc], backend, coll),
         UNCHANGED <<backend, store, coll, stray>>, BootInv'
  PROVE  Keeps
<1> DEFINE o == call[c]
           n == [call[c] EXCEPT !.at = pc]
<1>1. o \in CallType /\ CallOK(o)
  BY DEF BackendInv, CallsInv
<1>2. /\ n \in CallType
      /\ n.at = pc /\ n.op = o.op /\ n.recs = o.recs /\ n.dim = o.dim
      /\ n.done = o.done /\ n.got = o.got /\ n.outcome = o.outcome
  BY <1>1, Going
<1>3. CallOK(n)
  BY <1>1, <1>2 DEF CallOK
<1>4. View(n) = View(o)
  BY <1>2 DEF View, NewValue
<1> QED
  BY <1>2, <1>3, <1>4, MoveKeeps
-----------------------------------------------------------------------------
(* The retry loop. *)
LEMMA BackendInitHolds == Init => BackendInv /\ Contract!Init
<1> SUFFICES ASSUME Init PROVE BackendInv /\ Contract!Init
  OBVIOUS
<1>1. /\ store = [r \in Records |-> 0] /\ stray = {} /\ coll = 0 /\ boot = [p \in Processes |-> 0]
      /\ call = [c \in Callers |-> Idle] /\ backend \in Backends
  BY DEF Init
<1>2. Idle = Returned("none")
  BY DEF Returned, Idle
<1>3. CallsInv
  BY <1>1, <1>2, ReturnedIs DEF CallsInv
<1>4. StoreInv
  BY <1>1 DEF StoreInv, Values
<1>5. BootInv
  BY <1>1 DEF BootInv, BootAgrees, Values
<1>6. Contract!Init
  <2>1. View(Returned("none")) = Contract!Ended("none")
    BY ReturnedIs DEF View, Contract!Ended
  <2>2. Seen = [c \in Callers |-> Contract!Ended("none")]
    BY <1>1, <1>2, <2>1 DEF Seen
  <2> QED
    BY <1>1, <2>2 DEF Contract!Init, Seen, View, Values
<1> QED
  BY <1>3, <1>4, <1>5, <1>6 DEF BackendInv

LEMMA BeginKeeps ==
  ASSUME BackendInv, NEW c \in Callers, NEW q \in Asked, Begin(c, q)
  PROVE  Keeps
<1> DEFINE n == [Idle EXCEPT !.at = "attempt", !.op = q.op, !.ns = q.ns,
                             !.dim = q.dim, !.recs = q.recs, !.left = q.recs]
<1>1. /\ q.op \in Ops /\ q.ns \in Namespaces /\ q.recs \in SUBSET Records /\ q.dim \in Values
      /\ q.op \in {"query", "health", "embed"} => q.recs = {}
      /\ q.op \in {"upsert", "query"} => q.dim # 0
  BY AskedAssumption DEF Requests
<1>2. /\ n \in CallType
      /\ n.at = "attempt" /\ n.op = q.op /\ n.recs = q.recs /\ n.dim = q.dim /\ n.attempt = 1
      /\ n.left = q.recs /\ n.found = {} /\ n.done = {} /\ n.got = <<>> /\ n.outcome = "none"
  BY <1>1, IdleIs, PointsOf DEF CallType
<1>3. /\ call[c].at = "idle" /\ call' = [call EXCEPT ![c] = n]
      /\ UNCHANGED <<backend, store, coll, boot, stray>>
  BY DEF Begin
<1> HIDE DEF n
<1>4. CallOK(n)
  <2>1. OpFits(n) /\ WorkFits(n)
    BY <1>1, <1>2 DEF OpFits, WorkFits
  <2>2. Ordered(n.got)
    BY <1>2, BackendAssumption DEF Ordered
  <2> QED
    BY <1>2, <2>1, <2>2 DEF CallOK
<1>5. Reached(n, backend, coll)
  BY <1>2 DEF Reached
<1>6. CallsInv'
  BY <1>2, <1>3, <1>4, <1>5, CallsKept DEF BackendInv
<1>7. StoreInv' /\ BootInv'
  BY <1>3 DEF BackendInv, StoreInv, BootInv, BootAgrees
<1>8. Contract!Next
  BY <1>2, <1>3, RefinesAsk DEF BackendInv, CallsInv
<1> QED
  BY <1>6, <1>7, <1>8 DEF Keeps, BackendInv

LEMMA RefuseKeeps ==
  ASSUME BackendInv, NEW c \in Callers, Refuse(c)
  PROVE  Keeps
BY GivesUpKeeps DEF Refuse

LEMMA StartAttemptKeeps ==
  ASSUME BackendInv, NEW c \in Callers, StartAttempt(c)
  PROVE  Keeps
<1> DEFINE o == call[c]
           pc == IF o.op = "embed" THEN "embed"
                 ELSE IF backend = "sqlite" THEN "tx"
                 ELSE IF o.op \in {"upsert", "query"} THEN "ensure"
                 ELSE IF o.op = "health" THEN "ping" ELSE "read"
<1>1. o.at = "attempt" /\ UNCHANGED <<backend, store, coll, boot, stray>>
  BY DEF StartAttempt
<1>2. o \in CallType /\ CallOK(o) /\ backend \in Backends /\ BootInv'
  BY <1>1 DEF BackendInv, CallsInv, StoreInv, BootInv, BootAgrees
<1>3. CASE o.cancelled
  BY <1>1, <1>3, GivesUpKeeps DEF StartAttempt
<1>4. CASE ~o.cancelled
  <2>1. call' = [call EXCEPT ![c] = [call[c] EXCEPT !.at = pc]]
    BY <1>4 DEF StartAttempt
  <2>2. pc \in {"tx", "embed", "ensure", "ping", "read"} /\ o.op \in Ops
    BY <1>2, CallFields
  <2>3. pc \in Points
    BY <2>2, PointsOf
  <2> DEFINE n == [call[c] EXCEPT !.at = pc]
  <2>4. /\ n.at = pc /\ n.op = o.op /\ n.recs = o.recs /\ n.dim = o.dim
        /\ n.left = o.left /\ n.found = o.found /\ n.done = o.done
    BY <1>2, <2>3, Going
  <2>5. OpFits(n)
    <3>1. /\ pc = "ensure" => o.op \in {"upsert", "query"}
          /\ pc = "ping" => o.op = "health"
          /\ pc = "read" => o.op \in {"delete", "drop", "health"}
          /\ pc = "embed" => o.op = "embed"
          /\ pc = "tx" => o.op # "embed"
      BY <2>2 DEF Ops
    <3>2. OpFits(o)
      BY <1>2 DEF CallOK
    <3> HIDE DEF pc, n
    <3> QED
      BY <2>2, <2>4, <3>1, <3>2 DEF OpFits
  <2>6. WorkFits(n)
    <3>1. WorkFits(o)
      BY <1>2 DEF CallOK
    <3> HIDE DEF pc, n
    <3> QED
      BY <1>1, <2>2, <2>4, <3>1 DEF WorkFits
  <2>7. Reached(n, backend, coll)
    <3>1. (backend = "sqlite" => pc \in {"tx", "embed"}) /\ (backend = "qdrant" => pc # "tx")
      BY <1>2 DEF Backends
    <3> HIDE DEF pc, n
    <3> QED
      BY <2>2, <2>4, <3>1 DEF Reached
  <2> QED
    BY <1>1, <1>2, <2>1, <2>2, <2>3, <2>5, <2>6, <2>7, GoKeeps
<1> QED
  BY <1>3, <1>4

LEMMA BackoffKeeps ==
  ASSUME BackendInv, NEW c \in Callers, Backoff(c)
  PROVE  Keeps
<1> DEFINE o == call[c]
           n == [o EXCEPT !.at = "attempt", !.attempt = @ + 1, !.left = o.recs,
                          !.found = {}, !.got = <<>>]
<1>1. o.at = "backoff" /\ UNCHANGED <<backend, store, coll, boot, stray>>
  BY DEF Backoff
<1>2. o \in CallType /\ CallOK(o) /\ BootInv'
  BY <1>1 DEF BackendInv, CallsInv, BootInv, BootAgrees
<1>3. CASE o.cancelled
  BY <1>1, <1>3, GivesUpKeeps DEF Backoff
<1>4. CASE ~o.cancelled
  <2>1. call' = [call EXCEPT ![c] = n]
    BY <1>4 DEF Backoff, NextAttempt
  <2>2. o.attempt + 1 \in 1 .. MaxAttempts
    BY <1>1, <1>2, CallFields, BackendAssumption DEF CallOK
  <2>3. <<>> \in Seq(Inputs) /\ o.recs \in SUBSET Records /\ "attempt" \in Points
    BY <1>2, CallFields, PointsOf
  <2>4. /\ n \in CallType
        /\ n.at = "attempt" /\ n.op = o.op /\ n.recs = o.recs /\ n.dim = o.dim
        /\ n.left = o.recs /\ n.found = {} /\ n.done = o.done /\ n.got = <<>>
        /\ n.outcome = o.outcome
    BY <1>2, <2>2, <2>3 DEF CallType
  <2> HIDE DEF n
  <2>5. OpFits(n) /\ WorkFits(n)
    BY <1>2, <2>4 DEF CallOK, OpFits, WorkFits
  <2>6. Ordered(n.got)
    BY <2>4, BackendAssumption DEF Ordered
  <2>7. CallOK(n)
    BY <1>1, <1>2, <2>4, <2>5, <2>6 DEF CallOK
  <2>8. Reached(n, backend, coll) /\ View(n) = View(o)
    BY <1>1, <2>4 DEF Reached, View, NewValue
  <2> QED
    BY <1>1, <1>2, <2>1, <2>4, <2>7, <2>8, MoveKeeps
<1> QED
  BY <1>3, <1>4

LEMMA CancelKeeps ==
  ASSUME BackendInv, NEW c \in Callers, Cancel(c)
  PROVE  Keeps
<1> DEFINE o == call[c]
           n == [o EXCEPT !.cancelled = TRUE]
<1>1. /\ o.at # "idle" /\ call' = [call EXCEPT ![c] = n]
      /\ UNCHANGED <<backend, store, coll, boot, stray>>
  BY DEF Cancel
<1>2. o \in CallType /\ CallOK(o) /\ Reached(o, backend, coll) /\ BootInv'
  BY <1>1 DEF BackendInv, CallsInv, BootInv, BootAgrees
<1>3. /\ n \in CallType
      /\ n.at = o.at /\ n.op = o.op /\ n.recs = o.recs /\ n.dim = o.dim
      /\ n.attempt = o.attempt /\ n.left = o.left /\ n.found = o.found
      /\ n.done = o.done /\ n.got = o.got /\ n.outcome = o.outcome
  BY <1>2 DEF CallType
<1> HIDE DEF n
<1>4. CallOK(n)
  BY <1>1, <1>2, <1>3 DEF CallOK, OpFits, WorkFits
<1>5. Reached(n, backend, coll) /\ View(n) = View(o)
  BY <1>2, <1>3 DEF Reached, View, NewValue
<1> QED
  BY <1>1, <1>2, <1>3, <1>4, <1>5, MoveKeeps
-----------------------------------------------------------------------------
(* The SQLite adapter. *)
LEMMA SqlStepKeeps ==
  ASSUME BackendInv, NEW c \in Callers, SqlStep(c)
  PROVE  Keeps
<1> DEFINE o == call[c]
<1>1. o.at = "tx"
  BY DEF SqlStep, SqlUpsert, SqlDelete, SqlDropNamespace, SqlQuery, SqlHealth
<1>2. o \in CallType /\ CallOK(o) /\ backend = "sqlite"
  BY <1>1 DEF BackendInv, CallsInv, StoreInv, Backends, Reached
<1>3. CASE SqlUpsert(c) \/ SqlDelete(c) \/ SqlDropNamespace(c)
  <2>1. /\ call' = [call EXCEPT ![c] = Returned("ok")]
        /\ store' = Written(o.recs, NewValue(o)) /\ UNCHANGED <<backend, coll, boot, stray>>
    BY <1>3 DEF SqlUpsert, SqlDelete, SqlDropNamespace, Succeeds
  <2> QED
    BY <1>1, <1>2, <2>1, SucceedKeeps
<1>4. ASSUME o.op \in {"query", "health"}, call' = [call EXCEPT ![c] = Returned("ok")],
             store' = Written({}, NewValue(o)), UNCHANGED <<backend, coll, boot, stray>>
      PROVE  Keeps
  <2>1. o.recs = {}
    BY <1>2, <1>4 DEF CallOK, OpFits
  <2> QED
    BY <1>1, <1>4, <2>1, SucceedKeeps
<1>5. CASE SqlQuery(c)
  <2>1. store = Written({}, NewValue(o))
    BY NothingWritten DEF BackendInv, StoreInv
  <2>2. CASE Mixed(o)
    BY <1>1, <1>5, <2>2, FailedKeeps DEF SqlQuery
  <2>3. CASE ~Mixed(o)
    BY <1>4, <1>5, <2>1, <2>3 DEF SqlQuery
  <2> QED
    BY <2>2, <2>3
<1>6. CASE SqlHealth(c)
  BY <1>4, <1>6 DEF SqlHealth, Succeeds
<1> QED
  BY <1>3, <1>5, <1>6 DEF SqlStep

LEMMA SqlFailsKeeps ==
  ASSUME BackendInv, NEW c \in Callers, NEW retryable \in BOOLEAN, SqlFails(c, retryable)
  PROVE  Keeps
<1>1. (retryable /\ ~call[c].cancelled) \in BOOLEAN
  OBVIOUS
<1> QED
  BY <1>1, FailedKeeps DEF SqlFails
-----------------------------------------------------------------------------
(* The Qdrant adapter: its collection. *)

\* With a collection of its dimension a call goes on.
LEMMA AfterEnsureKeeps ==
  ASSUME BackendInv, NEW c \in Callers, call[c].at \in {"ensure", "readColl"},
         call' = [call EXCEPT ![c] = AfterEnsure(call[c])], coll = call[c].dim,
         UNCHANGED <<backend, store, coll, stray>>, BootInv'
  PROVE  Keeps
<1> DEFINE o == call[c]
           pc == IF o.op = "upsert" THEN "send" ELSE "search"
           n == [call[c] EXCEPT !.at = pc]
<1>1. o \in CallType /\ CallOK(o) /\ Reached(o, backend, coll) /\ backend \in Backends
  BY DEF BackendInv, CallsInv, StoreInv
<1>2. /\ o.op \in {"upsert", "query"} /\ o.dim # 0 /\ o.left = o.recs
      /\ OpFits(o) /\ WorkFits(o)
  BY <1>1 DEF CallOK, OpFits, WorkFits
<1>3. pc \in {"send", "search"} /\ pc \in Points
  BY PointsOf
<1>4. /\ n.at = pc /\ n.op = o.op /\ n.recs = o.recs /\ n.dim = o.dim
      /\ n.left = o.left /\ n.found = o.found /\ n.done = o.done
  BY <1>1, <1>3, Going
<1>5. call' = [call EXCEPT ![c] = [call[c] EXCEPT !.at = pc]]
  BY DEF AfterEnsure
<1>6. (pc = "send" => o.op = "upsert") /\ (pc = "search" => o.op = "query")
  BY <1>2
<1> HIDE DEF pc
<1>7. OpFits(n) /\ WorkFits(n)
  <2> HIDE DEF n
  <2> QED
    BY <1>2, <1>3, <1>4, <1>6 DEF OpFits, WorkFits
<1>8. Reached(n, backend, coll)
  <2> HIDE DEF n
  <2> QED
    BY <1>1, <1>2, <1>3, <1>4 DEF Reached, Backends
<1> QED
  BY <1>3, <1>5, <1>7, <1>8, GoKeeps

LEMMA BootUnchanged ==
  ASSUME BackendInv, UNCHANGED <<boot, coll>>
  PROVE  BootInv'
BY DEF BackendInv, BootInv, BootAgrees

LEMMA EnsureKeeps ==
  ASSUME BackendInv, NEW c \in Callers, Ensure(c)
  PROVE  Keeps
<1> DEFINE o == call[c]
           b == boot[ProcessOf[c]]
<1>1. o.at = "ensure" /\ UNCHANGED <<backend, store, coll, boot, stray>>
  BY DEF Ensure, Stays
<1>2. o \in CallType /\ CallOK(o) /\ Reached(o, backend, coll) /\ BootInv'
  BY <1>1, BootUnchanged DEF BackendInv, CallsInv
<1>3. OpFits(o) /\ WorkFits(o) /\ o.op \in {"upsert", "query"} /\ o.dim # 0
  BY <1>1, <1>2 DEF CallOK, OpFits
<1>4. CASE b = 0
  <2> DEFINE n == [call[c] EXCEPT !.at = "readColl"]
  <2>1. call' = [call EXCEPT ![c] = n]
    BY <1>4 DEF Ensure
  <2>2. /\ n.at = "readColl" /\ n.op = o.op /\ n.recs = o.recs /\ n.dim = o.dim
        /\ n.left = o.left /\ n.found = o.found /\ n.done = o.done
    BY <1>2, Going, PointsOf
  <2>3. OpFits(n) /\ WorkFits(n) /\ Reached(n, backend, coll)
    <3> HIDE DEF n
    <3> QED
      BY <1>1, <1>2, <1>3, <2>2 DEF OpFits, WorkFits, Reached
  <2> QED
    BY <1>1, <1>2, <2>1, <2>3, PointsOf, GoKeeps
<1>5. CASE b # 0 /\ b = o.dim
  <2>1. call' = [call EXCEPT ![c] = AfterEnsure(call[c])]
    BY <1>5 DEF Ensure
  <2>2. coll = o.dim
    BY <1>5 DEF BackendInv, BootInv, BootAgrees, Processes
  <2> QED
    BY <1>1, <1>2, <2>1, <2>2, AfterEnsureKeeps
<1>6. CASE b # 0 /\ b # o.dim
  <2>1. call' = [call EXCEPT ![c] = Failed(call[c], FALSE)]
    BY <1>6 DEF Ensure
  <2> QED
    BY <1>1, <2>1, FailedKeeps
<1> QED
  BY <1>4, <1>5, <1>6

LEMMA ReadCollectionKeeps ==
  ASSUME BackendInv, NEW c \in Callers, ReadCollection(c)
  PROVE  Keeps
<1> DEFINE o == call[c]
<1>1. o.at = "readColl" /\ UNCHANGED <<backend, store, coll, stray>>
  BY DEF ReadCollection
<1>2. o \in CallType /\ CallOK(o) /\ Reached(o, backend, coll)
  BY DEF BackendInv, CallsInv
<1>3. OpFits(o) /\ WorkFits(o) /\ o.op \in {"upsert", "query"} /\ o.dim # 0
  BY <1>1, <1>2 DEF CallOK, OpFits
<1>4. BootInv'
  <2>1. boot \in [Processes -> Values] /\ coll \in Values /\ BootAgrees
    BY DEF BackendInv, BootInv, StoreInv
  <2>2. boot' = [boot EXCEPT ![ProcessOf[c]] = coll] \/ boot' = boot
    BY DEF ReadCollection
  <2> QED
    BY <1>1, <2>1, <2>2 DEF BootInv, BootAgrees
<1>5. CASE coll = 0
  <2> DEFINE n == [call[c] EXCEPT !.at = "create"]
  <2>1. call' = [call EXCEPT ![c] = n]
    BY <1>5 DEF ReadCollection
  <2>2. /\ n.at = "create" /\ n.op = o.op /\ n.recs = o.recs /\ n.dim = o.dim
        /\ n.left = o.left /\ n.found = o.found /\ n.done = o.done
    BY <1>2, Going, PointsOf
  <2>3. OpFits(n) /\ WorkFits(n) /\ Reached(n, backend, coll)
    <3> HIDE DEF n
    <3> QED
      BY <1>1, <1>2, <1>3, <2>2 DEF OpFits, WorkFits, Reached
  <2> QED
    BY <1>1, <1>4, <2>1, <2>3, PointsOf, GoKeeps
<1>6. CASE coll # 0 /\ coll = o.dim
  <2>1. call' = [call EXCEPT ![c] = AfterEnsure(call[c])]
    BY <1>6 DEF ReadCollection
  <2> QED
    BY <1>1, <1>4, <1>6, <2>1, AfterEnsureKeeps
<1>7. CASE coll # 0 /\ coll # o.dim
  <2>1. call' = [call EXCEPT ![c] = Failed(call[c], FALSE)] /\ boot' = boot
    BY <1>7 DEF ReadCollection
  <2> QED
    BY <1>1, <2>1, FailedKeeps
<1> QED
  BY <1>5, <1>6, <1>7

LEMMA CreateCollectionKeeps ==
  ASSUME BackendInv, NEW c \in Callers, CreateCollection(c)
  PROVE  Keeps
<1> DEFINE o == call[c]
<1>1. o.at = "create" /\ UNCHANGED <<backend, store, stray>>
  BY DEF CreateCollection
<1>2. /\ o \in CallType /\ CallOK(o) /\ Reached(o, backend, coll)
      /\ call \in [Callers -> CallType] /\ backend \in Backends
  BY DEF BackendInv, CallsInv, StoreInv
<1>3. /\ OpFits(o) /\ WorkFits(o) /\ o.op \in {"upsert", "query"} /\ o.dim # 0 /\ o.dim \in Values
      /\ o.left = o.recs /\ backend = "qdrant"
  BY <1>1, <1>2, CallFields DEF CallOK, OpFits, WorkFits, Reached, Backends
<1>4. CASE coll = 0
  <2> DEFINE pc == IF o.op = "upsert" THEN "send" ELSE "search"
             n == [call[c] EXCEPT !.at = pc]
  <2>1. /\ call' = [call EXCEPT ![c] = n] /\ coll' = o.dim
        /\ boot' = [boot EXCEPT ![ProcessOf[c]] = o.dim]
    BY <1>4 DEF CreateCollection, AfterEnsure
  <2>2. pc \in {"send", "search"} /\ pc \in Points
    BY PointsOf
  <2>3. /\ n \in CallType /\ n.at = pc /\ n.op = o.op /\ n.recs = o.recs /\ n.dim = o.dim
        /\ n.left = o.left /\ n.found = o.found /\ n.done = o.done /\ n.got = o.got
        /\ n.outcome = o.outcome
    BY <1>2, <2>2, Going
  <2>4. (pc = "send" => o.op = "upsert") /\ (pc = "search" => o.op = "query")
    BY <1>3
  <2> HIDE DEF pc, n
  <2>5. OpFits(n) /\ WorkFits(n)
    BY <1>3, <2>2, <2>3, <2>4 DEF OpFits, WorkFits
  <2>6. CallOK(n) /\ View(n) = View(o)
    BY <1>1, <1>2, <2>2, <2>3, <2>5 DEF CallOK, View, NewValue
  <2>7. Reached(n, backend, coll')
    BY <1>3, <2>1, <2>2, <2>3 DEF Reached
  <2>8. CallsInv'
    BY <1>1, <1>4, <2>1, <2>3, <2>6, <2>7, CallsKept DEF BackendInv
  <2>9. StoreInv'
    BY <1>1, <1>3, <2>1 DEF BackendInv, StoreInv
  <2>10. BootInv'
    BY <1>3, <1>4, <2>1 DEF BackendInv, BootInv, BootAgrees
  <2>11. UNCHANGED Contract!vars
    BY <1>1, <1>2, <2>1, <2>6, RefinesStutter
  <2> QED
    BY <2>8, <2>9, <2>10, <2>11 DEF Keeps, BackendInv
<1>5. CASE coll # 0
  <2>1. call' = [call EXCEPT ![c] = Failed(call[c], FALSE)] /\ boot' = boot /\ coll' = coll
    BY <1>5 DEF CreateCollection
  <2> QED
    BY <1>1, <2>1, FailedKeeps
<1> QED
  BY <1>4, <1>5
-----------------------------------------------------------------------------
(* The Qdrant adapter: its points. *)
LEMMA BatchesAre ==
  ASSUME NEW S, NEW B \in Batches(S)
  PROVE  B \subseteq S
BY DEF Batches

LEMMA UpsertPointsKeeps ==
  ASSUME BackendInv, NEW c \in Callers, NEW B, UpsertPoints(c, B)
  PROVE  Keeps
<1> DEFINE o == call[c]
           n == [o EXCEPT !.left = @ \ B, !.done = @ \cup B]
<1>1. o.at = "send" /\ B \subseteq o.left /\ coll = o.dim /\ UNCHANGED coll
  BY BatchesAre DEF UpsertPoints
<1>2. /\ o \in CallType /\ CallOK(o) /\ Reached(o, backend, coll)
      /\ call \in [Callers -> CallType]
  BY DEF BackendInv, CallsInv
<1>3. /\ OpFits(o) /\ WorkFits(o) /\ o.op = "upsert" /\ coll # 0 /\ B \in SUBSET o.recs
      /\ B \in SUBSET Records /\ o.recs \subseteq o.done \cup o.left
  BY <1>1, <1>2, CallFields DEF CallOK, OpFits, WorkFits, Reached
<1>4. CASE B = o.left
  <2>1. /\ call' = [call EXCEPT ![c] = Returned("ok")] /\ store' = Written(B, NewValue(o))
        /\ UNCHANGED <<backend, boot, stray>>
    BY <1>4 DEF UpsertPoints, Succeeds
  <2>2. o.recs \subseteq o.done \cup B
    BY <1>3, <1>4
  <2> QED
    BY <1>1, <1>3, <2>1, <2>2, SucceedKeeps
<1>5. CASE B # o.left
  <2>1. /\ store' = Written(B, o.dim) /\ call' = [call EXCEPT ![c] = n]
        /\ UNCHANGED <<backend, boot, stray>>
    BY <1>5 DEF UpsertPoints
  <2>2. o.left \in SUBSET Records /\ o.done \in SUBSET Records
    BY <1>2, CallFields
  <2>3. /\ n \in CallType /\ n.at = "send" /\ n.op = o.op /\ n.recs = o.recs /\ n.dim = o.dim
        /\ n.left = o.left \ B /\ n.found = o.found /\ n.done = o.done \cup B
        /\ n.got = o.got /\ n.outcome = o.outcome
    BY <1>1, <1>2, <1>3, <2>2 DEF CallType
  <2> HIDE DEF n
  <2>4. CallOK(n)
    <3>1. OpFits(n) /\ WorkFits(n)
      BY <1>1, <1>3, <2>3 DEF OpFits, WorkFits
    <3> QED
      BY <1>1, <1>2, <2>3, <3>1 DEF CallOK
  <2>5. Reached(n, backend, coll)
    BY <1>1, <1>2, <2>3 DEF Reached
  <2>6. CallsInv'
    BY <1>1, <2>1, <2>3, <2>4, <2>5, CallsKept DEF BackendInv
  <2>7. NewValue(o) = o.dim /\ o.dim \in Values
    BY <1>2, <1>3, CallFields DEF NewValue
  <2>8. StoreInv'
    BY <1>1, <1>3, <2>1, <2>7, StoreKept DEF BackendInv
  <2>9. View(n) = [View(o) EXCEPT !.done = @ \cup B]
    BY <1>1, <2>3 DEF View, NewValue
  <2>10. Contract!Next
    BY <1>1, <1>2, <1>3, <2>1, <2>7, <2>9, RefinesEffect
  <2> QED
    BY <1>1, <2>1, <2>6, <2>8, <2>10, BootUnchanged DEF Keeps, BackendInv
<1> QED
  BY <1>4, <1>5

\* A call that succeeds without a change: its records were absent, or it names none.
LEMMA NothingToDoKeeps ==
  ASSUME BackendInv, NEW c \in Callers, call[c].at # "idle",
         call' = [call EXCEPT ![c] = Returned("ok")],
         UNCHANGED <<backend, store, coll, boot, stray>>,
         call[c].op # "upsert", \A r \in call[c].recs : store[r] = 0
  PROVE  Keeps
<1>1. call[c] \in CallType /\ store \in [Records -> Values]
  BY DEF BackendInv, CallsInv, StoreInv
<1>2. NewValue(call[c]) = 0 /\ call[c].recs \in SUBSET Records
  BY <1>1, CallFields DEF NewValue
<1>3. Written(call[c].recs, 0) = store
  BY <1>1, <1>2 DEF Written
<1> QED
  BY <1>2, <1>3, SucceedKeeps

LEMMA SearchKeeps ==
  ASSUME BackendInv, NEW c \in Callers, Search(c)
  PROVE  Keeps
<1>1. /\ call[c].at = "search" /\ call' = [call EXCEPT ![c] = Returned("ok")]
      /\ store' = Written({}, NewValue(call[c])) /\ UNCHANGED <<backend, coll, boot, stray>>
  BY DEF Search, Succeeds
<1>2. call[c].recs = {}
  BY <1>1 DEF BackendInv, CallsInv, CallOK, OpFits
<1> QED
  BY <1>1, <1>2, SucceedKeeps

LEMMA PingKeeps ==
  ASSUME BackendInv, NEW c \in Callers, Ping(c)
  PROVE  Keeps
<1> DEFINE o == call[c]
           n == [call[c] EXCEPT !.at = "read"]
<1>1. o.at = "ping" /\ call' = [call EXCEPT ![c] = n] /\ UNCHANGED <<backend, store, coll, boot, stray>>
  BY DEF Ping, Goto, Stays
<1>2. o \in CallType /\ CallOK(o) /\ Reached(o, backend, coll) /\ BootInv'
  BY <1>1, BootUnchanged DEF BackendInv, CallsInv
<1>3. /\ n.at = "read" /\ n.op = o.op /\ n.recs = o.recs /\ n.dim = o.dim
      /\ n.left = o.left /\ n.found = o.found /\ n.done = o.done
  BY <1>2, Going, PointsOf
<1>4. OpFits(n) /\ WorkFits(n) /\ Reached(n, backend, coll)
  <2> HIDE DEF n
  <2> QED
    BY <1>1, <1>2, <1>3 DEF CallOK, OpFits, WorkFits, Reached
<1> QED
  BY <1>1, <1>2, <1>4, PointsOf, GoKeeps

LEMMA ReadDimensionKeeps ==
  ASSUME BackendInv, NEW c \in Callers, ReadDimension(c)
  PROVE  Keeps
<1> DEFINE o == call[c]
<1>1. o.at = "read" /\ UNCHANGED <<backend, store, coll, boot, stray>>
  BY DEF ReadDimension, Stays
<1>2. o \in CallType /\ CallOK(o) /\ Reached(o, backend, coll) /\ BootInv' /\ backend \in Backends
  BY <1>1, BootUnchanged DEF BackendInv, CallsInv, StoreInv
<1>3. /\ OpFits(o) /\ WorkFits(o) /\ o.op \in {"delete", "drop", "health"} /\ backend = "qdrant"
      /\ o.recs \in SUBSET Records
  BY <1>1, <1>2, CallFields DEF CallOK, OpFits, Reached, Backends
<1>4. CASE coll = 0 \/ o.op = "health"
  <2>1. call' = [call EXCEPT ![c] = Returned("ok")]
    BY <1>4 DEF ReadDimension
  <2>2. \A r \in o.recs : store[r] = 0
    BY <1>3, <1>4 DEF BackendInv, StoreInv, OpFits
  <2> QED
    BY <1>1, <1>3, <2>1, <2>2, NothingToDoKeeps
<1>5. CASE ~(coll = 0 \/ o.op = "health")
  <2> DEFINE pc == IF o.op = "delete" THEN "lookup" ELSE "count"
             n == [call[c] EXCEPT !.at = pc]
  <2>1. call' = [call EXCEPT ![c] = n]
    BY <1>5 DEF ReadDimension
  <2>2. pc \in {"lookup", "count"} /\ pc \in Points
    BY PointsOf
  <2>3. /\ n.at = pc /\ n.op = o.op /\ n.recs = o.recs /\ n.dim = o.dim
        /\ n.left = o.left /\ n.found = o.found /\ n.done = o.done
    BY <1>2, <2>2, Going
  <2>4. (pc = "lookup" => o.op = "delete") /\ (pc = "count" => o.op = "drop")
    BY <1>3, <1>5
  <2>5. OpFits(n) /\ WorkFits(n) /\ Reached(n, backend, coll)
    <3> HIDE DEF pc, n
    <3> QED
      BY <1>3, <1>5, <2>2, <2>3, <2>4 DEF OpFits, WorkFits, Reached
  <2> HIDE DEF pc
  <2> QED
    BY <1>1, <1>2, <2>1, <2>2, <2>5, GoKeeps
<1> QED
  BY <1>4, <1>5

LEMMA LookupPointsKeeps ==
  ASSUME BackendInv, NEW c \in Callers, LookupPoints(c)
  PROVE  Keeps
<1> DEFINE o == call[c]
           F == Present(o.recs)
           n == [o EXCEPT !.at = "remove", !.found = F, !.done = @ \cup (o.recs \ F)]
<1>1. o.at = "lookup" /\ UNCHANGED <<backend, store, coll, boot, stray>>
  BY DEF LookupPoints, Stays
<1>2. /\ o \in CallType /\ CallOK(o) /\ Reached(o, backend, coll) /\ backend \in Backends
      /\ call \in [Callers -> CallType] /\ store \in [Records -> Values]
  BY DEF BackendInv, CallsInv, StoreInv
<1>3. /\ OpFits(o) /\ WorkFits(o) /\ o.op = "delete" /\ o.recs \in SUBSET Records
      /\ o.done \in SUBSET Records /\ F \subseteq o.recs /\ \A r \in o.recs \ F : store[r] = 0
      /\ NewValue(o) = 0
  BY <1>1, <1>2, CallFields DEF CallOK, OpFits, Present, NewValue
<1>4. CASE F = {}
  <2>1. call' = [call EXCEPT ![c] = Returned("ok")]
    BY <1>4 DEF LookupPoints
  <2> QED
    BY <1>1, <1>3, <1>4, <2>1, NothingToDoKeeps
<1>5. CASE F # {}
  <2>1. call' = [call EXCEPT ![c] = n]
    BY <1>5 DEF LookupPoints
  <2> HIDE DEF F
  <2>2. /\ n \in CallType /\ n.at = "remove" /\ n.op = o.op /\ n.recs = o.recs /\ n.dim = o.dim
        /\ n.left = o.left /\ n.found = F /\ n.done = o.done \cup (o.recs \ F)
        /\ n.got = o.got /\ n.outcome = o.outcome
    BY <1>2, <1>3, PointsOf DEF CallType
  <2> HIDE DEF n
  <2>3. OpFits(n) /\ WorkFits(n)
    BY <1>3, <2>2 DEF OpFits, WorkFits
  <2>4. CallOK(n) /\ Reached(n, backend, coll)
    BY <1>1, <1>2, <2>2, <2>3 DEF CallOK, Reached
  <2>5. CallsInv'
    BY <1>1, <2>1, <2>2, <2>4, CallsKept DEF BackendInv
  <2>6. StoreInv' /\ BootInv'
    BY <1>1, BootUnchanged DEF BackendInv, StoreInv
  <2>7. View(n) = [View(o) EXCEPT !.done = @ \cup (o.recs \ F)]
    BY <1>1, <2>2 DEF View, NewValue
  <2>8. store' = Written(o.recs \ F, NewValue(o))
    BY <1>1, <1>2, <1>3 DEF Written
  <2>9. Contract!Next
    BY <1>1, <1>2, <2>1, <2>7, <2>8, RefinesEffect
  <2> QED
    BY <2>5, <2>6, <2>9 DEF Keeps, BackendInv
<1> QED
  BY <1>4, <1>5

LEMMA RemovePointsKeeps ==
  ASSUME BackendInv, NEW c \in Callers, RemovePoints(c)
  PROVE  Keeps
<1>1. /\ call[c].at = "remove" /\ call' = [call EXCEPT ![c] = Returned("ok")]
      /\ store' = Written(call[c].found, NewValue(call[c])) /\ UNCHANGED <<backend, coll, boot, stray>>
  BY DEF RemovePoints, Succeeds
<1>2. /\ coll # 0 /\ call[c].found \in SUBSET call[c].recs
      /\ call[c].recs \subseteq call[c].done \cup call[c].found
  BY <1>1 DEF BackendInv, CallsInv, CallOK, WorkFits, Reached
<1> QED
  BY <1>1, <1>2, SucceedKeeps

LEMMA CountNamespaceKeeps ==
  ASSUME BackendInv, NEW c \in Callers, CountNamespace(c)
  PROVE  Keeps
<1> DEFINE o == call[c]
           n == [call[c] EXCEPT !.at = "clear"]
<1>1. o.at = "count" /\ UNCHANGED <<backend, store, coll, boot, stray>>
  BY DEF CountNamespace, Stays
<1>2. /\ o \in CallType /\ CallOK(o) /\ Reached(o, backend, coll) /\ BootInv'
      /\ store \in [Records -> Values]
  BY <1>1, BootUnchanged DEF BackendInv, CallsInv, StoreInv
<1>3. OpFits(o) /\ WorkFits(o) /\ o.op = "drop" /\ o.recs \in SUBSET Records
  BY <1>1, <1>2, CallFields DEF CallOK, OpFits
<1>4. CASE Present(o.recs) = {}
  <2>1. call' = [call EXCEPT ![c] = Returned("ok")] /\ \A r \in o.recs : store[r] = 0
    BY <1>4 DEF CountNamespace, Present
  <2> QED
    BY <1>1, <1>3, <2>1, NothingToDoKeeps
<1>5. CASE Present(o.recs) # {}
  <2>1. call' = [call EXCEPT ![c] = n]
    BY <1>5 DEF CountNamespace
  <2>2. /\ n.at = "clear" /\ n.op = o.op /\ n.recs = o.recs /\ n.dim = o.dim
        /\ n.left = o.left /\ n.found = o.found /\ n.done = o.done
    BY <1>2, Going, PointsOf
  <2>3. OpFits(n) /\ WorkFits(n) /\ Reached(n, backend, coll)
    <3> HIDE DEF n
    <3> QED
      BY <1>1, <1>2, <1>3, <2>2 DEF OpFits, WorkFits, Reached
  <2> QED
    BY <1>1, <1>2, <2>1, <2>3, PointsOf, GoKeeps
<1> QED
  BY <1>4, <1>5

LEMMA ClearNamespaceKeeps ==
  ASSUME BackendInv, NEW c \in Callers, ClearNamespace(c)
  PROVE  Keeps
<1>1. /\ call[c].at = "clear" /\ call' = [call EXCEPT ![c] = Returned("ok")]
      /\ store' = Written(call[c].recs, NewValue(call[c])) /\ UNCHANGED <<backend, coll, boot, stray>>
  BY DEF ClearNamespace, Succeeds
<1>2. coll # 0
  BY <1>1 DEF BackendInv, CallsInv, Reached
<1> QED
  BY <1>1, <1>2, SucceedKeeps

LEMMA QdrantStepKeeps ==
  ASSUME BackendInv, NEW c \in Callers, QdrantStep(c)
  PROVE  Keeps
BY EnsureKeeps, ReadCollectionKeeps, CreateCollectionKeeps, UpsertPointsKeeps, SearchKeeps,
   PingKeeps, ReadDimensionKeeps, LookupPointsKeeps, RemovePointsKeeps, CountNamespaceKeeps,
   ClearNamespaceKeeps DEF QdrantStep
-----------------------------------------------------------------------------
(* Faults. *)
LEMMA RequestFailsKeeps ==
  ASSUME BackendInv, NEW c \in Callers, NEW retryable \in BOOLEAN, RequestFails(c, retryable)
  PROVE  Keeps
<1>1. (retryable /\ ~call[c].cancelled) \in BOOLEAN /\ call[c].at # "idle"
  BY DEF RequestFails, Sending
<1> QED
  BY <1>1, FailedKeeps DEF RequestFails

\* What a request would change is part of what the call asks for.
LEMMA InFlightIs ==
  ASSUME NEW o \in CallType, CallOK(o), NEW B \in InFlight(o)
  PROVE  B \in SUBSET o.recs /\ (o.at \notin {"send", "remove", "clear"} => B = {})
<1>1. o.left \subseteq o.recs /\ o.found \subseteq o.recs
  BY DEF CallOK, WorkFits
<1>2. CASE o.at = "send"
  BY <1>1, <1>2, BatchesAre DEF InFlight
<1>3. CASE o.at = "remove"
  BY <1>1, <1>3 DEF InFlight
<1>4. CASE o.at = "clear"
  BY <1>4 DEF InFlight
<1>5. CASE o.at \notin {"send", "remove", "clear"}
  BY <1>5 DEF InFlight
<1> QED
  BY <1>2, <1>3, <1>4, <1>5

LEMMA AnswerLostKeeps ==
  ASSUME BackendInv, NEW c \in Callers, NEW retryable \in BOOLEAN, AnswerLost(c, retryable)
  PROVE  Keeps
<1> DEFINE o == call[c]
           again == retryable /\ ~o.cancelled
<1>1. PICK B \in InFlight(o) :
        /\ store' = Written(B, NewValue(o))
        /\ call' = [call EXCEPT ![c] = Failed([o EXCEPT !.done = @ \cup B], again)]
  BY DEF AnswerLost
<1> DEFINE m == [o EXCEPT !.done = @ \cup B]
           n == Failed(m, again)
<1>2. /\ o.at \in {"create", "send", "remove", "clear"} /\ UNCHANGED <<backend, boot, stray>>
      /\ coll' = IF o.at = "create" /\ coll = 0 THEN o.dim ELSE coll
  BY DEF AnswerLost
<1>3. /\ o \in CallType /\ CallOK(o) /\ Reached(o, backend, coll) /\ backend \in Backends
      /\ call \in [Callers -> CallType]
  BY DEF BackendInv, CallsInv, StoreInv
<1>4. /\ B \in SUBSET o.recs /\ B \in SUBSET Records /\ o.done \in SUBSET Records
      /\ o.dim \in Values /\ NewValue(o) \in Values /\ again \in BOOLEAN
  BY <1>3, InFlightIs, CallFields DEF NewValue, Values
<1>5. /\ m \in CallType /\ m.at = o.at /\ m.op = o.op /\ m.recs = o.recs /\ m.dim = o.dim
      /\ m.attempt = o.attempt /\ m.left = o.left /\ m.found = o.found
      /\ m.done = o.done \cup B /\ m.got = o.got /\ m.outcome = o.outcome
  BY <1>3, <1>4 DEF CallType
<1> HIDE DEF m, again
<1>6. CallOK(m)
  <2>1. OpFits(m) /\ WorkFits(m)
    BY <1>3, <1>4, <1>5 DEF CallOK, OpFits, WorkFits
  <2> QED
    BY <1>2, <1>3, <1>5, <2>1 DEF CallOK
<1>7. m.at # "idle"
  BY <1>2, <1>5
<1>8. /\ n \in CallType /\ CallOK(n) /\ \A b, k : Reached(n, b, k)
      /\ n = Returned("failed") \/ View(n) = View(m)
  BY <1>4, <1>5, <1>6, <1>7, FailedIs
<1> HIDE DEF n
<1>9. call' = [call EXCEPT ![c] = n]
  BY <1>1 DEF m, n
<1>10. /\ coll' = coll \/ (coll = 0 /\ coll' \in Values /\ backend = "qdrant")
       /\ coll' # coll => o.dim # 0
  BY <1>2, <1>3, <1>4 DEF Reached, Backends
<1>11. CallsInv'
  BY <1>2, <1>8, <1>9, <1>10, CallsKept DEF BackendInv
<1>12. B = {} \/ coll # 0
  BY <1>2, <1>3, InFlightIs DEF Reached
<1>13. StoreInv'
  BY <1>1, <1>2, <1>4, <1>10, <1>12, StoreKept DEF BackendInv
<1>14. BootInv'
  BY <1>2, <1>10 DEF BackendInv, BootInv, BootAgrees
<1>15. Contract!Next
  <2>1. CASE n = Returned("failed")
    BY <1>1, <1>2, <1>3, <1>4, <1>9, <2>1, RefinesFail
  <2>2. CASE View(n) = View(m)
    <3>1. View(m) = [View(o) EXCEPT !.done = @ \cup B]
      <4> HIDE DEF o
      <4> QED
        BY <1>5, ViewOfDone
    <3>2. View(n) = [View(o) EXCEPT !.done = @ \cup B]
      BY <2>2, <3>1
    <3> QED
      BY <1>1, <1>2, <1>3, <1>4, <1>9, <3>2, RefinesEffect
  <2> QED
    BY <1>8, <2>1, <2>2
<1> QED
  BY <1>11, <1>13, <1>14, <1>15 DEF Keeps, BackendInv

LEMMA TimeOutKeeps ==
  ASSUME BackendInv, NEW c \in Callers, TimeOut(c)
  PROVE  Keeps
<1> DEFINE o == call[c]
           n == Failed(o, ~o.cancelled)
<1>1. PICK B \in InFlight(o) : stray' = stray \cup {[recs |-> B, value |-> NewValue(o)]}
  BY DEF TimeOut
<1>2. /\ o.at \in {"send", "remove", "clear"} /\ call' = [call EXCEPT ![c] = n]
      /\ UNCHANGED <<backend, store, coll, boot>>
  BY DEF TimeOut
<1>3. /\ o \in CallType /\ CallOK(o) /\ Reached(o, backend, coll) /\ backend \in Backends
      /\ call \in [Callers -> CallType]
  BY DEF BackendInv, CallsInv, StoreInv
<1>4. /\ B \in SUBSET o.recs /\ B \in SUBSET Records /\ NewValue(o) \in Values
      /\ (~o.cancelled) \in BOOLEAN
  BY <1>3, InFlightIs, CallFields DEF NewValue, Values
<1>5. /\ n \in CallType /\ CallOK(n) /\ \A b, k : Reached(n, b, k)
      /\ n = Returned("failed") \/ View(n) = View(o)
  BY <1>2, <1>3, <1>4, FailedIs
<1> HIDE DEF n
<1>6. CallsInv'
  BY <1>2, <1>5, CallsKept DEF BackendInv
<1>7. coll # 0
  BY <1>2, <1>3 DEF Reached
<1>8. StoreInv'
  <2>1. backend # "sqlite"
    BY <1>2, <1>3 DEF Reached
  <2>2. stray' \subseteq Write
    BY <1>1, <1>4 DEF BackendInv, StoreInv, Write
  <2> QED
    BY <1>2, <1>7, <2>1, <2>2 DEF BackendInv, StoreInv
<1>9. Contract!Next
  BY <1>1, <1>2, <1>3, <1>4, <1>5, RefinesAbandon
<1> QED
  BY <1>2, <1>6, <1>8, <1>9, BootUnchanged DEF Keeps, BackendInv

LEMMA ArriveKeeps ==
  ASSUME BackendInv, NEW w \in stray, Arrive(w)
  PROVE  Keeps
<1>1. /\ stray' = stray \ {w} /\ store' \in {store, Written(w.recs, w.value)}
      /\ UNCHANGED <<backend, coll, boot, call>>
  BY DEF Arrive
<1>2. w.recs \in SUBSET Records /\ w.value \in Values /\ backend = "qdrant" /\ coll # 0
  BY DEF BackendInv, StoreInv, Write, Backends
<1>3. store' \in [Records -> Values]
  BY <1>1, <1>2 DEF BackendInv, StoreInv, Written
<1>4. StoreInv'
  BY <1>1, <1>2, <1>3 DEF BackendInv, StoreInv
<1>5. CallsInv' /\ BootInv'
  BY <1>1, BootUnchanged DEF BackendInv, CallsInv
<1>6. Contract!Next
  <2>1. Contract!Arrive(w)
    BY <1>1 DEF Contract!Arrive, Contract!Written, Written
  <2> QED
    BY <2>1 DEF Contract!Next
<1> QED
  BY <1>4, <1>5, <1>6 DEF Keeps, BackendInv
-----------------------------------------------------------------------------
(* The embedding clients. *)

\* The data of an answer have the indices 0 .. n - 1, each once, so that every input
\* has its datum, and it is the only one with its index.
LEMMA EachIndexOnce ==
  ASSUME NEW first \in Nat, NEW n \in Nat, NEW s \in Replies(first, n)
  PROVE  /\ s \in [1 .. n -> [index : 0 .. n - 1, of : Inputs]]
         /\ \A i \in 1 .. n : s[i].of = first + s[i].index
         /\ \A k \in 0 .. n - 1 : \E i \in 1 .. n : s[i].index = k
<1> DEFINE f == [i \in 1 .. n |-> s[i].index]
<1>1. /\ s \in [1 .. n -> [index : 0 .. n - 1, of : Inputs]]
      /\ \A i \in 1 .. n : s[i].of = first + s[i].index
      /\ \A i, j \in 1 .. n : i # j => s[i].index # s[j].index
  BY DEF Replies
<1>2. f \in [1 .. n -> 0 .. n - 1] /\ \A i, j \in 1 .. n : f[i] = f[j] => i = j
  BY <1>1
<1>3. f \in Injection(1 .. n, 0 .. n - 1)
  <2> HIDE DEF f
  <2> QED
    BY <1>2, Fun_IsInj
<1>4. /\ IsFiniteSet(0 .. n - 1) /\ Cardinality(0 .. n - 1) = n
      /\ Cardinality(1 .. n) = n
  <2>1. /\ IsFiniteSet(0 .. n - 1)
        /\ Cardinality(0 .. n - 1) = IF 0 > n - 1 THEN 0 ELSE (n - 1) - 0 + 1
    BY FS_Interval
  <2>2. Cardinality(1 .. n) = IF 1 > n THEN 0 ELSE n - 1 + 1
    BY FS_Interval
  <2> QED
    BY <2>1, <2>2
<1>5. f \in Surjection(1 .. n, 0 .. n - 1)
  <2> HIDE DEF f
  <2> QED
    BY <1>3, <1>4, FS_Injection
<1>6. \A k \in 0 .. n - 1 : \E i \in 1 .. n : f[i] = k
  BY <1>5 DEF Surjection
<1> QED
  BY <1>1, <1>6

\* Whatever the order of the data, the embeddings of a batch come out in the order of
\* its inputs.
LEMMA NormalizedIs ==
  ASSUME NEW first \in Nat \ {0}, NEW n \in Nat, NEW s \in Replies(first, n)
  PROVE  /\ Normalized(s) \in [1 .. n -> Inputs]
         /\ \A i \in 1 .. n : Normalized(s)[i] = first + i - 1
<1>1. /\ s \in [1 .. n -> [index : 0 .. n - 1, of : Inputs]]
      /\ \A i \in 1 .. n : s[i].of = first + s[i].index
      /\ \A k \in 0 .. n - 1 : \E i \in 1 .. n : s[i].index = k
  BY EachIndexOnce
<1> DEFINE data == {s[j] : j \in DOMAIN s}
           d(i) == CHOOSE x \in data : x.index = i - 1
<1>2. DOMAIN s = 1 .. n
  BY <1>1
<1>3. ASSUME NEW i \in 1 .. n PROVE d(i).of = first + i - 1 /\ d(i).of \in Inputs
  <2>1. PICK j \in 1 .. n : s[j].index = i - 1
    BY <1>1
  <2>2. \E x \in data : x.index = i - 1
    BY <1>2, <2>1
  <2>3. d(i) \in data /\ d(i).index = i - 1
    BY <2>2
  <2>4. PICK k \in 1 .. n : d(i) = s[k]
    BY <1>2, <2>3
  <2> HIDE DEF d
  <2>5. s[k].index = i - 1 /\ s[k].of = first + s[k].index /\ s[k].of \in Inputs
    BY <1>1, <2>3, <2>4
  <2> QED
    BY <2>4, <2>5
<1>4. Normalized(s) = [i \in 1 .. n |-> d(i).of]
  BY <1>2 DEF Normalized
<1> HIDE DEF d
<1> QED
  BY <1>3, <1>4

LEMMA EmbedTextsKeeps ==
  ASSUME BackendInv, NEW c \in Callers, EmbedTexts(c)
  PROVE  Keeps
<1> DEFINE o == call[c]
           done == Len(o.got)
           n == IF Texts - done < EmbedBatch THEN Texts - done ELSE EmbedBatch
<1>1. o.at = "embed" /\ UNCHANGED <<backend, store, coll, boot, stray>>
  BY DEF EmbedTexts, Stays
<1>2. PICK s \in Replies(done + 1, n) :
        call' = [call EXCEPT ![c] = IF Len(o.got \o Normalized(s)) = Texts THEN Returned("ok")
                                    ELSE [o EXCEPT !.got = o.got \o Normalized(s)]]
  BY DEF EmbedTexts
<1> DEFINE got == o.got \o Normalized(s)
           m == [o EXCEPT !.got = got]
<1>3. /\ o \in CallType /\ CallOK(o) /\ Reached(o, backend, coll)
      /\ call \in [Callers -> CallType]
  BY DEF BackendInv, CallsInv
<1>4. o.got \in Seq(Inputs) /\ Ordered(o.got) /\ o.recs = {} /\ o.op = "embed"
  BY <1>1, <1>3, CallFields DEF CallOK, OpFits
<1>5. /\ done \in Nat /\ done <= Texts /\ Texts \in Nat /\ n \in Nat /\ done + n <= Texts
      /\ \A i \in 1 .. done : o.got[i] = i
  <2>1. done \in Nat /\ DOMAIN o.got = 1 .. done
    BY <1>4
  <2>2. done <= Texts /\ \A i \in 1 .. done : o.got[i] = i
    BY <1>4, <2>1 DEF Ordered
  <2>3. Texts \in Nat /\ EmbedBatch \in Nat
    BY BackendAssumption
  <2>4. n \in Nat /\ done + n <= Texts
    <3> HIDE DEF done
    <3> QED
      BY <2>1, <2>2, <2>3
  <2> HIDE DEF n
  <2> QED
    BY <2>1, <2>2, <2>3, <2>4
<1> HIDE DEF n
<1>6. /\ Normalized(s) \in [1 .. n -> Inputs]
      /\ \A i \in 1 .. n : Normalized(s)[i] = done + i
  <2>1. /\ Normalized(s) \in [1 .. n -> Inputs]
        /\ \A i \in 1 .. n : Normalized(s)[i] = (done + 1) + i - 1
    BY <1>5, NormalizedIs
  <2> QED
    BY <1>5, <2>1
<1>7. Normalized(s) \in Seq(Inputs) /\ Len(Normalized(s)) = n
  BY <1>5, <1>6
<1>8. /\ got \in Seq(Inputs) /\ Len(got) = done + n
      /\ \A i \in 1 .. done + n : got[i] = IF i <= done THEN o.got[i] ELSE Normalized(s)[i - done]
  <2>1. /\ got \in Seq(Inputs) /\ Len(got) = Len(o.got) + Len(Normalized(s))
        /\ \A i \in 1 .. Len(o.got) + Len(Normalized(s)) :
             got[i] = IF i <= Len(o.got) THEN o.got[i] ELSE Normalized(s)[i - Len(o.got)]
    BY <1>4, <1>7, ConcatProperties
  <2> HIDE DEF got
  <2> QED
    BY <1>7, <2>1
<1> HIDE DEF got
<1>9. Ordered(got)
  <2>1. DOMAIN got = 1 .. done + n
    BY <1>8
  <2>2. ASSUME NEW i \in 1 .. done + n PROVE got[i] = i
    <3>1. CASE i <= done
      BY <1>5, <1>8, <2>2, <3>1
    <3>2. CASE i > done
      <4>1. i - done \in 1 .. n
        BY <1>5, <2>2, <3>2
      <4>2. Normalized(s)[i - done] = done + (i - done)
        BY <1>6, <4>1
      <4> QED
        BY <1>5, <1>8, <2>2, <3>2, <4>2
    <3> QED
      BY <1>5, <2>2, <3>1, <3>2
  <2> QED
    BY <1>5, <1>8, <2>1, <2>2 DEF Ordered
<1>10. CASE Len(got) = Texts
  <2>1. call' = [call EXCEPT ![c] = Returned("ok")]
    BY <1>2, <1>10 DEF got
  <2>2. store' = Written({}, NewValue(o))
    BY <1>1, NothingWritten DEF BackendInv, StoreInv
  <2> QED
    BY <1>1, <1>4, <2>1, <2>2, SucceedKeeps
<1>11. CASE Len(got) # Texts
  <2>1. call' = [call EXCEPT ![c] = m]
    BY <1>2, <1>11 DEF got
  <2>2. /\ m \in CallType /\ m.at = o.at /\ m.op = o.op /\ m.recs = o.recs /\ m.dim = o.dim
        /\ m.attempt = o.attempt /\ m.left = o.left /\ m.found = o.found
        /\ m.done = o.done /\ m.got = got /\ m.outcome = o.outcome
    BY <1>3, <1>8 DEF CallType
  <2> HIDE DEF m
  <2>3. OpFits(m) /\ WorkFits(m)
    BY <1>3, <2>2 DEF CallOK, OpFits, WorkFits
  <2>4. CallOK(m)
    BY <1>1, <1>3, <1>9, <2>2, <2>3 DEF CallOK
  <2>5. Reached(m, backend, coll)
    BY <1>3, <2>2 DEF Reached
  <2>6. View(m) = View(o)
    BY <2>2 DEF View, NewValue
  <2>7. BootInv'
    BY <1>1 DEF BackendInv, BootInv, BootAgrees
  <2> QED
    BY <1>1, <2>1, <2>2, <2>4, <2>5, <2>6, <2>7, MoveKeeps
<1> QED
  BY <1>10, <1>11
-----------------------------------------------------------------------------
(* Every step. *)
LEMMA BackendStepKeeps ==
  ASSUME BackendInv, [Next]_vars
  PROVE  Keeps
<1>1. ASSUME NEW c \in Callers, NEW q \in Asked, Begin(c, q) PROVE Keeps
  BY <1>1, BeginKeeps
<1>2. ASSUME NEW c \in Callers, Step(c) PROVE Keeps
  BY <1>2, StartAttemptKeeps, RefuseKeeps, BackoffKeeps, SqlStepKeeps, QdrantStepKeeps,
     EmbedTextsKeeps DEF Step
<1>3. ASSUME NEW c \in Callers, Fault(c) PROVE Keeps
  BY <1>3, CancelKeeps, TimeOutKeeps, SqlFailsKeeps, RequestFailsKeeps, AnswerLostKeeps DEF Fault
<1>4. ASSUME NEW w \in stray, Arrive(w) PROVE Keeps
  BY <1>4, ArriveKeeps
<1>5. ASSUME UNCHANGED vars PROVE Keeps
  <2>1. UNCHANGED <<backend, store, coll, boot, call, stray>>
    BY <1>5 DEF vars
  <2>2. CallsInv' /\ StoreInv' /\ BootInv'
    BY <2>1, BootUnchanged DEF BackendInv, CallsInv, StoreInv
  <2>3. UNCHANGED Contract!vars
    BY <2>1, SeenIs DEF Seen, View, NewValue
  <2> QED
    BY <2>2, <2>3 DEF Keeps, BackendInv
<1> QED
  BY <1>1, <1>2, <1>3, <1>4, <1>5 DEF Next

\* Every reachable state satisfies the invariant.
LEMMA BackendInvHolds == Spec => []BackendInv
<1>1. Init => BackendInv
  BY BackendInitHolds
<1>2. BackendInv /\ [Next]_vars => BackendInv'
  BY BackendStepKeeps DEF Keeps
<1> QED
  BY <1>1, <1>2, PTL DEF Spec

\* However many processes create the collection at once, and whatever creation fails or is
\* answered with an error after it was carried out, a process that has bootstrapped has the
\* collection's dimension (qdrant/adapter.go, ensureCollection).
THEOREM BootstrapsAgree == Spec => []BootAgrees
<1>1. BackendInv => BootAgrees
  BY DEF BackendInv, BootInv
<1> QED
  BY <1>1, BackendInvHolds, PTL

\* For every number of texts and size of batch, and whatever the order of the data in the
\* answers, the n-th embedding received is that of the n-th text (embeddings/vllm.go,
\* normalizeVLLMEmbeddingData).
THEOREM InputsKeepTheirOrder == Spec => []EmbeddingsInOrder
<1>1. BackendInv => EmbeddingsInOrder
  BY DEF BackendInv, CallsInv, CallOK, Ordered, EmbeddingsInOrder
<1> QED
  BY <1>1, BackendInvHolds, PTL

\* Whatever fails, is repeated, times out or arrives late, with both adapters and any number
\* of processes: a call that reports success has been carried out in full, and records
\* change only on behalf of a running call or of an abandoned request
\* (domain/indexing/vector_contracts.go).
THEOREM BackendKeepsContract == Spec => KeepsContract
<1>1. Init => Contract!Init
  BY BackendInitHolds
<1>2. BackendInv /\ [Next]_vars => [Contract!Next]_(Contract!vars)
  BY BackendStepKeeps DEF Keeps
<1> QED
  BY <1>1, <1>2, BackendInvHolds, PTL DEF Spec, KeepsContract, Contract!Spec
=============================================================================
