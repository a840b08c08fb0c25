--------------------------- MODULE IndexSyncProofs ---------------------------
(***************************************************************************)
(* What IndexSync promises for any number of callers, processes, files and *)
(* contents, any batch size and any bounds.                                *)
(***************************************************************************)
EXTENDS IndexSync, TLAPS

-----------------------------------------------------------------------------
(* The operators on records.                                               *)

Results == {"none", "success", "failure"}
StoresOK == idx \in Index \cup {NoIndex} /\ vec \subseteq Ids
HistoryOK == unsynced \subseteq Paths /\ leaked \subseteq Ids
CallsOK == mutex \in [Processes -> Callers \cup {Nobody}] /\ op \in [Callers -> Op]
FileTree == [Paths -> Contents \cup {Absent, Unreadable}]
RestOK == /\ fs \in FileTree /\ stray \subseteq Requests
          /\ head \in Nat /\ edits \in Nat /\ calls \in Nat /\ faults \in Nat

LEMMA TypeParts == TypeOK <=> StoresOK /\ HistoryOK /\ CallsOK /\ RestOK
  BY DEF TypeOK, StoresOK, HistoryOK, CallsOK, RestOK, FileTree

LEMMA TypePartsNext == StoresOK' /\ HistoryOK' /\ CallsOK' /\ RestOK' => TypeOK'
  BY DEF TypeOK, StoresOK, HistoryOK, CallsOK, RestOK, FileTree

LEMMA IdsOfType ==
  ASSUME NEW p \in Paths, NEW c \in Contents \cup {Absent}
  PROVE  IdsOf(p, c) \subseteq Ids
  BY IndexSyncAssumption DEF IdsOf, Ids, IndexSyncAssumption

LEMMA UploadedType == ASSUME NEW o \in Op PROVE Uploaded(o) \subseteq Ids
<1>1. \A p \in o.todo : p \in Paths /\ o.texts[p] \in Contents \cup {Absent}
  BY DEF Op, Tree
<1> QED
  BY <1>1, IdsOfType DEF Uploaded

LEMMA AllIdsType == ASSUME NEW m \in ChunkMap PROVE AllIds(m) \subseteq Ids
  BY DEF AllIds, ChunkMap

LEMMA KnownType == ASSUME NEW i \in Index \cup {NoIndex} PROVE Known(i) \subseteq Ids
  BY AllIdsType DEF Known, Index

LEMMA StaleType == ASSUME NEW o \in Op PROVE Stale(o) \subseteq Ids
  BY DEF Stale, Op, Index, ChunkMap

LEMMA NewChunksType == ASSUME NEW o \in Op PROVE NewChunks(o) \in ChunkMap
<1>1. \A p \in Paths : IdsOf(p, o.texts[p]) \subseteq Ids
  BY IdsOfType DEF Op, Tree
<1> QED
  BY <1>1 DEF NewChunks, ChunkMap, Op, Index

LEMMA SavesType == ASSUME NEW o \in Op PROVE FirstSave(o) \in Index /\ SecondSave(o) \in Index
<1>1. [o.mem EXCEPT !.head = o.head] \in Index /\ o.mem \in Index
  BY DEF Op, Index
<1>2. [o.mem EXCEPT !.chunks = NewChunks(o)] \in Index
  BY <1>1, NewChunksType DEF Index
<1> QED
  BY <1>1, <1>2 DEF FirstSave, SecondSave

LEMMA DiscoveredType == fs \in FileTree => Discovered \in Tree
  BY DEF Discovered, Tree, FileTree, Readable

LEMMA ReadableType ==
  ASSUME fs \in FileTree, NEW p \in Paths, fs[p] # Unreadable
  PROVE  fs[p] \in Contents \cup {Absent}
  BY DEF FileTree

LEMMA InFlightType ==
  ASSUME NEW o \in Op, faults \in Nat, vec \subseteq Ids, NEW r \in InFlight(o)
  PROVE  r \in Requests /\ r.ids \subseteq Ids /\ Done(r) \subseteq Ids
<1>1. r \in Requests
  <2>1. o.pending \subseteq Ids
    BY DEF Op
  <2>2. ASSUME NEW ps \in SUBSET Ids, NEW insert \in BOOLEAN PROVE Request(insert, ps) \in Requests
    BY DEF Request, Requests
  <2>3. \A b \in Portions(o.pending) : b \in SUBSET Ids
    BY <2>1 DEF Portions
  <2> QED
    BY <2>2, <2>3 DEF InFlight
<1> QED
  BY <1>1 DEF Requests, Done

\* A request of a synchronisation carries a part of what is pending.
LEMMA InFlightPortion ==
  ASSUME NEW o, o.pc # "namespace", NEW r \in InFlight(o)
  PROVE  /\ r.ids \in SUBSET o.pending
         /\ Done(r) = IF o.pc = "upsert" THEN vec \cup r.ids ELSE vec \ r.ids
<1>1. PICK b \in Portions(o.pending) : r = Request(o.pc = "upsert", b)
  BY DEF InFlight
<1>2. r.ids = b /\ r.put = (o.pc = "upsert")
  BY <1>1 DEF Request
<1>3. b \in SUBSET o.pending
  BY <1>1 DEF Portions
<1> QED
  BY <1>2, <1>3 DEF Done

LEMMA NothingType == EmptyIndex \in Index /\ NoFiles \in Tree
  BY DEF EmptyIndex, Index, NoFiles, NoChunks, Tree, ChunkMap

LEMMA NewCallType ==
  ASSUME NEW k \in AllKinds, NEW ps \in SUBSET Paths PROVE NewCall(k, ps) \in Op
  BY NothingType DEF NewCall, Op, Steps

LEMMA IdleType == ASSUME NEW r \in Results PROVE
                  Idle \in Op /\ [Idle EXCEPT !.result = r] \in Op
<1>1. NewCall("full", {}) \in Op
  BY NewCallType DEF AllKinds
<1> QED
  BY <1>1 DEF Idle, Op, Steps, Results

LEMMA ReturnType ==
  ASSUME CallsOK, NEW c \in Callers, NEW r \in Results, Return(c, r)
  PROVE  CallsOK'
  BY IdleType, IndexSyncAssumption DEF CallsOK, Return, IndexSyncAssumption

LEMMA ContinueType ==
  ASSUME CallsOK, NEW c \in Callers, NEW o \in Op, Continue(c, o)
  PROVE  CallsOK'
  BY DEF CallsOK, Continue

-----------------------------------------------------------------------------
(* Type correctness: one lemma per step of a call.                         *)

LEMMA LockRepoType == ASSUME CallsOK, NEW c \in Callers, LockRepo(c) PROVE CallsOK'
<1>1. [op[c] EXCEPT !.pc = "load"] \in Op
  BY ZenonT(60) DEF CallsOK, Op, Steps
<1> QED
  BY <1>1, IndexSyncAssumption DEF CallsOK, LockRepo, IndexSyncAssumption

LEMMA LoadFolderType ==
  ASSUME StoresOK, RestOK, CallsOK, NEW c \in Callers, LoadFolder(c) PROVE CallsOK'
<1> DEFINE o == op[c]
           m == IF idx = NoIndex THEN EmptyIndex ELSE idx
           r == [o EXCEPT !.pc = "scan", !.mem = m, !.head = head, !.touched = {}]
           n == [o EXCEPT !.pc = "scan", !.found = idx # NoIndex, !.mem = m,
                          !.head = head, !.touched = {}]
<1>1. m \in Index /\ o \in Op
  BY NothingType DEF StoresOK, CallsOK
<1>2. Continue(c, n)
  BY DEF LoadFolder
<1> HIDE DEF m, o
<1>3. r \in Op
  BY <1>1 DEF RestOK, Op, Steps
<1>4. n = [r EXCEPT !.found = idx # NoIndex]
  BY <1>1 DEF Op
<1> HIDE DEF r
<1>5. \A b \in BOOLEAN : [r EXCEPT !.found = b] \in Op
  BY <1>3 DEF Op
<1> HIDE DEF n
<1>6. n \in Op
  BY <1>4, <1>5, Zenon
<1> QED
  BY <1>2, <1>6, ContinueType

LEMMA ScanChangedType ==
  ASSUME RestOK, CallsOK, NEW c \in Callers, ScanChanged(c) PROVE CallsOK'
<1> DEFINE o == op[c]
           t == [p \in Paths |-> IF p \in o.args \cap Readable THEN fs[p] ELSE o.mem.files[p]]
           m == [o.mem EXCEPT !.files = t]
           scanned == [o EXCEPT !.mem.files = t, !.todo = ChangedOrNew(o.mem.files, t),
                                !.gone = Deleted(o.mem.files, t), !.touched = {}]
<1>1. o \in Op
  BY DEF CallsOK
<1>2. t \in Tree
  BY <1>1, ReadableType DEF RestOK, Op, Index, Tree, Readable
<1>3. m \in Index
  BY <1>1, <1>2 DEF Op, Index
<1>4. ChangedOrNew(o.mem.files, t) \subseteq Paths /\ Deleted(o.mem.files, t) \subseteq Paths
  BY DEF ChangedOrNew, Deleted, PathsIn
<1>5. \/ Continue(c, [scanned EXCEPT !.pc = "save"])
      \/ Continue(c, [scanned EXCEPT !.pc = "collect"])
  BY DEF ScanChanged
<1> HIDE DEF o, t
<1>6. scanned \in Op
  BY <1>1, <1>2, <1>3, <1>4 DEF Op
<1> HIDE DEF scanned
<1>7. [scanned EXCEPT !.pc = "save"] \in Op /\ [scanned EXCEPT !.pc = "collect"] \in Op
  BY <1>6 DEF Op, Steps
<1> QED
  BY <1>5, <1>7, ContinueType

LEMMA ScanIncrementalType ==
  ASSUME RestOK, CallsOK, NEW c \in Callers, ScanIncremental(c) PROVE CallsOK'
<1> DEFINE o == op[c]
           old == o.mem.files
           m == [o.mem EXCEPT !.files = Discovered, !.head = o.head]
           n == [o EXCEPT !.pc = "save", !.mem.files = Discovered,
                          !.mem.head = o.head, !.touched = {},
                          !.todo = ChangedOrNew(old, Discovered),
                          !.gone = Deleted(old, Discovered)]
<1>1. o \in Op
  BY DEF CallsOK
<1>2. Discovered \in Tree
  BY DiscoveredType DEF RestOK
<1>3. m \in Index
  BY <1>1, <1>2 DEF Op, Index
<1>4. ChangedOrNew(old, Discovered) \subseteq Paths /\ Deleted(old, Discovered) \subseteq Paths
  BY DEF ChangedOrNew, Deleted, PathsIn
<1>5. Return(c, "failure") \/ Return(c, "success") \/ Continue(c, n)
  BY DEF ScanIncremental
<1> HIDE DEF o
<1>6. n \in Op
  BY <1>1, <1>2, <1>3, <1>4 DEF Op, Steps
<1> HIDE DEF n
<1> QED
  BY <1>5, <1>6, ContinueType, ReturnType DEF Results

LEMMA ScanFullType ==
  ASSUME RestOK, CallsOK, NEW c \in Callers, ScanFull(c) PROVE CallsOK'
<1> DEFINE o == op[c]
           m == [files |-> Discovered, head |-> o.head, chunks |-> NoChunks]
           n == [o EXCEPT !.pc = "save", !.touched = {}, !.mem = m,
                          !.todo = PathsIn(Discovered)]
<1>1. o \in Op
  BY DEF CallsOK
<1>2. m \in Index
  BY <1>1, DiscoveredType DEF RestOK, Op, Index, NoChunks, ChunkMap
<1>3. PathsIn(Discovered) \subseteq Paths
  BY DEF PathsIn
<1>4. Return(c, "failure") \/ Continue(c, n)
  BY DEF ScanFull
<1> HIDE DEF o, m
<1>5. n \in Op
  BY <1>1, <1>2, <1>3 DEF Op, Steps
<1> HIDE DEF n
<1> QED
  BY <1>4, <1>5, ContinueType, ReturnType DEF Results

LEMMA LoadFileType ==
  ASSUME StoresOK, RestOK, CallsOK, NEW c \in Callers, LoadFile(c)
  PROVE  StoresOK' /\ CallsOK'
<1> DEFINE o == op[c]
           h == IF head = 0 THEN idx.head ELSE head
           texts(p) == [NoFiles EXCEPT ![p] = fs[p]]
           m(p) == [idx EXCEPT !.head = h, !.files[p] = fs[p]]
           got(p) == [o EXCEPT !.texts = texts(p), !.found = TRUE, !.mem = m(p),
                               !.head = head, !.touched = {}]
           next(p) == [got(p) EXCEPT !.pc = "save", !.todo = {p}]
<1>1. o \in Op
  BY DEF CallsOK
<1>2. PICK p \in Paths :
         /\ vec' = vec
         /\ \/ Return(c, "failure") /\ idx' = idx
            \/ /\ fs[p] \in Contents /\ idx # NoIndex
               /\ \/ Return(c, "success") /\ idx' \in {idx, got(p).mem}
                  \/ Continue(c, next(p)) /\ idx' = idx
  BY DEF LoadFile
<1>3. vec' = vec
  BY <1>2
<1>4. CASE Return(c, "failure") /\ idx' = idx
  BY <1>3, <1>4, ReturnType DEF Results, StoresOK
<1>5. CASE /\ fs[p] \in Contents /\ idx # NoIndex
           /\ \/ Return(c, "success") /\ idx' \in {idx, got(p).mem}
              \/ Continue(c, next(p)) /\ idx' = idx
  <2>1. idx \in Index /\ h \in Nat
    BY <1>5 DEF StoresOK, RestOK, Index
  <2>2. m(p) \in Index
    BY <1>5, <2>1 DEF Index, Tree
  <2>3. texts(p) \in Tree
    BY <1>5, NothingType DEF Tree
  <2> HIDE DEF o, m, texts
  <2>4. got(p) \in Op
    BY <1>1, <2>2, <2>3 DEF Op, RestOK
  <2>5. StoresOK'
    BY <1>3, <1>5, <2>1, <2>4 DEF StoresOK, Op
  <2> HIDE DEF got
  <2>6. next(p) \in Op
    BY <2>4 DEF Op, Steps
  <2> HIDE DEF next
  <2> QED
    BY <1>5, <2>5, <2>6, ContinueType, ReturnType DEF Results
<1> QED
  BY <1>2, <1>4, <1>5

LEMMA SaveIndexType == ASSUME TypeOK, NEW c \in Callers, SaveIndex(c) PROVE TypeOK'
<1> DEFINE o == op[c]
           n == [o EXCEPT !.pc = "collect"]
<1>1. o \in Op /\ CallsOK /\ StoresOK /\ HistoryOK /\ RestOK
  BY TypeParts DEF CallsOK
<1>2. Continue(c, n)
  BY DEF SaveIndex
<1>3. StoresOK' /\ HistoryOK' /\ RestOK'
  <2>1. o.todo \subseteq Paths /\ Forgotten(idx, FirstSave(o)) \subseteq Ids
    BY <1>1, KnownType DEF Op, Forgotten, StoresOK
  <2> QED
    BY <1>1, <2>1, SavesType DEF SaveIndex, StoresOK, HistoryOK, RestOK, Outside, Counters
<1> HIDE DEF o
<1>4. n \in Op
  BY <1>1 DEF Op, Steps
<1> HIDE DEF n
<1>5. CallsOK'
  BY <1>1, <1>2, <1>4, ContinueType
<1> QED
  BY <1>3, <1>5, TypePartsNext

LEMMA SaveIndexFailsType ==
  ASSUME TypeOK, NEW c \in Callers, SaveIndexFails(c) PROVE TypeOK'
<1> DEFINE o == op[c]
<1>1. o \in Op /\ CallsOK /\ StoresOK /\ HistoryOK /\ RestOK
  BY TypeParts DEF CallsOK
<1>2. CallsOK'
  BY <1>1, ReturnType DEF SaveIndexFails, Results
<1>3. o.todo \subseteq Paths /\ Forgotten(idx, FirstSave(o)) \subseteq Ids
  BY <1>1, KnownType DEF Op, Forgotten, StoresOK
<1>4. StoresOK' /\ HistoryOK' /\ RestOK'
  BY <1>1, <1>3, SavesType
  DEF SaveIndexFails, StoresOK, HistoryOK, RestOK, Outside, History
<1> QED
  BY <1>2, <1>4, TypePartsNext

LEMMA CollectChunksType ==
  ASSUME TypeOK, NEW c \in Callers, CollectChunks(c) PROVE TypeOK'
<1> DEFINE o == op[c]
           texts == IF o.kind = "file" THEN o.texts
                    ELSE [p \in Paths |-> IF p \in o.todo THEN fs[p] ELSE Absent]
           read == [o EXCEPT !.texts = texts]
           late == {p \in o.todo : texts[p] # o.mem.files[p]}
           n == [read EXCEPT !.pc = "upsert", !.pending = Uploaded(read),
                             !.dirty = @ \cup late]
<1>1. o \in Op /\ CallsOK /\ StoresOK /\ HistoryOK /\ RestOK
  BY TypeParts DEF CallsOK
<1>2. Continue(c, n)
  BY DEF CollectChunks
<1>3. StoresOK' /\ HistoryOK' /\ RestOK'
  BY <1>1 DEF CollectChunks, StoresOK, HistoryOK, RestOK, Outside, Stores, History, Counters
<1>9. o.kind = "file" \/ o.todo \subseteq Readable
  BY DEF CollectChunks, CanCollect
<1> HIDE DEF o
<1>4. texts \in Tree
  BY <1>1, <1>9, ReadableType DEF Op, Tree, RestOK, Readable
<1>5. late \subseteq Paths
  BY <1>1 DEF Op
<1> HIDE DEF texts, late
<1>6. read \in Op
  BY <1>1, <1>4 DEF Op
<1> HIDE DEF read
<1>7. n \in Op
  BY <1>5, <1>6, UploadedType DEF Op, Steps
<1> HIDE DEF n
<1>8. CallsOK'
  BY <1>1, <1>2, <1>7, ContinueType
<1> QED
  BY <1>3, <1>8, TypePartsNext

\* UpsertBatch, PlanPrune and PruneBatch only change the pending IDs and the store.
LEMMA BatchStepType ==
  ASSUME TypeOK, NEW c \in Callers, UpsertBatch(c) \/ PlanPrune(c) \/ PruneBatch(c)
  PROVE  TypeOK'
<1> DEFINE o == op[c]
           rest(b) == [o EXCEPT !.pending = @ \ b]
           plan == [o EXCEPT !.pc = "prune", !.pending = Stale(o)]
<1>1. o \in Op /\ CallsOK /\ StoresOK /\ HistoryOK /\ RestOK
  BY TypeParts DEF CallsOK
<1>2. \/ \E b \in Batches(o.pending) : vec' \in {vec \cup b, vec \ b} /\ Continue(c, rest(b))
      \/ vec' = vec /\ Continue(c, plan)
  BY DEF UpsertBatch, PlanPrune, PruneBatch, Stores
<1>3. idx' = idx /\ HistoryOK' /\ RestOK'
  BY <1>1 DEF UpsertBatch, PlanPrune, PruneBatch, StoresOK, HistoryOK, RestOK, Outside,
              Stores, History, Counters
<1>4. o.pending \subseteq Ids
  BY <1>1 DEF Op
<1>5. StoresOK'
  BY <1>1, <1>2, <1>3, <1>4 DEF StoresOK, Batches, Portions
<1> HIDE DEF o
<1>6. plan \in Op /\ \A b : rest(b) \in Op
  BY <1>1, StaleType DEF Op, Steps
<1> HIDE DEF plan, rest
<1>7. CallsOK'
  BY <1>1, <1>2, <1>6, ContinueType
<1> QED
  BY <1>3, <1>5, <1>7, TypePartsNext

LEMMA SyncFailsType == ASSUME TypeOK, NEW c \in Callers, SyncFails(c) PROVE TypeOK'
<1> DEFINE o == op[c]
<1>1. o \in Op /\ CallsOK /\ StoresOK /\ HistoryOK /\ RestOK
  BY TypeParts DEF CallsOK
<1>2. CallsOK'
  BY <1>1, ReturnType DEF SyncFails, Results
<1>3. \A r \in InFlight(o) : r \in Requests /\ Done(r) \subseteq Ids
  BY <1>1, InFlightType DEF StoresOK, RestOK
<1>4. /\ idx' = idx /\ UNCHANGED <<fs, head, edits, calls>>
      /\ faults' = faults + 1
      /\ \/ UNCHANGED <<vec, stray>>
         \/ \E r \in InFlight(o) : vec' = Done(r) /\ UNCHANGED stray
         \/ \E r \in InFlight(o) : stray' = stray \cup {r} /\ UNCHANGED vec
  BY DEF SyncFails
<1>5. StoresOK' /\ RestOK'
  BY <1>1, <1>3, <1>4 DEF StoresOK, RestOK
<1>6. HistoryOK'
  BY <1>1, UploadedType DEF SyncFails, HistoryOK
<1> QED
  BY <1>2, <1>5, <1>6, TypePartsNext

LEMMA AttemptTimesOutType ==
  ASSUME TypeOK, NEW c \in Callers, AttemptTimesOut(c) PROVE TypeOK'
<1>1. CallsOK /\ StoresOK /\ HistoryOK /\ RestOK
  BY TypeParts
<1>2. CallsOK' /\ StoresOK' /\ HistoryOK'
  BY <1>1 DEF AttemptTimesOut, CallsOK, StoresOK, HistoryOK, Stores, History
<1>3. op[c] \in Op /\ faults \in Nat /\ vec \subseteq Ids
  BY <1>1 DEF CallsOK, RestOK, StoresOK
<1>4. InFlight(op[c]) \subseteq Requests
  BY <1>3, InFlightType
<1>5. RestOK'
  BY <1>1, <1>4 DEF AttemptTimesOut, RestOK
<1> QED
  BY <1>2, <1>5, TypePartsNext

LEMMA LosingType == ASSUME CallsOK, NEW ps \in SUBSET Paths PROVE Losing(ps) \in [Callers -> Op]
<1>1. \A o \in Op : [o EXCEPT !.dirty = @ \cup ps] \in Op
  BY DEF Op
<1>2. \A c \in Callers : op[c] \in Op /\ [op[c] EXCEPT !.dirty = @ \cup ps] \in Op
  BY <1>1 DEF CallsOK
<1> QED
  BY <1>2 DEF Losing

LEMMA ArriveType == ASSUME TypeOK, NEW r \in stray, Arrive(r) PROVE TypeOK'
<1>1. CallsOK /\ StoresOK /\ HistoryOK /\ RestOK
  BY TypeParts
<1>2. r \in Requests /\ Losers(r) \subseteq Paths
  BY <1>1 DEF RestOK, Losers
<1>3. Done(r) \subseteq Ids
  BY <1>1, <1>2 DEF Done, Requests, StoresOK
<1>4. StoresOK' /\ HistoryOK' /\ RestOK'
  BY <1>1, <1>2, <1>3 DEF Arrive, StoresOK, HistoryOK, RestOK, Counters
<1>5. CallsOK'
  BY <1>1, <1>2, LosingType DEF Arrive, CallsOK
<1> QED
  BY <1>4, <1>5, TypePartsNext

LEMMA CollectFailsType == ASSUME TypeOK, NEW c \in Callers, CollectFails(c) PROVE TypeOK'
<1>1. CallsOK /\ StoresOK /\ HistoryOK /\ RestOK
  BY TypeParts
<1>2. CallsOK'
  BY <1>1, ReturnType DEF CollectFails, Results
<1>3. StoresOK' /\ HistoryOK' /\ RestOK'
  BY <1>1 DEF CollectFails, StoresOK, HistoryOK, RestOK, Stores, History, Outside, Counters
<1> QED
  BY <1>2, <1>3, TypePartsNext

LEMMA CommitType ==
  ASSUME TypeOK, NEW c \in Callers, CommitIndex(c) \/ CommitIndexFails(c) PROVE TypeOK'
<1> DEFINE o == op[c]
<1>1. o \in Op /\ CallsOK /\ StoresOK /\ HistoryOK /\ RestOK
  BY TypeParts DEF CallsOK
<1>2. CallsOK'
  BY <1>1, ReturnType DEF CommitIndex, CommitIndexFails, Results
<1>3. idx' \in {idx, SecondSave(o)} /\ vec' = vec
  BY DEF CommitIndex, CommitIndexFails
<1>4. StoresOK'
  BY <1>1, <1>3, SavesType DEF StoresOK
<1>5. unsynced' \subseteq unsynced /\ leaked' \subseteq leaked \cup Uploaded(o)
  BY DEF CommitIndex, CommitIndexFails
<1>6. HistoryOK'
  BY <1>1, <1>5, UploadedType DEF HistoryOK
<1>7. RestOK'
  BY <1>1 DEF CommitIndex, CommitIndexFails, RestOK, Outside, Counters
<1> QED
  BY <1>2, <1>4, <1>6, <1>7, TypePartsNext

LEMMA OvertakenType ==
  ASSUME CallsOK, NEW c \in Callers PROVE Overtaken(c) \in [Callers -> Op]
<1>1. \A d \in Callers : /\ [op[d] EXCEPT !.pc = "drop"] \in Op
                         /\ [op[d] EXCEPT !.dirty = Paths] \in Op
                         /\ op[d] \in Op
  <2> SUFFICES ASSUME NEW d \in Callers
               PROVE  /\ [op[d] EXCEPT !.pc = "drop"] \in Op
                      /\ [op[d] EXCEPT !.dirty = Paths] \in Op
                      /\ op[d] \in Op
    OBVIOUS
  <2> DEFINE o == op[d]
  <2>1. o \in Op
    BY DEF CallsOK
  <2> HIDE DEF o
  <2>2. [o EXCEPT !.pc = "drop"] \in Op /\ [o EXCEPT !.dirty = Paths] \in Op
    BY <2>1 DEF Op, Steps
  <2> QED
    BY <2>1, <2>2 DEF o
<1> QED
  BY <1>1 DEF Overtaken

LEMMA InvalidateType ==
  ASSUME TypeOK, NEW c \in Callers,
         InvalidateStep(c) \/ DropNamespaceFails(c) \/ DeleteIndexFails(c)
  PROVE  TypeOK'
<1> DEFINE o == op[c]
           n == [o EXCEPT !.pc = "namespace"]
           d == [o EXCEPT !.pc = "drop"]
<1>1. o \in Op /\ CallsOK /\ StoresOK /\ HistoryOK /\ RestOK
  BY TypeParts DEF CallsOK
<1>2. n \in Op /\ d \in Op
  <2> HIDE DEF o
  <2> QED BY <1>1 DEF Op, Steps
<1>3. idx' \in {idx, NoIndex} /\ vec' \in {vec, {}}
  BY DEF InvalidateStep, ResolveRepo, DropNamespace, DeleteIndex, DropNamespaceFails,
         DeleteIndexFails, Stores
<1>4. unsynced' \in {unsynced, Paths} /\ leaked' \in {leaked, leaked \cup Known(idx)}
  BY DEF InvalidateStep, ResolveRepo, DropNamespace, DeleteIndex, DropNamespaceFails,
         DeleteIndexFails, History
<1>5. RestOK'
  <2>1. CASE DropNamespaceFails(c)
    <3>1. InFlight(o) \subseteq Requests
      BY <1>1, InFlightType DEF RestOK, StoresOK
    <3> QED
      BY <1>1, <2>1, <3>1 DEF DropNamespaceFails, RestOK
  <2>2. CASE InvalidateStep(c) \/ DeleteIndexFails(c)
    BY <1>1, <2>2 DEF InvalidateStep, ResolveRepo, DropNamespace, DeleteIndex,
                      DeleteIndexFails, RestOK, Outside, Counters
  <2> QED
    BY <2>1, <2>2
<1>6. StoresOK' /\ HistoryOK'
  BY <1>1, <1>3, <1>4, KnownType DEF StoresOK, HistoryOK
<1>7. \/ Return(c, "failure") \/ Return(c, "success") \/ Continue(c, n)
      \/ op' = Overtaken(c) /\ mutex' = mutex
      \/ op' = [op EXCEPT ![c] = d] /\ mutex' = mutex
  BY DEF InvalidateStep, ResolveRepo, DropNamespace, DeleteIndex, DropNamespaceFails,
         DeleteIndexFails
<1> HIDE DEF n, d, o
<1>8. CallsOK'
  BY <1>1, <1>2, <1>7, ReturnType, ContinueType, OvertakenType DEF Results, CallsOK
<1> QED
  BY <1>5, <1>6, <1>8, TypePartsNext

LEMMA CrashType == ASSUME TypeOK, NEW q \in Processes, Crash(q) PROVE TypeOK'
<1> DEFINE dead == {c \in Callers : ProcessOf[c] = q /\ Running(c)}
<1>1. CallsOK /\ StoresOK /\ HistoryOK /\ RestOK
  BY TypeParts
<1>2. UploadedBy(dead) \subseteq Ids
  BY <1>1, UploadedType DEF UploadedBy, CallsOK
<1>3. HistoryOK' /\ StoresOK' /\ RestOK'
  BY <1>1, <1>2 DEF Crash, HistoryOK, StoresOK, RestOK, Stores, Outside
<1>4. op' = [c \in Callers |-> IF c \in dead THEN Idle ELSE op[c]] /\ mutex' = [mutex EXCEPT ![q] = Nobody]
  BY DEF Crash
<1> HIDE DEF dead
<1>5. Idle \in Op
  BY IdleType DEF Results
<1>6. CallsOK'
  BY <1>1, <1>4, <1>5 DEF CallsOK
<1> QED
  BY <1>3, <1>6, TypePartsNext

LEMMA EditType ==
  ASSUME TypeOK, NEW p \in Paths, NEW x \in Contents \cup {Absent, Unreadable}, EditFile(p, x)
  PROVE  TypeOK'
<1>1. CallsOK /\ StoresOK /\ HistoryOK /\ RestOK
  BY TypeParts
<1>2. \A o \in Op : [o EXCEPT !.touched = @ \cup {p}] \in Op
  BY DEF Op
<1>3. CallsOK'
  <2>1. \A c \in Callers : op[c] \in Op /\ [op[c] EXCEPT !.touched = @ \cup {p}] \in Op
    BY <1>1, <1>2 DEF CallsOK
  <2> QED
    BY <1>1, <2>1 DEF EditFile, CallsOK
<1>4. StoresOK' /\ HistoryOK' /\ RestOK'
  BY <1>1 DEF EditFile, StoresOK, HistoryOK, RestOK, FileTree, Stores, History
<1> QED
  BY <1>3, <1>4, TypePartsNext

LEMMA StartCallType ==
  ASSUME TypeOK, NEW c \in Callers, NEW k \in KindsOf[c], NEW ps \in SUBSET Paths,
         StartCall(c, k, ps)
  PROVE  TypeOK'
<1>1. CallsOK /\ StoresOK /\ HistoryOK /\ RestOK
  BY TypeParts
<1>2. k \in AllKinds
  BY IndexSyncAssumption DEF IndexSyncAssumption
<1>3. CallsOK'
  BY <1>1, <1>2, NewCallType DEF StartCall, CallsOK
<1>4. StoresOK' /\ HistoryOK' /\ RestOK'
  BY <1>1 DEF StartCall, StoresOK, HistoryOK, RestOK, Stores, History, Outside
<1> QED
  BY <1>3, <1>4, TypePartsNext

LEMMA StepType ==
  ASSUME TypeOK, NEW c \in Callers, LockRepo(c) \/ FolderStep(c) \/ LoadFile(c)
  PROVE  TypeOK'
<1>1. CallsOK /\ StoresOK /\ HistoryOK /\ RestOK
  BY TypeParts
<1>2. CASE LoadFile(c)
  <2>1. HistoryOK' /\ RestOK'
    BY <1>1, <1>2 DEF LoadFile, HistoryOK, RestOK, History, Outside, Counters
  <2> QED
    BY <1>1, <1>2, <2>1, LoadFileType, TypePartsNext, SMTT(40)
<1>3. CASE LockRepo(c) \/ FolderStep(c)
  <2>1. StoresOK' /\ HistoryOK' /\ RestOK'
    BY <1>1, <1>3 DEF LockRepo, FolderStep, LoadFolder, ScanChanged, ScanIncremental,
                      ScanFull, StoresOK, HistoryOK, RestOK, Stores, History, Outside,
                      Counters
  <2>2. CallsOK'
    BY <1>1, <1>3, LockRepoType, LoadFolderType, ScanChangedType, ScanIncrementalType,
       ScanFullType DEF FolderStep
  <2> QED
    BY <2>1, <2>2, TypePartsNext
<1> QED
  BY <1>2, <1>3

LEMMA LoadFailsType == ASSUME TypeOK, NEW c \in Callers, LoadFails(c) PROVE TypeOK'
<1>1. CallsOK /\ StoresOK /\ HistoryOK /\ RestOK
  BY TypeParts
<1>2. CallsOK'
  BY <1>1, ReturnType DEF LoadFails, Results
<1>3. StoresOK' /\ HistoryOK' /\ RestOK'
  BY <1>1 DEF LoadFails, StoresOK, HistoryOK, RestOK, Stores, History, Outside
<1> QED
  BY <1>2, <1>3, TypePartsNext

LEMMA InitType == Init => TypeOK
<1> SUFFICES ASSUME Init PROVE TypeOK
  OBVIOUS
<1>1. CallsOK
  BY IdleType DEF Init, CallsOK, Results
<1>2. RestOK /\ StoresOK /\ HistoryOK
  BY IndexSyncAssumption
  DEF Init, RestOK, StoresOK, HistoryOK, FileTree, IndexSyncAssumption
<1> QED
  BY <1>1, <1>2, TypeParts

LEMMA NextType == TypeOK /\ [Next]_vars => TypeOK'
<1> SUFFICES ASSUME TypeOK, [Next]_vars PROVE TypeOK'
  OBVIOUS
<1>1. CASE UNCHANGED vars
  BY <1>1 DEF vars, TypeOK
<1>2. CASE GitCommit
  BY <1>2 DEF GitCommit, TypeOK, Stores, History, Counters
<1>3. ASSUME NEW c \in Callers, Step(c) \/ LockRepo(c) \/ Fault(c) PROVE TypeOK'
  BY <1>3, StepType, LoadFailsType, SaveIndexType, SaveIndexFailsType, CollectChunksType, BatchStepType,
     SyncFailsType, CommitType, InvalidateType, CollectFailsType, AttemptTimesOutType
  DEF Step, SyncStep, InvalidateStep, Fault
<1> QED
  BY <1>1, <1>2, <1>3, EditType, StartCallType, CrashType, ArriveType DEF Next

-----------------------------------------------------------------------------
\* The stores, the chunk maps and every running call keep their shape, whatever is edited,
\* fails or crashes.
THEOREM TypeCorrect == Spec => []TypeOK
<1> QED
  BY InitType, NextType, PTL DEF Spec

-----------------------------------------------------------------------------
(* The repository mutex.                                                   *)

Past == Steps \ {"idle", "lock", "resolve", "namespace", "drop"}

LEMMA ReturnHolds ==
  ASSUME TypeOK, OneReindexPerProcess, NEW c \in Callers, NEW r \in Results, Return(c, r)
  PROVE  OneReindexPerProcess'
<1> DEFINE i == [Idle EXCEPT !.result = r]
<1>1. i.pc = "idle"
  BY DEF Idle, NewCall
<1>2. op' = [op EXCEPT ![c] = i]
  BY DEF Return
<1> HIDE DEF i
<1>3. op \in [Callers -> Op] /\ mutex \in [Processes -> Callers \cup {Nobody}]
  BY DEF TypeOK
<1> SUFFICES ASSUME NEW d \in Callers PROVE Holds(d)' <=> mutex'[ProcessOf[d]] = d
  BY DEF OneReindexPerProcess
<1>4. ProcessOf[d] \in Processes /\ Nobody # d
  BY IndexSyncAssumption DEF IndexSyncAssumption
<1>5. Holds(d) <=> mutex[ProcessOf[d]] = d
  BY DEF OneReindexPerProcess
<1>6. Holds(d)' <=> d # c /\ Holds(d)
  BY <1>1, <1>2, <1>3 DEF Holds
<1>7. mutex'[ProcessOf[d]] = d <=> d # c /\ mutex[ProcessOf[d]] = d
  BY <1>3, <1>4 DEF Return
<1> QED
  BY <1>5, <1>6, <1>7

\* A step that keeps every call on the same side of the mutex.
LEMMA SameSide ==
  ASSUME OneReindexPerProcess, mutex' = mutex,
         \A c \in Callers : op'[c].pc \in Past <=> op[c].pc \in Past
  PROVE  OneReindexPerProcess'
  BY DEF OneReindexPerProcess, Holds, Past

LEMMA ContinueHolds ==
  ASSUME TypeOK, OneReindexPerProcess, NEW c \in Callers, NEW o, Continue(c, o),
         o.pc \in Past <=> op[c].pc \in Past
  PROVE  OneReindexPerProcess'
  BY SameSide DEF TypeOK, Continue

LEMMA FolderHolds ==
  ASSUME TypeOK, OneReindexPerProcess, NEW c \in Callers, FolderStep(c) \/ LoadFile(c)
  PROVE  OneReindexPerProcess'
<1> DEFINE o == op[c]
<1>1. o.pc \in Past
  BY DEF FolderStep, LoadFolder, ScanChanged, ScanIncremental, ScanFull, LoadFile, Past, Steps
<1>2. o \in Op
  BY DEF TypeOK
<1>3. ASSUME ~Return(c, "failure"), ~Return(c, "success")
      PROVE  \E n : n.pc \in Past /\ Continue(c, n)
  <2>1. CASE LoadFolder(c)
    <3> DEFINE n == [o EXCEPT !.pc = "scan", !.found = idx # NoIndex,
                              !.mem = IF idx = NoIndex THEN EmptyIndex ELSE idx,
                              !.head = head, !.touched = {}]
    <3>1. Continue(c, n)
      BY <2>1 DEF LoadFolder
    <3>2. n.pc = "scan"
      BY <1>2 DEF Op
    <3> QED
      BY <3>1, <3>2 DEF Past, Steps
  <2>2. CASE ScanChanged(c)
    <3> DEFINE t == [p \in Paths |-> IF p \in o.args \cap Readable THEN fs[p] ELSE o.mem.files[p]]
               scanned == [o EXCEPT !.mem.files = t, !.todo = ChangedOrNew(o.mem.files, t),
                                    !.gone = Deleted(o.mem.files, t), !.touched = {}]
    <3>1. \E s \in {"save", "collect"} : Continue(c, [scanned EXCEPT !.pc = s])
      BY <2>2 DEF ScanChanged
    <3>2. \A s : [scanned EXCEPT !.pc = s].pc = s
      BY <1>2 DEF Op
    <3> QED
      BY <3>1, <3>2 DEF Past, Steps
  <2>3. CASE ScanIncremental(c)
    <3> DEFINE n == [o EXCEPT !.pc = "save", !.mem.files = Discovered,
                              !.mem.head = o.head, !.touched = {},
                              !.todo = ChangedOrNew(o.mem.files, Discovered),
                              !.gone = Deleted(o.mem.files, Discovered)]
    <3>1. Continue(c, n)
      BY <1>3, <2>3 DEF ScanIncremental
    <3>2. n.pc = "save"
      BY <1>2 DEF Op
    <3> QED
      BY <3>1, <3>2 DEF Past, Steps
  <2>4. CASE ScanFull(c)
    <3> DEFINE n == [o EXCEPT !.pc = "save", !.touched = {},
                              !.mem = [files |-> Discovered, head |-> o.head,
                                       chunks |-> NoChunks],
                              !.todo = PathsIn(Discovered)]
    <3>1. Continue(c, n)
      BY <1>3, <2>4 DEF ScanFull
    <3>2. n.pc = "save"
      BY <1>2 DEF Op
    <3> QED
      BY <3>1, <3>2 DEF Past, Steps
  <2>5. CASE LoadFile(c)
    <3> DEFINE got(p) == [o EXCEPT !.texts = [NoFiles EXCEPT ![p] = fs[p]], !.found = TRUE,
                                   !.mem = [idx EXCEPT !.head = IF head = 0 THEN idx.head
                                                                ELSE head,
                                                       !.files[p] = fs[p]],
                                   !.head = head, !.touched = {}]
               n(p) == [got(p) EXCEPT !.pc = "save", !.todo = {p}]
    <3>1. \E p \in Paths : Continue(c, n(p))
      BY <1>3, <2>5 DEF LoadFile
    <3>2. \A p : n(p).pc = "save"
      BY <1>2 DEF Op
    <3> HIDE DEF n
    <3> QED
      BY <3>1, <3>2, SMTT(40) DEF Past, Steps
  <2> QED
    BY <2>1, <2>2, <2>3, <2>4, <2>5 DEF FolderStep
<1> QED
  BY <1>1, <1>3, ReturnHolds, ContinueHolds, SMTT(40) DEF Results

LEMMA SyncHolds ==
  ASSUME TypeOK, OneReindexPerProcess, NEW c \in Callers,
         \/ SyncStep(c) \/ LoadFails(c) \/ SaveIndexFails(c) \/ SyncFails(c)
         \/ CommitIndexFails(c)
  PROVE  OneReindexPerProcess'
<1> DEFINE o == op[c]
<1>1. o \in Op
  BY DEF TypeOK
<1>2. o.pc \in Past
  BY DEF SyncStep, SaveIndex, CollectChunks, CollectFails, UpsertBatch, PlanPrune, PruneBatch,
         CommitIndex, LoadFails, SaveIndexFails, SyncFails, CommitIndexFails, Past, Steps
<1>3. CASE Return(c, "failure") \/ Return(c, "success")
  BY <1>3, ReturnHolds DEF Results
<1>4. CASE SaveIndex(c) \/ CollectChunks(c) \/ UpsertBatch(c) \/ PlanPrune(c) \/ PruneBatch(c)
  <2>1. SaveIndex(c) => \E n : n.pc = "collect" /\ Continue(c, n)
    BY <1>1 DEF SaveIndex, Op
  <2>2. CollectChunks(c) => \E n : n.pc = "upsert" /\ Continue(c, n)
    <3> DEFINE texts == IF o.kind = "file" THEN o.texts
                        ELSE [p \in Paths |-> IF p \in o.todo THEN fs[p] ELSE Absent]
               read == [o EXCEPT !.texts = texts]
               n == [read EXCEPT !.pc = "upsert", !.pending = Uploaded(read),
                                 !.dirty = @ \cup {p \in o.todo : texts[p] # o.mem.files[p]}]
    <3>1. CollectChunks(c) => Continue(c, n)
      BY DEF CollectChunks
    <3>2. read.pc = o.pc /\ DOMAIN read = DOMAIN o
      OBVIOUS
    <3> HIDE DEF read, texts
    <3>3. n.pc = "upsert"
      BY <1>1, <3>2 DEF Op
    <3> QED
      BY <3>1, <3>3
  <2>3. PlanPrune(c) => \E n : n.pc = "prune" /\ Continue(c, n)
    BY <1>1 DEF PlanPrune, Op
  <2>4. UpsertBatch(c) \/ PruneBatch(c) =>
          \E b : Continue(c, [o EXCEPT !.pending = @ \ b])
    BY DEF UpsertBatch, PruneBatch
  <2>5. \A b : [o EXCEPT !.pending = @ \ b].pc = o.pc
    BY <1>1 DEF Op
  <2>6. {"collect", "upsert", "prune"} \subseteq Past
    BY DEF Past, Steps
  <2> HIDE DEF o
  <2> QED
    BY <1>2, <1>4, <2>1, <2>2, <2>3, <2>4, <2>5, <2>6, ContinueHolds DEF o
<1> QED
  BY <1>3, <1>4 DEF SyncStep, CommitIndex, CollectFails, LoadFails, SaveIndexFails, SyncFails, CommitIndexFails

LEMMA InvalidateHolds ==
  ASSUME TypeOK, OneReindexPerProcess, NEW c \in Callers,
         InvalidateStep(c) \/ DropNamespaceFails(c) \/ DeleteIndexFails(c)
  PROVE  OneReindexPerProcess'
<1> DEFINE n(s) == [op[c] EXCEPT !.pc = s]
<1>1. \A d \in Callers : op[d] \in Op
  BY DEF TypeOK
<1>2. op[c].pc \notin Past
  BY DEF InvalidateStep, ResolveRepo, DropNamespace, DeleteIndex, DropNamespaceFails,
         DeleteIndexFails, Past
<1>3. \/ Return(c, "failure") \/ Return(c, "success") \/ Continue(c, n("namespace"))
      \/ op' = Overtaken(c) /\ mutex' = mutex
      \/ op' = [op EXCEPT ![c] = n("drop")] /\ mutex' = mutex
  BY DEF InvalidateStep, ResolveRepo, DropNamespace, DeleteIndex, DropNamespaceFails,
         DeleteIndexFails
<1>4. n("namespace").pc = "namespace" /\ n("drop").pc = "drop"
  BY <1>1 DEF Op
<1>5. \A d \in Callers : Overtaken(c)[d].pc = IF d = c THEN "drop" ELSE op[d].pc
  BY <1>1 DEF Overtaken, Op
<1> HIDE DEF n
<1>6. CASE Return(c, "failure") \/ Return(c, "success") \/ Continue(c, n("namespace"))
  BY <1>2, <1>4, <1>6, ReturnHolds, ContinueHolds DEF Results, Past
<1>7. CASE op' = Overtaken(c) /\ mutex' = mutex
  BY <1>2, <1>5, <1>7, SameSide DEF Past
<1>8. CASE op' = [op EXCEPT ![c] = n("drop")] /\ mutex' = mutex
  BY <1>2, <1>4, <1>8, SameSide DEF Past, TypeOK
<1> QED
  BY <1>3, <1>6, <1>7, <1>8

LEMMA OutsideHolds ==
  ASSUME TypeOK, OneReindexPerProcess,
         \/ GitCommit \/ UNCHANGED vars \/ \E r \in stray : Arrive(r)
         \/ \E c \in Callers : AttemptTimesOut(c)
         \/ \E p \in Paths, x \in Contents \cup {Absent, Unreadable} : EditFile(p, x)
         \/ \E c \in Callers : \E k \in KindsOf[c], ps \in SUBSET Paths : StartCall(c, k, ps)
  PROVE  OneReindexPerProcess'
<1>1. \A c \in Callers : op[c] \in Op
  BY DEF TypeOK
<1>2. CASE GitCommit \/ UNCHANGED vars \/ \E c \in Callers : AttemptTimesOut(c)
  BY <1>2, SameSide DEF GitCommit, AttemptTimesOut, vars
<1>5. ASSUME NEW r \in stray, Arrive(r) PROVE OneReindexPerProcess'
  <2>1. \A c \in Callers : Losing(Losers(r))[c].pc = op[c].pc
    BY <1>1 DEF Losing, Op
  <2> QED
    BY <1>5, <2>1, SameSide DEF Arrive
<1>3. ASSUME NEW p \in Paths, NEW x, EditFile(p, x) PROVE OneReindexPerProcess'
  <2>1. \A c \in Callers : [op[c] EXCEPT !.touched = @ \cup {p}].pc = op[c].pc
    BY <1>1 DEF Op
  <2> QED
    BY <1>3, <2>1, SameSide DEF EditFile
<1>4. ASSUME NEW c \in Callers, NEW k, NEW ps, StartCall(c, k, ps) PROVE OneReindexPerProcess'
  <2>1. op' = [op EXCEPT ![c] = NewCall(k, ps)] /\ mutex' = mutex /\ op[c].pc = "idle"
    BY <1>4 DEF StartCall, Running
  <2>2. NewCall(k, ps).pc \in {"lock", "resolve"}
    BY DEF NewCall
  <2> QED
    BY <2>1, <2>2, SameSide DEF Past, TypeOK
<1> QED
  BY <1>2, <1>3, <1>4, <1>5

LEMMA LockHolds ==
  ASSUME TypeOK, OneReindexPerProcess, NEW c \in Callers, LockRepo(c)
  PROVE  OneReindexPerProcess'
<1> DEFINE n == [op[c] EXCEPT !.pc = "load"]
<1>1. n.pc = "load"
  BY DEF TypeOK, Op
<1>2. op' = [op EXCEPT ![c] = n]
  BY DEF LockRepo
<1> HIDE DEF n
<1>3. op \in [Callers -> Op] /\ mutex \in [Processes -> Callers \cup {Nobody}]
  BY DEF TypeOK
<1> SUFFICES ASSUME NEW d \in Callers PROVE Holds(d)' <=> mutex'[ProcessOf[d]] = d
  BY DEF OneReindexPerProcess
<1>4. ProcessOf[d] \in Processes /\ ProcessOf[c] \in Processes /\ Nobody # d
  BY IndexSyncAssumption DEF IndexSyncAssumption
<1>5. Holds(d)' <=> d = c \/ Holds(d)
  BY <1>1, <1>2, <1>3 DEF Holds, Steps
<1>6. mutex'[ProcessOf[d]] = IF ProcessOf[d] = ProcessOf[c] THEN c ELSE mutex[ProcessOf[d]]
  BY <1>3, <1>4 DEF LockRepo
<1>7. mutex[ProcessOf[c]] = Nobody /\ (Holds(d) <=> mutex[ProcessOf[d]] = d)
  BY DEF LockRepo, OneReindexPerProcess
<1> QED
  BY <1>4, <1>5, <1>6, <1>7

LEMMA CrashHolds ==
  ASSUME TypeOK, OneReindexPerProcess, NEW q \in Processes, Crash(q)
  PROVE  OneReindexPerProcess'
<1> SUFFICES ASSUME NEW c \in Callers PROVE Holds(c)' <=> mutex'[ProcessOf[c]] = c
  BY DEF OneReindexPerProcess
<1>1. ProcessOf[c] \in Processes /\ Nobody # c
  BY IndexSyncAssumption DEF IndexSyncAssumption
<1>2. op'[c] = IF ProcessOf[c] = q /\ Running(c) THEN Idle ELSE op[c]
  BY DEF Crash
<1>3. Idle.pc = "idle"
  BY DEF Idle, NewCall
<1>4. Holds(c)' <=> ProcessOf[c] # q /\ Holds(c)
  BY <1>2, <1>3 DEF Holds, Running
<1>5. mutex'[ProcessOf[c]] = IF ProcessOf[c] = q THEN Nobody ELSE mutex[ProcessOf[c]]
  BY <1>1 DEF Crash, TypeOK
<1> QED
  BY <1>1, <1>4, <1>5 DEF OneReindexPerProcess

\* A reindexing call that got past the repository mutex holds it until it returns, so that
\* two calls of one process never interleave their load, their saves and their vector
\* requests: however many calls, processes, failures and crashes there are.
THEOREM Serialised == Spec => []OneReindexPerProcess
<1>1. Init => OneReindexPerProcess
  <2> SUFFICES ASSUME Init, NEW c \in Callers PROVE Holds(c) <=> mutex[ProcessOf[c]] = c
    BY DEF OneReindexPerProcess
  <2>1. Idle.pc = "idle"
    BY DEF Idle, NewCall
  <2> QED
    BY <2>1, IndexSyncAssumption DEF Init, Holds, IndexSyncAssumption
<1>2. TypeOK /\ OneReindexPerProcess /\ [Next]_vars => OneReindexPerProcess'
  BY OutsideHolds, LockHolds, FolderHolds, SyncHolds, InvalidateHolds, CrashHolds
  DEF Next, Step, Fault
<1> QED
  BY <1>1, <1>2, TypeCorrect, PTL DEF Spec
-----------------------------------------------------------------------------
(* The calls of one server process keep the index and the vector store in  *)
(* agreement: no save overwrites what another call recorded since the      *)
(* saving call loaded the index (no lost updates), and nothing takes a     *)
(* vector away that a synced file of the index needs (search stays         *)
(* complete).  With several processes the repository mutex does not reach  *)
(* far enough.                                                             *)

OneProcess == \A c, d \in Callers : ProcessOf[c] = ProcessOf[d]

\* Where a reindexing call has an index in memory.
Loaded == {"scan", "save", "collect", "upsert", "prune"}

\* What it may have changed in it.
ChangedBy(o) == IF o.pc = "scan" THEN {} ELSE o.todo \cup o.gone

\* Up to these paths the copy in memory is the persisted index.
Agrees(o, i) == Rebuild(o) \/ KeepsEntries(o.mem, i, Paths \ ChangedBy(o))
CopyAgrees ==
    \A c \in Callers : op[c].pc \in Loaded /\ idx # NoIndex => Agrees(op[c], idx)

-----------------------------------------------------------------------------
LEMMA OneHolder ==
  ASSUME OneProcess, OneReindexPerProcess, NEW c \in Callers, NEW d \in Callers,
         op[c].pc \in Past, op[d].pc \in Past
  PROVE  c = d
<1>1. ProcessOf[c] = ProcessOf[d]
  BY DEF OneProcess
<1>2. mutex[ProcessOf[c]] = c /\ mutex[ProcessOf[d]] = d
  BY DEF OneReindexPerProcess, Holds, Past
<1> QED
  BY <1>1, <1>2

\* The parts of a call that Agrees looks at.
SameCopy(o, n) == /\ n.pc = "scan" <=> o.pc = "scan"
                  /\ n.mem = o.mem /\ n.todo = o.todo /\ n.gone = o.gone
                  /\ n.kind = o.kind /\ n.found = o.found

LEMMA SameCopyAgrees ==
  ASSUME NEW o, NEW n, NEW i, SameCopy(o, n), Agrees(o, i) PROVE Agrees(n, i)
  BY DEF SameCopy, Agrees, Rebuild, ChangedBy

\* A diff of two trees names every path where they differ.
LEMMA DiffIsComplete ==
  ASSUME NEW s \in Tree, NEW t \in Tree, NEW p \in Paths,
         p \notin ChangedOrNew(s, t) \cup Deleted(s, t)
  PROVE  s[p] = t[p]
  BY DEF ChangedOrNew, Deleted, PathsIn

\* What the two saves write.
LEMMA SavesKeep ==
  ASSUME NEW o \in Op, o.pc # "scan"
  PROVE  /\ Agrees(o, FirstSave(o))
         /\ \A i \in Index : Agrees(o, i) =>
               /\ KeepsEntries(FirstSave(o), i, Paths \ Updated(o))
               /\ KeepsEntries(SecondSave(o), i, Paths \ Updated(o))
<1>1. o.mem \in Index
  BY DEF Op
<1>2. FirstSave(o).files = o.mem.files /\ FirstSave(o).chunks = o.mem.chunks
  BY <1>1 DEF FirstSave, Index
<1>3. SecondSave(o).files = o.mem.files /\ SecondSave(o).chunks = NewChunks(o)
  BY <1>1 DEF SecondSave, Index
<1>4. \A p \in Paths : p \notin o.todo \cup o.gone => NewChunks(o)[p] = o.mem.chunks[p]
  BY DEF NewChunks
<1>5. Agrees(o, FirstSave(o))
  BY <1>2 DEF Agrees, KeepsEntries
<1>6. ASSUME NEW i \in Index, Agrees(o, i), NEW p \in Paths \ Updated(o)
      PROVE  /\ p \notin o.todo \cup o.gone
             /\ o.mem.files[p] = i.files[p] /\ o.mem.chunks[p] = i.chunks[p]
  BY <1>6 DEF Agrees, Updated, ChangedBy, KeepsEntries
<1> QED
  BY <1>2, <1>3, <1>4, <1>5, <1>6 DEF KeepsEntries

-----------------------------------------------------------------------------
(* The steps of the call itself that build the copy.                       *)

LEMMA ReturnsIdle ==
  ASSUME TypeOK, NEW c \in Callers, NEW r, Return(c, r)
  PROVE  op'[c].pc = "idle"
<1>1. [Idle EXCEPT !.result = r].pc = "idle"
  BY DEF Idle, NewCall
<1> QED
  BY <1>1 DEF TypeOK, Return

LEMMA LoadFolderAgrees ==
  ASSUME TypeOK, NEW c \in Callers, LoadFolder(c), idx # NoIndex
  PROVE  Agrees(op'[c], idx')
<1> DEFINE o == op[c]
           n == [o EXCEPT !.pc = "scan", !.found = idx # NoIndex,
                          !.mem = IF idx = NoIndex THEN EmptyIndex ELSE idx,
                          !.head = head, !.touched = {}]
<1>1. o \in Op /\ op \in [Callers -> Op]
  BY DEF TypeOK
<1>2. op'[c] = n /\ idx' = idx
  BY <1>1 DEF LoadFolder, Continue, Stores
<1>3. n.mem = idx
  BY <1>1 DEF Op
<1> HIDE DEF n
<1> QED
  BY <1>2, <1>3 DEF Agrees, KeepsEntries

LEMMA ScanChangedAgrees ==
  ASSUME TypeOK, NEW c \in Callers, ScanChanged(c), Agrees(op[c], idx)
  PROVE  Agrees(op'[c], idx')
<1> DEFINE o == op[c]
           t == [p \in Paths |-> IF p \in o.args \cap Readable THEN fs[p] ELSE o.mem.files[p]]
           todo == ChangedOrNew(o.mem.files, t)
           gone == Deleted(o.mem.files, t)
           scanned == [o EXCEPT !.mem.files = t, !.todo = todo, !.gone = gone, !.touched = {}]
<1>1. o \in Op /\ op \in [Callers -> Op] /\ fs \in FileTree
  BY DEF TypeOK, FileTree
<1>2. \E s \in {"save", "collect"} : op'[c] = [scanned EXCEPT !.pc = s]
  BY <1>1 DEF ScanChanged, Continue
<1>3. idx' = idx /\ o.pc = "scan" /\ ~Rebuild(o)
  BY DEF ScanChanged, Stores, FastPath, Rebuild
<1>4. KeepsEntries(o.mem, idx, Paths)
  BY <1>3 DEF Agrees, ChangedBy, KeepsEntries
<1>5. o.mem.files \in Tree /\ t \in Tree
  BY <1>1, ReadableType DEF Op, Index, Tree, Readable
<1>6. \A p \in Paths : p \notin todo \cup gone => t[p] = o.mem.files[p]
  BY <1>5, DiffIsComplete
<1> HIDE DEF t, todo, gone
<1>7. /\ scanned \in [DOMAIN o -> {scanned[f] : f \in DOMAIN o}]
      /\ DOMAIN scanned = DOMAIN o
      /\ scanned.mem.files = t /\ scanned.mem.chunks = o.mem.chunks
      /\ scanned.todo = todo /\ scanned.gone = gone
  BY <1>1 DEF Op, Index
<1> HIDE DEF scanned
<1>8. op'[c].mem = scanned.mem /\ op'[c].todo = todo /\ op'[c].gone = gone
  BY <1>2, <1>7
<1>9. op'[c].pc # "scan"
  BY <1>1, <1>2, <1>7 DEF Op
<1> QED
  BY <1>3, <1>4, <1>6, <1>7, <1>8, <1>9 DEF Agrees, ChangedBy, KeepsEntries

LEMMA ScanIncrementalAgrees ==
  ASSUME TypeOK, NEW c \in Callers, ScanIncremental(c), Agrees(op[c], idx),
         op'[c].pc # "idle"
  PROVE  Agrees(op'[c], idx')
<1> DEFINE o == op[c]
           todo == ChangedOrNew(o.mem.files, Discovered)
           gone == Deleted(o.mem.files, Discovered)
           n == [o EXCEPT !.pc = "save", !.mem.files = Discovered, !.mem.head = o.head,
                          !.touched = {}, !.todo = todo, !.gone = gone]
<1>1. o \in Op /\ op \in [Callers -> Op] /\ Discovered \in Tree
  BY DiscoveredType DEF TypeOK, FileTree
<1>2. Continue(c, n)
  BY ReturnsIdle DEF ScanIncremental
<1>3. idx' = idx /\ o.pc = "scan" /\ ~Rebuild(o)
  BY DEF ScanIncremental, Stores
<1>4. KeepsEntries(o.mem, idx, Paths)
  BY <1>3 DEF Agrees, ChangedBy, KeepsEntries
<1>5. \A p \in Paths : p \notin todo \cup gone => Discovered[p] = o.mem.files[p]
  BY <1>1, DiffIsComplete DEF Op, Index
<1> HIDE DEF todo, gone
<1>6. /\ n.mem.files = Discovered /\ n.mem.chunks = o.mem.chunks
      /\ n.todo = todo /\ n.gone = gone /\ n.pc = "save"
  BY <1>1 DEF Op, Index
<1> HIDE DEF n
<1>7. op'[c] = n
  BY <1>1, <1>2 DEF Continue
<1> QED
  BY <1>3, <1>4, <1>5, <1>6, <1>7 DEF Agrees, ChangedBy, KeepsEntries

LEMMA ScanFullAgrees ==
  ASSUME TypeOK, NEW c \in Callers, ScanFull(c), op'[c].pc # "idle"
  PROVE  Agrees(op'[c], idx')
<1> DEFINE o == op[c]
           n == [o EXCEPT !.pc = "save", !.touched = {},
                          !.mem = [files |-> Discovered, head |-> o.head,
                                   chunks |-> NoChunks],
                          !.todo = PathsIn(Discovered)]
<1>1. o \in Op /\ op \in [Callers -> Op]
  BY DEF TypeOK
<1>2. Continue(c, n) /\ Rebuild(o)
  BY ReturnsIdle DEF ScanFull
<1>3. n.kind = o.kind /\ n.found = o.found
  BY <1>1 DEF Op
<1> HIDE DEF n
<1>4. op'[c] = n
  BY <1>1, <1>2 DEF Continue
<1> QED
  BY <1>2, <1>3, <1>4 DEF Agrees, Rebuild

\* index_file loads the index and changes the entry of its file.  A file that was not
\* changed leaves every entry as it is.
LEMMA LoadFileAgrees ==
  ASSUME TypeOK, NEW c \in Callers, LoadFile(c)
  PROVE  /\ op'[c].pc = "idle" \/ Agrees(op'[c], idx')
         /\ \A ps \in SUBSET Paths : idx # NoIndex => KeepsEntries(idx', idx, ps)
<1> DEFINE o == op[c]
           h == IF head = 0 THEN idx.head ELSE head
           m(p) == [idx EXCEPT !.head = h, !.files[p] = fs[p]]
           got(p) == [o EXCEPT !.texts = [NoFiles EXCEPT ![p] = fs[p]], !.found = TRUE,
                               !.mem = m(p), !.head = head, !.touched = {}]
           next(p) == [got(p) EXCEPT !.pc = "save", !.todo = {p}]
<1>1. o \in Op /\ op \in [Callers -> Op] /\ idx \in Index \cup {NoIndex}
  BY SMTT(40) DEF TypeOK
<1>2. PICK p \in Paths :
         \/ Return(c, "failure") /\ idx' = idx
         \/ /\ idx # NoIndex
            /\ \/ Return(c, "success") /\ idx.files[p] = fs[p] /\ idx' \in {idx, got(p).mem}
               \/ Continue(c, next(p)) /\ idx' = idx
  BY DEF LoadFile
<1>3. got(p).mem = m(p) /\ next(p).mem = m(p) /\ next(p).todo = {p} /\ next(p).pc = "save"
  BY <1>1 DEF Op
<1> HIDE DEF got, next
<1>4. ASSUME idx # NoIndex
      PROVE  /\ m(p).chunks = idx.chunks
             /\ \A x \in Paths : x # p => m(p).files[x] = idx.files[x]
             /\ idx.files[p] = fs[p] => m(p).files[p] = idx.files[p]
  BY <1>1, <1>4 DEF Index, Tree
<1> HIDE DEF m
<1>5. CASE Return(c, "failure") /\ idx' = idx
  BY <1>5, ReturnsIdle DEF KeepsEntries
<1>6. CASE /\ idx # NoIndex
           /\ Return(c, "success") /\ idx.files[p] = fs[p] /\ idx' \in {idx, got(p).mem}
  BY <1>3, <1>4, <1>6, ReturnsIdle DEF KeepsEntries
<1>7. CASE idx # NoIndex /\ Continue(c, next(p)) /\ idx' = idx
  <2>1. op'[c] = next(p)
    BY <1>1, <1>7 DEF Continue
  <2> QED
    BY <1>3, <1>4, <1>7, <2>1 DEF Agrees, ChangedBy, KeepsEntries
<1> QED
  BY <1>2, <1>5, <1>6, <1>7

-----------------------------------------------------------------------------
(* The steps that keep the copy.                                           *)

SyncOnly(c) == CollectChunks(c) \/ UpsertBatch(c) \/ PlanPrune(c) \/ PruneBatch(c)

LEMMA SyncKeepsCopy ==
  ASSUME TypeOK, NEW c \in Callers, SyncOnly(c)
  PROVE  idx' = idx /\ SameCopy(op[c], op'[c]) /\ op[c].pc \in Loaded
<1> DEFINE o == op[c]
<1>1. o \in Op /\ op \in [Callers -> Op]
  BY DEF TypeOK
<1>2. idx' = idx /\ o.pc \in Loaded \ {"scan"}
  BY DEF SyncOnly, CollectChunks, UpsertBatch, PlanPrune, PruneBatch, Stores, Loaded
<1>3. CASE CollectChunks(c)
  <2> DEFINE texts == IF o.kind = "file" THEN o.texts
                      ELSE [p \in Paths |-> IF p \in o.todo THEN fs[p] ELSE Absent]
             read == [o EXCEPT !.texts = texts]
             late == {p \in o.todo : texts[p] # o.mem.files[p]}
             n == [read EXCEPT !.pc = "upsert", !.pending = Uploaded(read),
                               !.dirty = @ \cup late]
  <2>1. op'[c] = n
    BY <1>1, <1>3 DEF CollectChunks, Continue
  <2> HIDE DEF texts
  <2>2. SameCopy(o, read) /\ DOMAIN read = DOMAIN o
    BY <1>1 DEF SameCopy, Op
  <2> HIDE DEF read, late
  <2>3. n.mem = read.mem /\ n.todo = read.todo /\ n.gone = read.gone /\ n.kind = read.kind
        /\ n.found = read.found /\ n.pc = "upsert"
    BY <1>1, <2>2 DEF Op
  <2> QED
    BY <1>2, <2>1, <2>2, <2>3 DEF SameCopy
<1>4. CASE UpsertBatch(c) \/ PruneBatch(c)
  <2>1. PICK b : op'[c] = [o EXCEPT !.pending = @ \ b]
    BY <1>1, <1>4 DEF UpsertBatch, PruneBatch, Continue
  <2> QED
    BY <1>1, <1>2, <2>1 DEF SameCopy, Op
<1>5. CASE PlanPrune(c)
  <2>1. op'[c] = [o EXCEPT !.pc = "prune", !.pending = Stale(o)]
    BY <1>1, <1>5 DEF PlanPrune, Continue
  <2> QED
    BY <1>1, <1>2, <2>1 DEF SameCopy, Op
<1> QED
  BY <1>2, <1>3, <1>4, <1>5 DEF SyncOnly, Loaded

LEMMA SaveKeepsCopy ==
  ASSUME TypeOK, NEW c \in Callers, SaveIndex(c)
  PROVE  idx' = FirstSave(op[c]) /\ SameCopy(op[c], op'[c]) /\ op[c].pc = "save"
<1> DEFINE o == op[c]
<1>1. o \in Op /\ op'[c] = [o EXCEPT !.pc = "collect"]
  BY DEF TypeOK, SaveIndex, Continue
<1>2. idx' = FirstSave(o) /\ o.pc = "save"
  BY DEF SaveIndex
<1> QED
  BY <1>1, <1>2 DEF SameCopy, Op

-----------------------------------------------------------------------------
(* Who writes the index, and what the steps of the others do to a call.    *)

Writes(d) == \/ SaveIndex(d) \/ SaveIndexFails(d) \/ LoadFile(d)
             \/ CommitIndex(d) \/ CommitIndexFails(d)

LEMMA OnlyWritersChangeIndex ==
  ASSUME [Next]_vars, idx' # idx, idx' # NoIndex PROVE \E d \in Callers : Writes(d)
  BY DEF Next, Writes, Step, Fault, FolderStep, SyncStep, InvalidateStep, LockRepo, StartCall,
         EditFile, GitCommit, Crash, LoadFolder, ScanChanged, ScanIncremental, ScanFull,
         CollectChunks, CollectFails, UpsertBatch, PlanPrune, PruneBatch, ResolveRepo,
         DropNamespace, DeleteIndex, LoadFails, SyncFails, AttemptTimesOut, DropNamespaceFails,
         DeleteIndexFails, Arrive, Stores, vars

LEMMA WriterIsPast ==
  ASSUME TypeOK, NEW d \in Callers, Writes(d)
  PROVE  op[d].pc \in Past /\ \A c \in Callers \ {d} : op'[c] = op[c]
<1>1. op[d].pc \in Past
  BY DEF Writes, SaveIndex, SaveIndexFails, LoadFile, CommitIndex, CommitIndexFails, Past, Steps
<1>2. \E o : op' = [op EXCEPT ![d] = o]
  BY DEF Writes, SaveIndex, SaveIndexFails, LoadFile, CommitIndex, CommitIndexFails, Return,
         Continue
<1> QED
  BY <1>1, <1>2 DEF TypeOK

\* A step of somebody else.
LEMMA OtherSteps ==
  ASSUME TypeOK, NEW c \in Callers, [Next]_vars, op'[c].pc \in Loaded,
         ~Step(c), ~Fault(c), ~LockRepo(c)
  PROVE  SameCopy(op[c], op'[c]) /\ op[c].pc \in Loaded
<1> DEFINE o == op[c]
<1>1. o \in Op /\ op \in [Callers -> Op]
  BY DEF TypeOK
<1>2. SameCopy(o, o)
  BY DEF SameCopy
<1>3. CASE op'[c] = o
  BY <1>2, <1>3
<1>4. CASE \E f : \/ op'[c] = [o EXCEPT !.touched = f]
                 \/ op'[c] = [o EXCEPT !.dirty = f]
  BY <1>1, <1>4 DEF SameCopy, Op
<1>5. CASE \E k, ps : op'[c] = NewCall(k, ps)
  BY <1>5 DEF NewCall, Loaded
<1>6. CASE op'[c] = Idle
  BY <1>6 DEF Idle, NewCall, Loaded
<1>7. ASSUME NEW p, NEW x, EditFile(p, x)
      PROVE  op'[c] = o \/ op'[c] = [o EXCEPT !.touched = @ \cup {p}]
  BY <1>7 DEF EditFile
<1>8. ASSUME NEW d \in Callers, NEW k, NEW ps, StartCall(d, k, ps)
      PROVE  op'[c] = o \/ op'[c] = NewCall(k, ps)
  BY <1>1, <1>8 DEF StartCall
<1>9. ASSUME NEW d \in Callers, LockRepo(d) \/ Step(d) \/ Fault(d)
      PROVE  op'[c] = o \/ op'[c] = [o EXCEPT !.dirty = Paths]
  <2>1. d # c
    BY <1>9, SMTT(40)
  <2>2. (\E n : op' = [op EXCEPT ![d] = n]) \/ op' = Overtaken(d) \/ op' = op
    BY <1>9 DEF LockRepo, Step, Fault, FolderStep, SyncStep, InvalidateStep, LoadFolder,
                ScanChanged, ScanIncremental, ScanFull, LoadFile, SaveIndex, CollectChunks,
                CollectFails, AttemptTimesOut, UpsertBatch, PlanPrune, PruneBatch, CommitIndex, ResolveRepo, DropNamespace,
                DeleteIndex, LoadFails, SaveIndexFails, SyncFails, CommitIndexFails,
                DropNamespaceFails, DeleteIndexFails, Return, Continue
  <2> QED
    BY <1>1, <2>1, <2>2 DEF Overtaken
<1>10. CASE GitCommit \/ UNCHANGED vars
  BY <1>3, <1>10 DEF GitCommit, vars
<1>11. ASSUME NEW q, Crash(q) PROVE op'[c] = o \/ op'[c] = Idle
  BY <1>11 DEF Crash
<1>12. ASSUME NEW r, Arrive(r)
       PROVE  op'[c] = o \/ op'[c] = [o EXCEPT !.dirty = @ \cup Losers(r)]
  BY <1>12 DEF Arrive, Losing
<1> QED
  BY <1>3, <1>4, <1>5, <1>6, <1>7, <1>8, <1>9, <1>10, <1>11, <1>12 DEF Next

\* A step of the call itself.
LEMMA OwnStep ==
  ASSUME TypeOK, CopyAgrees, NEW c \in Callers, Step(c) \/ Fault(c) \/ LockRepo(c),
         op'[c].pc \in Loaded, idx' # NoIndex
  PROVE  Agrees(op'[c], idx')
<1> DEFINE o == op[c]
<1>1. o \in Op /\ op \in [Callers -> Op]
  BY DEF TypeOK
<1>2. op'[c].pc # "idle"
  BY DEF Loaded
<1>3. ~Return(c, "failure") /\ ~Return(c, "success")
  BY <1>2, ReturnsIdle
<1>4. ASSUME \E s : s \notin Loaded /\ op'[c] = [o EXCEPT !.pc = s] PROVE FALSE
  BY <1>1, <1>4 DEF Op
<1>5. ~LockRepo(c)
  <2>1. LockRepo(c) => op'[c] = [o EXCEPT !.pc = "load"]
    BY <1>1 DEF LockRepo
  <2> QED
    BY <1>4, <2>1 DEF Loaded
<1>6. ~InvalidateStep(c) /\ ~DropNamespaceFails(c)
  <2>1. InvalidateStep(c) \/ DropNamespaceFails(c) =>
          \E s \in {"namespace", "drop"} : op'[c] = [o EXCEPT !.pc = s]
    BY <1>1, <1>3 DEF InvalidateStep, ResolveRepo, DropNamespace, DeleteIndex,
                      DropNamespaceFails, Overtaken, Continue
  <2> QED
    BY <1>4, <2>1 DEF Loaded
<1>7. Fault(c) => AttemptTimesOut(c)
  BY <1>3, <1>6 DEF Fault, LoadFails, SaveIndexFails, SyncFails, CommitIndexFails,
                    DeleteIndexFails
<1>12. ~CommitIndex(c) /\ ~CollectFails(c)
  BY <1>3 DEF CommitIndex, CollectFails
<1>13. CASE AttemptTimesOut(c)
  <2>1. op' = op /\ idx' = idx
    BY <1>13 DEF AttemptTimesOut, Stores
  <2> QED
    BY <2>1 DEF CopyAgrees
<1>8. CASE FolderStep(c)
  <2>1. idx' = idx
    BY <1>8 DEF FolderStep, LoadFolder, ScanChanged, ScanIncremental, ScanFull, Stores
  <2>2. o.pc = "scan" => Agrees(o, idx)
    BY <2>1 DEF CopyAgrees, Loaded
  <2>3. ScanChanged(c) \/ ScanIncremental(c) => o.pc = "scan"
    BY DEF ScanChanged, ScanIncremental
  <2> QED
    BY <1>2, <1>8, <2>1, <2>2, <2>3, LoadFolderAgrees, ScanChangedAgrees,
       ScanIncrementalAgrees, ScanFullAgrees DEF FolderStep
<1>9. CASE LoadFile(c)
  BY <1>2, <1>9, LoadFileAgrees
<1>10. CASE SyncOnly(c)
  <2>1. idx' = idx /\ SameCopy(o, op'[c]) /\ o.pc \in Loaded
    BY <1>10, SyncKeepsCopy
  <2>2. Agrees(o, idx)
    BY <2>1 DEF CopyAgrees
  <2> QED
    BY <2>1, <2>2, SameCopyAgrees
<1>11. CASE SaveIndex(c)
  <2>1. idx' = FirstSave(o) /\ SameCopy(o, op'[c]) /\ o.pc = "save"
    BY <1>11, SaveKeepsCopy
  <2>2. Agrees(o, FirstSave(o))
    BY <1>1, <2>1, SavesKeep
  <2> QED
    BY <2>1, <2>2, SameCopyAgrees
<1> QED
  BY <1>5, <1>6, <1>7, <1>8, <1>9, <1>10, <1>11, <1>12, <1>13 DEF Step, SyncStep, SyncOnly

LEMMA CopyNext ==
  ASSUME OneProcess, TypeOK, OneReindexPerProcess, CopyAgrees, [Next]_vars
  PROVE  CopyAgrees'
<1> SUFFICES ASSUME NEW c \in Callers, op'[c].pc \in Loaded, idx' # NoIndex
             PROVE  Agrees(op'[c], idx')
  BY DEF CopyAgrees, Agrees, KeepsEntries, Rebuild, ChangedBy
<1>1. CASE Step(c) \/ Fault(c) \/ LockRepo(c)
  BY <1>1, OwnStep
<1>2. CASE ~(Step(c) \/ Fault(c) \/ LockRepo(c))
  <2>1. SameCopy(op[c], op'[c]) /\ op[c].pc \in Loaded
    BY <1>2, OtherSteps
  <2>2. idx' = idx
    <3>1. SUFFICES ASSUME NEW d \in Callers, Writes(d) PROVE FALSE
      BY OnlyWritersChangeIndex
    <3>2. d # c
      BY <1>2, <3>1 DEF Writes, Step, SyncStep, Fault
    <3>3. op[c].pc \in Past
      BY <2>1 DEF Past, Loaded, Steps
    <3> QED
      BY <3>1, <3>2, <3>3, WriterIsPast, OneHolder
  <2>3. Agrees(op[c], idx)
    BY <2>1, <2>2 DEF CopyAgrees
  <2> QED
    BY <2>1, <2>2, <2>3, SameCopyAgrees
<1> QED
  BY <1>1, <1>2

\* The copy in memory stays in step with the index from the load to the last save.
THEOREM CopyAlways == ASSUME OneProcess PROVE Spec => []CopyAgrees
<1>1. Init => CopyAgrees
  BY DEF Init, CopyAgrees
<1>2. TypeOK /\ OneReindexPerProcess /\ CopyAgrees /\ [Next]_vars => CopyAgrees'
  BY CopyNext
<1> QED
  BY <1>1, <1>2, TypeCorrect, Serialised, PTL DEF Spec

-----------------------------------------------------------------------------
KeepsOthers ==
    \A c \in Callers :
        Reindexing(c) /\ op'[c] # op[c] /\ idx # NoIndex /\ idx' # NoIndex =>
            KeepsEntries(idx', idx, Paths \ Updated(op[c]))

LEMMA StepKeepsOthers ==
  ASSUME TypeOK, CopyAgrees, [Next]_vars PROVE KeepsOthers
<1> SUFFICES ASSUME NEW c \in Callers, op'[c] # op[c], idx # NoIndex, idx' # NoIndex,
                    idx' # idx
             PROVE  KeepsEntries(idx', idx, Paths \ Updated(op[c]))
  BY DEF KeepsOthers, KeepsEntries
<1> DEFINE o == op[c]
<1>1. o \in Op /\ idx \in Index
  BY DEF TypeOK
<1>2. PICK d \in Callers : Writes(d)
  BY OnlyWritersChangeIndex
<1>3. d = c
  BY <1>2, WriterIsPast
<1>4. CASE LoadFile(c)
  BY <1>4, LoadFileAgrees
<1>5. CASE SaveIndex(c) \/ SaveIndexFails(c) \/ CommitIndex(c) \/ CommitIndexFails(c)
  <2>1. idx' \in {FirstSave(o), SecondSave(o)} /\ o.pc \in {"save", "prune"}
    BY <1>5 DEF SaveIndex, SaveIndexFails, CommitIndex, CommitIndexFails
  <2>2. Agrees(o, idx)
    BY <2>1 DEF CopyAgrees, Loaded
  <2> QED
    BY <1>1, <2>1, <2>2, SavesKeep
<1> QED
  BY <1>2, <1>3, <1>4, <1>5 DEF Writes

\* In one server process no save brings back an older entry or chunk list of a path that
\* the call did not find changed: the repository mutex covers the whole way from the load
\* to the last save, through every failure, early return and concurrent invalidate_cache.
THEOREM UpdatesSurvive == ASSUME OneProcess PROVE Spec => NoLostUpdate
<1>1. TypeOK /\ CopyAgrees /\ [Next]_vars => [KeepsOthers]_vars
  BY StepKeepsOthers
<1>2. NoLostUpdate <=> [][KeepsOthers]_vars
  BY PTL DEF NoLostUpdate, KeepsOthers
<1> QED
  BY <1>1, <1>2, TypeCorrect, CopyAlways, PTL DEF Spec

-----------------------------------------------------------------------------
(* Search stays complete.  The invariant follows a call from the loaded    *)
(* copy of the index, over the uploaded and the stale chunk IDs, to its    *)
(* last save.                                                              *)

\* A chunk map files every chunk ID under the path it was made from.
OwnChunks(m) == \A p \in Paths : \A v \in m[p] : v[1] = p

\* The vectors v hold every chunk of the files outside u.
CompleteIn(files, u, v) == \A p \in PathsIn(files) \ u : IdsOf(p, files[p]) \subseteq v

\* The paths whose chunks a call uploads as the index describes them.
Steady(o) == o.todo \ o.dirty

\* What a call knows by itself.
Sound(o) ==
    /\ o.pc \in Past \cup {"lock"} => o.kind # "invalidate"
    /\ o.pc \in {"lock", "load", "scan"} => o.todo = {} /\ o.gone = {}
    /\ o.pc \in Loaded => /\ OwnChunks(o.mem.chunks)
                          /\ o.todo \cap o.gone = {}
                          /\ \A p \in o.gone : o.mem.files[p] = Absent
    /\ o.pc \in {"upsert", "prune"} => \A p \in Steady(o) : o.texts[p] = o.mem.files[p]
    /\ o.pc = "prune" => o.pending \subseteq Stale(o)

\* How a call relates to index i, vectors v and unsynced paths u.
Tracks(o, i, v, u) ==
    /\ o.pc \in Loaded => CompleteIn(o.mem.files, u \cup o.todo, v)
    /\ o.pc \in {"collect", "upsert", "prune"} =>
          /\ o.todo \subseteq u
          /\ i # NoIndex => \A p \in Paths : i.files[p] = o.mem.files[p]
    /\ o.pc = "upsert" => \A p \in Steady(o) : IdsOf(p, o.texts[p]) \subseteq v \cup o.pending
    /\ o.pc = "prune" => \A p \in Steady(o) : IdsOf(p, o.texts[p]) \subseteq v

StoresSound(i, v, u) == i # NoIndex => OwnChunks(i.chunks) /\ CompleteIn(i.files, u, v)

SearchInv ==
    /\ StoresSound(idx, vec, unsynced)
    /\ \A c \in Callers : Sound(op[c]) /\ Tracks(op[c], idx, vec, unsynced)

-----------------------------------------------------------------------------
(* Chunk IDs, diffs and the two sets of IDs a call sends.                  *)

LEMMA IdsKeepPath ==
  ASSUME NEW p \in Paths, NEW x, NEW v \in IdsOf(p, x) PROVE v[1] = p
  BY DEF IdsOf

LEMMA DiffIsSplit ==
  ASSUME NEW s, NEW t
  PROVE  /\ ChangedOrNew(s, t) \cap Deleted(s, t) = {}
         /\ \A p \in Deleted(s, t) : t[p] = Absent
  BY DEF ChangedOrNew, Deleted, PathsIn

\* Stale IDs belong to paths the call covers, and spare what it uploads.
LEMMA StaleSpares ==
  ASSUME NEW o \in Op, OwnChunks(o.mem.chunks), o.todo \cap o.gone = {}, NEW p \in Paths
  PROVE  /\ p \notin o.todo \cup o.gone => \A x : IdsOf(p, x) \cap Stale(o) = {}
         /\ p \in o.todo => IdsOf(p, o.texts[p]) \cap Stale(o) = {}
<1>1. o.todo \subseteq Paths /\ o.gone \subseteq Paths
  BY DEF Op
<1>2. ASSUME NEW v \in Stale(o)
      PROVE  v[1] \in o.todo \cup o.gone
             /\ (v[1] \in o.todo => v \notin IdsOf(v[1], o.texts[v[1]]))
  <2>1. CASE \E q \in o.gone : v \in o.mem.chunks[q]
    BY <1>1, <2>1 DEF OwnChunks
  <2>2. CASE \E q \in o.todo : v \in o.mem.chunks[q] \ IdsOf(q, o.texts[q])
    BY <1>1, <2>2 DEF OwnChunks
  <2> QED
    BY <1>2, <2>1, <2>2 DEF Stale
<1> QED
  BY <1>2, IdsKeepPath

\* What is uploaded covers every path to do.
LEMMA UploadedCovers ==
  ASSUME NEW o, NEW p \in o.todo PROVE IdsOf(p, o.texts[p]) \subseteq Uploaded(o)
  BY DEF Uploaded

-----------------------------------------------------------------------------
(* Steps that leave a call as it is, or mark paths of it dirty.            *)

Grown(o, n) == /\ n.pc = o.pc /\ n.kind = o.kind /\ n.mem = o.mem
               /\ n.todo = o.todo /\ n.gone = o.gone
               /\ n.texts = o.texts /\ n.pending = o.pending /\ o.dirty \subseteq n.dirty

LEMMA GrownKeeps ==
  ASSUME NEW o, NEW n, NEW i, NEW v, NEW u, Grown(o, n), Sound(o)
  PROVE  Sound(n) /\ (Tracks(o, i, v, u) => Tracks(n, i, v, u))
<1>1. Stale(n) = Stale(o)
  BY DEF Grown, Stale
<1>2. Steady(n) \subseteq Steady(o)
  BY DEF Grown, Steady
<1>3. Sound(n)
  BY <1>1, <1>2 DEF Grown, Sound
<1>4. Tracks(o, i, v, u) => Tracks(n, i, v, u)
  BY <1>2 DEF Grown, Tracks
<1> QED
  BY <1>3, <1>4

LEMMA IdleSound ==
  ASSUME NEW o, o.pc \in {"idle", "resolve", "namespace", "drop"}, NEW i, NEW v, NEW u
  PROVE  Sound(o) /\ Tracks(o, i, v, u)
  BY DEF Sound, Tracks, Loaded, Past, Steps

-----------------------------------------------------------------------------
(* The steps of a call, up to its first save.                              *)

Good(c) == /\ StoresSound(idx, vec, unsynced)
           /\ Sound(op[c]) /\ Tracks(op[c], idx, vec, unsynced)

LEMMA LockGood == ASSUME TypeOK, NEW c \in Callers, Good(c), LockRepo(c) PROVE Good(c)'
<1> DEFINE o == op[c]
           n == [o EXCEPT !.pc = "load"]
<1>1. o \in Op /\ op \in [Callers -> Op]
  BY DEF TypeOK
<1>2. op'[c] = n /\ UNCHANGED <<idx, vec, unsynced>> /\ o.pc = "lock"
  BY <1>1 DEF LockRepo, Stores, History
<1>3. n.pc = "load" /\ n.kind = o.kind /\ n.todo = o.todo /\ n.gone = o.gone
  BY <1>1 DEF Op
<1> HIDE DEF n
<1> QED
  BY <1>2, <1>3 DEF Good, Sound, Tracks, Loaded, Past, Steps

LEMMA LoadFolderGood == ASSUME TypeOK, NEW c \in Callers, Good(c), LoadFolder(c) PROVE Good(c)'
<1> DEFINE o == op[c]
           m == IF idx = NoIndex THEN EmptyIndex ELSE idx
           n == [o EXCEPT !.pc = "scan", !.found = idx # NoIndex, !.mem = m,
                          !.head = head, !.touched = {}]
<1>1. o \in Op /\ op \in [Callers -> Op]
  BY DEF TypeOK
<1>2. op'[c] = n /\ UNCHANGED <<idx, vec, unsynced>> /\ o.pc = "load"
  BY <1>1 DEF LoadFolder, Continue, Stores, History
<1>3. OwnChunks(m.chunks) /\ CompleteIn(m.files, unsynced, vec)
  BY DEF Good, StoresSound, EmptyIndex, NoChunks, NoFiles, OwnChunks, CompleteIn, PathsIn
<1> HIDE DEF m
<1>4. n.pc = "scan" /\ n.kind = o.kind /\ n.mem = m /\ n.todo = o.todo /\ n.gone = o.gone
  BY <1>1 DEF Op
<1> HIDE DEF n
<1>5. o.todo = {} /\ o.gone = {} /\ o.kind # "invalidate"
  BY <1>2 DEF Good, Sound, Past, Steps
<1>6. Sound(n)
  BY <1>3, <1>4, <1>5 DEF Sound
<1>7. Tracks(n, idx, vec, unsynced)
  BY <1>3, <1>4, <1>5 DEF Tracks
<1> QED
  BY <1>2, <1>6, <1>7 DEF Good

\* A scan leaves the entries outside its change set alone.
LEMMA ScanGood ==
  ASSUME NEW o \in Op, NEW n, NEW t \in Tree, o.pc = "scan", Sound(o),
         Tracks(o, idx, vec, unsynced),
         n.kind = o.kind, n.mem.files = t, n.mem.chunks = o.mem.chunks,
         n.todo = ChangedOrNew(o.mem.files, t), n.gone = Deleted(o.mem.files, t)
  PROVE  /\ n.pc = "save" => Sound(n) /\ Tracks(n, idx, vec, unsynced)
         /\ n.pc = "collect" /\ t = o.mem.files
               /\ (idx # NoIndex => \A p \in Paths : idx.files[p] = t[p])
               => Sound(n) /\ Tracks(n, idx, vec, unsynced)
<1>1. o.mem.files \in Tree
  BY DEF Op, Index
<1>2. n.todo \cap n.gone = {} /\ \A p \in n.gone : n.mem.files[p] = Absent
  BY DiffIsSplit
<1>3. o.kind # "invalidate" /\ OwnChunks(o.mem.chunks) /\ o.todo = {}
  BY DEF Sound, Past, Steps, Loaded
<1>4. n.pc \in {"save", "collect"} => Sound(n)
  BY <1>2, <1>3 DEF Sound
<1>5. CompleteIn(o.mem.files, unsynced, vec)
  BY <1>3 DEF Tracks, Loaded
<1>6. ASSUME NEW p \in PathsIn(t) \ (unsynced \cup n.todo) PROVE IdsOf(p, t[p]) \subseteq vec
  <2>1. p \in Paths /\ t[p] # Absent
    BY DEF PathsIn
  <2>2. t[p] = o.mem.files[p]
    BY <1>1, <1>2, <2>1, <1>6, DiffIsComplete
  <2> QED
    BY <1>5, <1>6, <2>1, <2>2 DEF CompleteIn, PathsIn
<1>7. CompleteIn(n.mem.files, unsynced \cup n.todo, vec)
  BY <1>6 DEF CompleteIn
<1>8. t = o.mem.files => n.todo = {}
  BY DEF ChangedOrNew
<1> QED
  BY <1>4, <1>7, <1>8 DEF Tracks

\* A call that returns: what is left to show is what it did to the stores.
LEMMA ReturnGood ==
  ASSUME TypeOK, NEW c \in Callers, Return(c, "failure") \/ Return(c, "success"),
         StoresSound(idx, vec, unsynced)'
  PROVE  Good(c)'
<1>1. op'[c].pc = "idle"
  BY ReturnsIdle
<1>2. Sound(op'[c]) /\ Tracks(op'[c], idx', vec', unsynced')
  BY <1>1, IdleSound
<1> QED
  BY <1>2 DEF Good

LEMMA ScanChangedGood ==
  ASSUME TypeOK, NEW c \in Callers, Good(c), ScanChanged(c), CopyAgrees PROVE Good(c)'
<1> DEFINE o == op[c]
           t == [p \in Paths |-> IF p \in o.args \cap Readable THEN fs[p] ELSE o.mem.files[p]]
           todo == ChangedOrNew(o.mem.files, t)
           gone == Deleted(o.mem.files, t)
           scanned == [o EXCEPT !.mem.files = t, !.todo = todo, !.gone = gone, !.touched = {}]
<1>1. o \in Op /\ op \in [Callers -> Op] /\ fs \in FileTree
  BY DEF TypeOK, FileTree
<1>2. \/ op'[c] = [scanned EXCEPT !.pc = "save"]
      \/ op'[c] = [scanned EXCEPT !.pc = "collect"] /\ t = o.mem.files
  BY <1>1 DEF ScanChanged, Continue
<1>3. UNCHANGED <<idx, vec, unsynced>> /\ o.pc = "scan" /\ ~Rebuild(o)
  BY DEF ScanChanged, Stores, History, FastPath, Rebuild
<1>4. idx # NoIndex => \A p \in Paths : idx.files[p] = o.mem.files[p]
  BY <1>3 DEF CopyAgrees, Agrees, ChangedBy, KeepsEntries, Loaded
<1>5. t \in Tree
  BY <1>1, ReadableType DEF Op, Index, Tree, Readable
<1> HIDE DEF t
<1>6. /\ DOMAIN scanned = DOMAIN o /\ scanned.kind = o.kind
      /\ scanned.mem.files = t /\ scanned.mem.chunks = o.mem.chunks
      /\ scanned.todo = todo /\ scanned.gone = gone
  BY <1>1 DEF Op, Index
<1> HIDE DEF todo, gone
<1> HIDE DEF scanned
<1>7. DEFINE n(s) == [scanned EXCEPT !.pc = s]
<1>8. \A s : /\ n(s).pc = s /\ n(s).kind = o.kind /\ n(s).mem.files = t
             /\ n(s).mem.chunks = o.mem.chunks /\ n(s).todo = todo /\ n(s).gone = gone
  BY <1>1, <1>6 DEF Op
<1>9. Sound(o) /\ Tracks(o, idx, vec, unsynced)
  BY DEF Good
<1>10. op'[c] = n("save") \/ (op'[c] = n("collect") /\ t = o.mem.files)
  BY <1>2
<1> HIDE DEF n
<1>11. n("save").pc = "save" => Sound(n("save")) /\ Tracks(n("save"), idx, vec, unsynced)
  BY <1>1, <1>3, <1>5, <1>8, <1>9, ScanGood DEF todo, gone
<1>12. t = o.mem.files => Sound(n("collect")) /\ Tracks(n("collect"), idx, vec, unsynced)
  BY <1>1, <1>3, <1>4, <1>5, <1>8, <1>9, ScanGood DEF todo, gone
<1> QED
  BY <1>3, <1>8, <1>10, <1>11, <1>12 DEF Good

LEMMA ScanIncrementalGood ==
  ASSUME TypeOK, NEW c \in Callers, Good(c), ScanIncremental(c) PROVE Good(c)'
<1> DEFINE o == op[c]
           todo == ChangedOrNew(o.mem.files, Discovered)
           gone == Deleted(o.mem.files, Discovered)
           n == [o EXCEPT !.pc = "save", !.mem.files = Discovered, !.mem.head = o.head,
                          !.touched = {}, !.todo = todo, !.gone = gone]
<1>1. o \in Op /\ op \in [Callers -> Op] /\ Discovered \in Tree
  BY DiscoveredType DEF TypeOK, FileTree
<1>2. UNCHANGED <<idx, vec, unsynced>> /\ o.pc = "scan"
  BY DEF ScanIncremental, Stores, History
<1>3. CASE Return(c, "failure") \/ Return(c, "success")
  BY <1>2, <1>3, ReturnGood DEF Good
<1>4. CASE Continue(c, n)
  <2> HIDE DEF todo, gone
  <2>1. /\ n.mem.files = Discovered /\ n.mem.chunks = o.mem.chunks /\ n.kind = o.kind
        /\ n.todo = todo /\ n.gone = gone /\ n.pc = "save"
    BY <1>1 DEF Op, Index
  <2>2. op'[c] = n
    BY <1>1, <1>4 DEF Continue
  <2> HIDE DEF n
  <2>3. Sound(o) /\ Tracks(o, idx, vec, unsynced)
    BY DEF Good
  <2>4. Sound(n) /\ Tracks(n, idx, vec, unsynced)
    BY <1>1, <1>2, <2>1, <2>3, ScanGood DEF todo, gone
  <2> QED
    BY <1>2, <2>2, <2>4 DEF Good
<1> QED
  BY <1>3, <1>4 DEF ScanIncremental

\* A full reindex knows of no chunks and has every file to do.
LEMMA ScanFullGood ==
  ASSUME TypeOK, NEW c \in Callers, Good(c), ScanFull(c) PROVE Good(c)'
<1> DEFINE o == op[c]
           m == [files |-> Discovered, head |-> o.head, chunks |-> NoChunks]
           n == [o EXCEPT !.pc = "save", !.touched = {}, !.mem = m,
                          !.todo = PathsIn(Discovered)]
<1>1. o \in Op /\ op \in [Callers -> Op]
  BY DEF TypeOK
<1>2. UNCHANGED <<idx, vec, unsynced>> /\ o.pc = "scan"
  BY DEF ScanFull, Stores, History
<1>3. CASE Return(c, "failure") \/ Return(c, "success")
  BY <1>2, <1>3, ReturnGood DEF Good
<1>4. CASE Continue(c, n)
  <2>1. m.files = Discovered /\ OwnChunks(m.chunks)
    BY DEF OwnChunks, NoChunks
  <2> HIDE DEF m
  <2>2. n.mem = m /\ n.kind = o.kind /\ n.todo = PathsIn(Discovered) /\ n.gone = o.gone
        /\ n.pc = "save"
    BY <1>1 DEF Op
  <2>3. op'[c] = n
    BY <1>1, <1>4 DEF Continue
  <2> HIDE DEF n
  <2>4. o.gone = {} /\ o.kind # "invalidate"
    BY <1>2 DEF Good, Sound, Past, Steps
  <2>5. Sound(n)
    BY <2>1, <2>2, <2>4 DEF Sound
  <2>6. Tracks(n, idx, vec, unsynced)
    BY <2>1, <2>2 DEF Tracks, CompleteIn
  <2> QED
    BY <1>2, <2>3, <2>5, <2>6 DEF Good
<1> QED
  BY <1>3, <1>4 DEF ScanFull

LEMMA LoadFileGood ==
  ASSUME TypeOK, NEW c \in Callers, Good(c), LoadFile(c) PROVE Good(c)'
<1> DEFINE o == op[c]
           h == IF head = 0 THEN idx.head ELSE head
           m(p) == [idx EXCEPT !.head = h, !.files[p] = fs[p]]
           got(p) == [o EXCEPT !.texts = [NoFiles EXCEPT ![p] = fs[p]], !.found = TRUE,
                               !.mem = m(p), !.head = head, !.touched = {}]
           next(p) == [got(p) EXCEPT !.pc = "save", !.todo = {p}]
<1>1. o \in Op /\ op \in [Callers -> Op] /\ idx \in Index \cup {NoIndex}
  BY SMTT(40) DEF TypeOK
<1>2. PICK p \in Paths :
         \/ Return(c, "failure") /\ idx' = idx
         \/ /\ idx # NoIndex
            /\ \/ Return(c, "success") /\ idx.files[p] = fs[p] /\ idx' \in {idx, got(p).mem}
               \/ Continue(c, next(p)) /\ idx' = idx
  BY DEF LoadFile
<1>3. UNCHANGED <<vec, unsynced>> /\ o.pc = "load"
  BY DEF LoadFile, History
<1>4. /\ got(p).mem = m(p) /\ next(p).mem = m(p) /\ next(p).todo = {p}
      /\ next(p).gone = o.gone /\ next(p).kind = o.kind /\ next(p).pc = "save"
  BY <1>1 DEF Op
<1> HIDE DEF got, next
<1>5. ASSUME idx # NoIndex
      PROVE  /\ m(p).chunks = idx.chunks
             /\ \A x \in Paths : x # p => m(p).files[x] = idx.files[x]
             /\ m(p).files[p] = fs[p]
  BY <1>1, <1>5 DEF Index, Tree
<1> HIDE DEF m
<1>6. idx # NoIndex => OwnChunks(m(p).chunks) /\ CompleteIn(m(p).files, unsynced \cup {p}, vec)
  BY <1>5 DEF Good, StoresSound, CompleteIn, PathsIn
<1>7. idx # NoIndex /\ idx.files[p] = fs[p] => CompleteIn(m(p).files, unsynced, vec)
  BY <1>5 DEF Good, StoresSound, CompleteIn, PathsIn
<1>8. CASE Return(c, "failure") /\ idx' = idx
  BY <1>3, <1>8, ReturnGood DEF Good
<1>9. CASE /\ idx # NoIndex
           /\ Return(c, "success") /\ idx.files[p] = fs[p] /\ idx' \in {idx, got(p).mem}
  <2>1. StoresSound(idx, vec, unsynced)'
    BY <1>3, <1>4, <1>6, <1>7, <1>9 DEF Good, StoresSound
  <2> QED
    BY <1>9, <2>1, ReturnGood
<1>10. CASE idx # NoIndex /\ Continue(c, next(p)) /\ idx' = idx
  <2>1. op'[c] = next(p)
    BY <1>1, <1>10 DEF Continue
  <2>2. o.gone = {} /\ o.kind # "invalidate"
    BY <1>3 DEF Good, Sound, Past, Steps
  <2>3. Sound(next(p))
    BY <1>4, <1>6, <1>10, <2>2 DEF Sound
  <2>4. Tracks(next(p), idx, vec, unsynced)
    BY <1>4, <1>6, <1>10 DEF Tracks
  <2> QED
    BY <1>3, <1>10, <2>1, <2>3, <2>4 DEF Good
<1> QED
  BY <1>2, <1>8, <1>9, <1>10

-----------------------------------------------------------------------------
(* The two saves and the vector requests.                                  *)

LEMMA FirstSaveSound ==
  ASSUME TypeOK, NEW c \in Callers, Good(c), op[c].pc = "save"
  PROVE  /\ StoresSound(FirstSave(op[c]), vec, unsynced \cup op[c].todo)
         /\ FirstSave(op[c]).files = op[c].mem.files
<1> DEFINE o == op[c]
<1>1. o.mem \in Index
  BY DEF TypeOK, Op
<1>2. FirstSave(o).files = o.mem.files /\ FirstSave(o).chunks = o.mem.chunks
  BY <1>1 DEF FirstSave, Index
<1> QED
  BY <1>2 DEF Good, Sound, Tracks, Loaded, StoresSound

LEMMA SecondSaveSound ==
  ASSUME TypeOK, NEW c \in Callers, Good(c), op[c].pc = "prune",
         NEW u \in {unsynced, unsynced \ Steady(op[c])}
  PROVE  StoresSound(SecondSave(op[c]), vec, u)
<1> DEFINE o == op[c]
<1>1. o.mem \in Index
  BY DEF TypeOK, Op
<1>2. SecondSave(o).files = o.mem.files /\ SecondSave(o).chunks = NewChunks(o)
  BY <1>1 DEF SecondSave, Index
<1>3. /\ OwnChunks(o.mem.chunks)
      /\ \A p \in Steady(o) : o.texts[p] = o.mem.files[p] /\ IdsOf(p, o.texts[p]) \subseteq vec
      /\ CompleteIn(o.mem.files, unsynced \cup o.todo, vec) /\ o.todo \subseteq unsynced
  BY DEF Good, Sound, Tracks, Loaded
<1>4. OwnChunks(NewChunks(o))
  BY <1>3, IdsKeepPath DEF OwnChunks, NewChunks
<1>5. ASSUME NEW p \in PathsIn(o.mem.files) \ u PROVE IdsOf(p, o.mem.files[p]) \subseteq vec
  BY <1>3, <1>5 DEF CompleteIn
<1> QED
  BY <1>2, <1>4, <1>5 DEF StoresSound, CompleteIn

LEMMA SaveGood ==
  ASSUME TypeOK, NEW c \in Callers, Good(c), SaveIndex(c) \/ SaveIndexFails(c) PROVE Good(c)'
<1> DEFINE o == op[c]
           n == [o EXCEPT !.pc = "collect"]
<1>1. o \in Op /\ op \in [Callers -> Op] /\ o.pc = "save" /\ vec' = vec
  BY DEF TypeOK, SaveIndex, SaveIndexFails
<1>2. CASE SaveIndexFails(c)
  <2>1. StoresSound(idx, vec, unsynced)'
    BY <1>1, <1>2, FirstSaveSound DEF SaveIndexFails, Good, History
  <2> QED
    BY <1>2, <2>1, ReturnGood DEF SaveIndexFails
<1>3. CASE SaveIndex(c)
  <2>1. idx' = FirstSave(o) /\ unsynced' = unsynced \cup o.todo /\ op'[c] = n
    BY <1>1, <1>3 DEF SaveIndex, Continue
  <2>2. n.pc = "collect" /\ n.mem = o.mem /\ n.todo = o.todo /\ n.gone = o.gone /\ n.kind = o.kind
    BY <1>1 DEF Op
  <2> HIDE DEF n
  <2>3. Sound(n)
    BY <1>1, <2>2 DEF Good, Sound, Loaded, Past, Steps
  <2>4. Tracks(n, idx', vec, unsynced')
    BY <1>1, <2>1, <2>2, FirstSaveSound DEF Good, Tracks, Loaded, CompleteIn
  <2> QED
    BY <1>1, <2>1, <2>3, <2>4, FirstSaveSound DEF Good
<1> QED
  BY <1>2, <1>3

LEMMA CollectGood ==
  ASSUME TypeOK, NEW c \in Callers, Good(c), CollectChunks(c) PROVE Good(c)'
<1> DEFINE o == op[c]
           texts == IF o.kind = "file" THEN o.texts
                    ELSE [p \in Paths |-> IF p \in o.todo THEN fs[p] ELSE Absent]
           read == [o EXCEPT !.texts = texts]
           late == {p \in o.todo : texts[p] # o.mem.files[p]}
           n == [read EXCEPT !.pc = "upsert", !.pending = Uploaded(read),
                             !.dirty = @ \cup late]
<1>1. o \in Op /\ op \in [Callers -> Op]
  BY DEF TypeOK
<1>2. op'[c] = n /\ UNCHANGED <<idx, vec, unsynced>> /\ o.pc = "collect"
  BY <1>1 DEF CollectChunks, Continue, Stores, History
<1>3. \A p \in o.todo \ late : texts[p] = o.mem.files[p]
  OBVIOUS
<1> HIDE DEF texts, late
<1>4. /\ DOMAIN read = DOMAIN o /\ read.texts = texts /\ read.mem = o.mem
      /\ read.kind = o.kind /\ read.todo = o.todo /\ read.gone = o.gone /\ read.dirty = o.dirty
  BY <1>1 DEF Op
<1> HIDE DEF read
<1>5. /\ n.pc = "upsert" /\ n.mem = o.mem /\ n.kind = o.kind /\ n.todo = o.todo
      /\ n.gone = o.gone /\ n.texts = texts /\ n.pending = Uploaded(read)
      /\ n.dirty = o.dirty \cup late
  BY <1>1, <1>4 DEF Op
<1> HIDE DEF n
<1>6. Sound(n)
  BY <1>2, <1>3, <1>5 DEF Good, Sound, Steady, Loaded, Past, Steps
<1>7. \A p \in Steady(n) : IdsOf(p, n.texts[p]) \subseteq n.pending
  BY <1>4, <1>5, UploadedCovers DEF Steady
<1>8. Tracks(n, idx, vec, unsynced)
  BY <1>2, <1>5, <1>7 DEF Good, Tracks, Loaded
<1> QED
  BY <1>2, <1>6, <1>8 DEF Good

LEMMA UpsertGood == ASSUME TypeOK, NEW c \in Callers, Good(c), UpsertBatch(c) PROVE Good(c)'
<1> DEFINE o == op[c]
<1>1. o \in Op /\ op \in [Callers -> Op]
  BY DEF TypeOK
<1>2. PICK b : vec' = vec \cup b /\ op'[c] = [o EXCEPT !.pending = @ \ b]
  BY <1>1 DEF UpsertBatch, Continue
<1>3. UNCHANGED <<idx, unsynced>> /\ o.pc = "upsert"
  BY DEF UpsertBatch, History
<1> DEFINE n == [o EXCEPT !.pending = @ \ b]
<1>4. /\ n.pc = "upsert" /\ n.mem = o.mem /\ n.kind = o.kind /\ n.todo = o.todo
      /\ n.gone = o.gone /\ n.texts = o.texts /\ n.pending = o.pending \ b /\ n.dirty = o.dirty
  BY <1>1, <1>3 DEF Op
<1>5. op'[c] = n
  BY <1>2
<1> HIDE DEF n
<1>6. Sound(n)
  BY <1>3, <1>4 DEF Good, Sound, Steady, Loaded, Past, Steps
<1>7. \A p \in Steady(n) : IdsOf(p, n.texts[p]) \subseteq vec' \cup n.pending
  BY <1>2, <1>3, <1>4 DEF Good, Tracks, Steady
<1>8. Tracks(n, idx, vec', unsynced)
  BY <1>2, <1>3, <1>4, <1>7 DEF Good, Tracks, Loaded, CompleteIn
<1>9. StoresSound(idx, vec', unsynced)
  BY <1>2 DEF Good, StoresSound, CompleteIn
<1> QED
  BY <1>3, <1>5, <1>6, <1>8, <1>9 DEF Good

LEMMA PlanGood == ASSUME TypeOK, NEW c \in Callers, Good(c), PlanPrune(c) PROVE Good(c)'
<1> DEFINE o == op[c]
           n == [o EXCEPT !.pc = "prune", !.pending = Stale(o)]
<1>1. o \in Op /\ op \in [Callers -> Op]
  BY DEF TypeOK
<1>2. op'[c] = n /\ UNCHANGED <<idx, vec, unsynced>> /\ o.pc = "upsert" /\ o.pending = {}
  BY <1>1 DEF PlanPrune, Continue, Stores, History
<1>3. /\ n.pc = "prune" /\ n.mem = o.mem /\ n.kind = o.kind /\ n.todo = o.todo
      /\ n.gone = o.gone /\ n.texts = o.texts /\ n.pending = Stale(o) /\ n.dirty = o.dirty
  BY <1>1 DEF Op
<1> HIDE DEF n
<1>4. Stale(n) = Stale(o) /\ Steady(n) = Steady(o)
  BY <1>3 DEF Stale, Steady
<1>5. Sound(n)
  BY <1>2, <1>3, <1>4 DEF Good, Sound, Loaded, Past, Steps
<1>6. Tracks(n, idx, vec, unsynced)
  BY <1>2, <1>3, <1>4 DEF Good, Tracks, Loaded
<1> QED
  BY <1>2, <1>5, <1>6 DEF Good

\* Taking away stale IDs takes nothing from a file that counts as synced.
LEMMA PruneSpares ==
  ASSUME TypeOK, NEW c \in Callers, Good(c), op[c].pc = "prune", NEW b \in SUBSET Stale(op[c])
  PROVE  /\ StoresSound(idx, vec \ b, unsynced)
         /\ CompleteIn(op[c].mem.files, unsynced \cup op[c].todo, vec \ b)
         /\ \A p \in Steady(op[c]) : IdsOf(p, op[c].texts[p]) \subseteq vec \ b
<1> DEFINE o == op[c]
<1>1. o \in Op /\ o.todo \subseteq Paths
  BY DEF TypeOK, Op
<1>2. /\ OwnChunks(o.mem.chunks) /\ o.todo \cap o.gone = {}
      /\ \A p \in o.gone : o.mem.files[p] = Absent
      /\ o.todo \subseteq unsynced
      /\ idx # NoIndex => \A p \in Paths : idx.files[p] = o.mem.files[p]
  BY DEF Good, Sound, Tracks, Loaded
<1>3. ASSUME NEW p \in Paths, p \notin o.todo \cup o.gone, NEW x, IdsOf(p, x) \subseteq vec
      PROVE  IdsOf(p, x) \subseteq vec \ b
  BY <1>1, <1>2, <1>3, StaleSpares
<1>4. CompleteIn(o.mem.files, unsynced \cup o.todo, vec \ b)
  BY <1>2, <1>3 DEF Good, Tracks, Loaded, CompleteIn, PathsIn
<1>5. StoresSound(idx, vec \ b, unsynced)
  BY <1>2, <1>3 DEF Good, StoresSound, CompleteIn, PathsIn
<1>6. ASSUME NEW p \in Steady(o) PROVE IdsOf(p, o.texts[p]) \subseteq vec \ b
  <2>1. p \in o.todo /\ p \in Paths /\ IdsOf(p, o.texts[p]) \subseteq vec
    BY <1>1 DEF Good, Tracks, Steady
  <2> QED
    BY <1>1, <1>2, <2>1, StaleSpares
<1> QED
  BY <1>4, <1>5, <1>6

LEMMA PruneGood == ASSUME TypeOK, NEW c \in Callers, Good(c), PruneBatch(c) PROVE Good(c)'
<1> DEFINE o == op[c]
<1>1. o \in Op /\ op \in [Callers -> Op] /\ o.pc = "prune"
  BY DEF TypeOK, PruneBatch
<1>2. PICK b \in SUBSET o.pending : vec' = vec \ b /\ op'[c] = [o EXCEPT !.pending = @ \ b]
  BY <1>1 DEF PruneBatch, Batches, Portions, Continue
<1>3. UNCHANGED <<idx, unsynced>>
  BY DEF PruneBatch, History
<1>4. o.pending \subseteq Stale(o)
  BY <1>1 DEF Good, Sound
<1> DEFINE n == [o EXCEPT !.pending = @ \ b]
<1>5. /\ n.pc = "prune" /\ n.mem = o.mem /\ n.kind = o.kind /\ n.todo = o.todo
      /\ n.gone = o.gone /\ n.texts = o.texts /\ n.pending = o.pending \ b /\ n.dirty = o.dirty
  BY <1>1 DEF Op
<1>6. op'[c] = n
  BY <1>2
<1> HIDE DEF n
<1>7. Stale(n) = Stale(o) /\ Steady(n) = Steady(o)
  BY <1>5 DEF Stale, Steady
<1>8. Sound(n)
  BY <1>1, <1>4, <1>5, <1>7 DEF Good, Sound, Loaded, Past, Steps
<1>9. /\ StoresSound(idx, vec', unsynced)
      /\ CompleteIn(o.mem.files, unsynced \cup o.todo, vec')
      /\ \A p \in Steady(o) : IdsOf(p, o.texts[p]) \subseteq vec'
  BY <1>1, <1>2, <1>4, PruneSpares
<1>10. Tracks(n, idx, vec', unsynced)
  BY <1>1, <1>5, <1>7, <1>9 DEF Good, Tracks, Loaded
<1> QED
  BY <1>3, <1>6, <1>8, <1>9, <1>10 DEF Good

LEMMA SyncFailsGood == ASSUME TypeOK, NEW c \in Callers, Good(c), SyncFails(c) PROVE Good(c)'
<1> DEFINE o == op[c]
<1>1. UNCHANGED <<idx, unsynced>> /\ o.pc \in {"upsert", "prune"} /\ Return(c, "success")
  BY DEF SyncFails
<1>2. PICK b \in SUBSET o.pending : vec' = IF o.pc = "upsert" THEN vec \cup b ELSE vec \ b
  <2>1. vec' = vec \/ \E r \in InFlight(o) : vec' = Done(r)
    BY DEF SyncFails
  <2>2. CASE vec' = vec
    <3>1. {} \in SUBSET o.pending /\ vec \cup {} = vec /\ vec \ {} = vec
      OBVIOUS
    <3> QED
      BY <2>2, <3>1
  <2>3. CASE \E r \in InFlight(o) : vec' = Done(r)
    BY <1>1, <2>3, InFlightPortion
  <2> QED
    BY <2>1, <2>2, <2>3
<1>3. CASE o.pc = "upsert"
  <2>1. StoresSound(idx, vec', unsynced)
    BY <1>2, <1>3 DEF Good, StoresSound, CompleteIn
  <2> QED
    BY <1>1, <2>1, ReturnGood
<1>4. CASE o.pc = "prune"
  <2>1. b \subseteq Stale(o) /\ vec' = vec \ b
    BY <1>2, <1>4 DEF Good, Sound
  <2>2. StoresSound(idx, vec', unsynced)
    BY <1>4, <2>1, PruneSpares
  <2> QED
    BY <1>1, <2>2, ReturnGood
<1> QED
  BY <1>1, <1>3, <1>4

LEMMA CommitGood ==
  ASSUME TypeOK, NEW c \in Callers, Good(c), CommitIndex(c) \/ CommitIndexFails(c)
  PROVE  Good(c)'
<1> DEFINE o == op[c]
<1>1. o.pc = "prune" /\ vec' = vec /\ (Return(c, "failure") \/ Return(c, "success"))
  BY DEF CommitIndex, CommitIndexFails
<1>2. \/ idx' = idx /\ unsynced' = unsynced
      \/ idx' = SecondSave(o) /\ unsynced' \in {unsynced, unsynced \ Steady(o)}
  BY DEF CommitIndex, CommitIndexFails, Steady
<1>3. StoresSound(idx, vec, unsynced)'
  BY <1>1, <1>2, SecondSaveSound DEF Good
<1> QED
  BY <1>1, <1>3, ReturnGood

-----------------------------------------------------------------------------
(* All steps together.                                                     *)

PastStep(c) == \/ FolderStep(c) \/ LoadFile(c) \/ SyncStep(c) \/ LoadFails(c)
               \/ SaveIndexFails(c) \/ SyncFails(c) \/ CommitIndexFails(c)

LEMMA PastStepGood ==
  ASSUME TypeOK, CopyAgrees, NEW c \in Callers, Good(c), PastStep(c) PROVE Good(c)'
<1>1. LoadFails(c) \/ CollectFails(c) => Good(c)'
  BY ReturnGood DEF LoadFails, CollectFails, Stores, History, Good
<1> QED
  BY <1>1, LoadFolderGood, ScanChangedGood, ScanIncrementalGood, ScanFullGood, LoadFileGood,
     SaveGood, CollectGood, UpsertGood, PlanGood, PruneGood, SyncFailsGood, CommitGood
  DEF PastStep, FolderStep, SyncStep

\* A step behind the mutex does not disturb the calls that are not.
LEMMA PastStepInv ==
  ASSUME OneProcess, TypeOK, OneReindexPerProcess, CopyAgrees, SearchInv,
         NEW c \in Callers, PastStep(c)
  PROVE  SearchInv'
<1>1. Good(c)
  BY DEF SearchInv, Good
<1>2. Good(c)'
  BY <1>1, PastStepGood, SMTT(40)
<1>3. op[c].pc \in Past
  BY DEF PastStep, FolderStep, SyncStep, LoadFolder, ScanChanged, ScanIncremental, ScanFull,
         LoadFile, SaveIndex, CollectChunks, CollectFails, UpsertBatch, PlanPrune, PruneBatch,
         CommitIndex, LoadFails, SaveIndexFails, SyncFails, CommitIndexFails, Past, Steps
<1>4. \E o : op' = [op EXCEPT ![c] = o]
  BY DEF PastStep, FolderStep, SyncStep, LoadFolder, ScanChanged, ScanIncremental, ScanFull,
         LoadFile, SaveIndex, CollectChunks, CollectFails, UpsertBatch, PlanPrune, PruneBatch,
         CommitIndex, LoadFails, SaveIndexFails, SyncFails, CommitIndexFails, Return, Continue
<1>5. ASSUME NEW d \in Callers, d # c
      PROVE  Sound(op[d])' /\ Tracks(op[d], idx, vec, unsynced)'
  <2>1. op'[d] = op[d]
    BY <1>4, <1>5 DEF TypeOK
  <2>2. op[d].pc \notin Past
    BY <1>3, <1>5, OneHolder
  <2>3. op[d].pc \notin Loaded
    BY <2>2 DEF Past, Loaded, Steps
  <2>4. Sound(op[d]) /\ Tracks(op'[d], idx', vec', unsynced')
    BY <2>1, <2>3 DEF SearchInv, Tracks, Loaded
  <2> QED
    BY <2>1, <2>4 DEF Sound, Tracks
<1> QED
  BY <1>2, <1>5 DEF SearchInv, Good

\* Steps that write no store and leave every other call as it is.
LEMMA CallerStepInv ==
  ASSUME TypeOK, SearchInv, NEW c \in Callers, UNCHANGED <<idx, vec, unsynced>>,
         NEW o, op' = [op EXCEPT ![c] = o], Sound(o), Tracks(o, idx, vec, unsynced)
  PROVE  SearchInv'
<1>1. \A d \in Callers : op'[d] = IF d = c THEN o ELSE op[d]
  BY DEF TypeOK
<1>2. \A d \in Callers : Sound(op'[d]) /\ Tracks(op'[d], idx, vec, unsynced)
  BY <1>1 DEF SearchInv
<1> QED
  BY <1>2 DEF SearchInv

LEMMA LockInv == ASSUME TypeOK, SearchInv, NEW c \in Callers, LockRepo(c) PROVE SearchInv'
<1> DEFINE n == [op[c] EXCEPT !.pc = "load"]
<1>1. op' = [op EXCEPT ![c] = n] /\ op'[c] = n /\ UNCHANGED <<idx, vec, unsynced>>
  BY DEF LockRepo, Stores, History, TypeOK
<1>2. Good(c)'
  BY LockGood DEF SearchInv, Good
<1> HIDE DEF n
<1>3. Sound(n) /\ Tracks(n, idx, vec, unsynced)
  BY <1>1, <1>2 DEF Good
<1> QED
  BY <1>1, <1>3, CallerStepInv

LEMMA StartInv ==
  ASSUME TypeOK, SearchInv, NEW c \in Callers, NEW k, NEW ps, StartCall(c, k, ps)
  PROVE  SearchInv'
<1> DEFINE n == NewCall(k, ps)
<1>1. n.pc = (IF k = "invalidate" THEN "resolve" ELSE "lock") /\ n.kind = k
      /\ n.todo = {} /\ n.gone = {}
  BY DEF NewCall
<1>2. op' = [op EXCEPT ![c] = n] /\ UNCHANGED <<idx, vec, unsynced>>
  BY DEF StartCall, Stores, History
<1> HIDE DEF n
<1>3. Sound(n) /\ Tracks(n, idx, vec, unsynced)
  BY <1>1 DEF Sound, Tracks, Loaded, Past, Steps
<1> QED
  BY <1>2, <1>3, CallerStepInv

\* invalidate_cache: after the namespace is dropped every path is unsynced and every path
\* of a call under way is dirty.
LEMMA OvertakenInv ==
  ASSUME TypeOK, SearchInv, NEW c \in Callers, op[c].pc = "namespace",
         op' = Overtaken(c), vec' = {}, unsynced' = Paths, idx' = idx
  PROVE  SearchInv'
<1>1. StoresSound(idx', vec', unsynced')
  BY DEF SearchInv, StoresSound, CompleteIn, PathsIn
<1>2. ASSUME NEW d \in Callers PROVE Sound(op'[d]) /\ Tracks(op'[d], idx', vec', unsynced')
  <2> DEFINE o == op[d]
  <2>1. o \in Op /\ Sound(o) /\ Tracks(o, idx, vec, unsynced)
    BY DEF TypeOK, SearchInv
  <2>2. CASE d = c
    <3>1. op'[d].pc = "drop"
      BY <2>1, <2>2 DEF Overtaken, Op
    <3> QED
      BY <3>1, IdleSound
  <2>3. CASE d # c /\ ~Reindexing(d)
    <3>1. op'[d] = o
      BY <2>3 DEF Overtaken
    <3>2. o.pc = "idle" \/ o.pc \notin Past \cup {"lock"}
      BY <2>1, <2>3 DEF Reindexing, Running, Sound
    <3> QED
      BY <2>1, <3>1, <3>2, IdleSound DEF Past, Steps, Op
  <2>4. CASE d # c /\ Reindexing(d)
    <3> DEFINE n == [o EXCEPT !.dirty = Paths]
    <3>1. op'[d] = n
      BY <2>4 DEF Overtaken
    <3>2. /\ n.pc = o.pc /\ n.kind = o.kind /\ n.mem = o.mem /\ n.todo = o.todo
          /\ n.gone = o.gone /\ n.texts = o.texts /\ n.pending = o.pending /\ n.dirty = Paths
      BY <2>1 DEF Op
    <3> HIDE DEF n
    <3>3. o.dirty \subseteq Paths /\ o.todo \subseteq Paths
      BY <2>1 DEF Op
    <3>4. Sound(n)
      BY <2>1, <3>2, <3>3, GrownKeeps DEF Grown
    <3>5. Steady(n) = {}
      BY <3>2, <3>3 DEF Steady
    <3>6. Tracks(n, idx', vec', unsynced')
      BY <2>1, <3>2, <3>3, <3>5 DEF Tracks, CompleteIn, PathsIn
    <3> QED
      BY <3>1, <3>4, <3>6
  <2> QED
    BY <2>2, <2>3, <2>4
<1> QED
  BY <1>1, <1>2 DEF SearchInv

\* A late delete: the paths that lose a chunk they need are unsynced from then on, and
\* dirty for the calls under way.  A late upsert only adds.
LEMMA ArriveInv ==
  ASSUME TypeOK, SearchInv, NEW r \in stray, Arrive(r) PROVE SearchInv'
<1> DEFINE late == Losers(r)
           u == unsynced \cup late
<1>1. /\ idx' = idx /\ vec' = Done(r) /\ unsynced' = u /\ op' = Losing(late)
      /\ late \subseteq Paths
  BY DEF Arrive, Losers
<1>2. ASSUME NEW t \in Trees, NEW p \in Paths \ late, IdsOf(p, t[p]) \subseteq vec
      PROVE  IdsOf(p, t[p]) \subseteq vec'
  BY <1>1, <1>2 DEF Losers, Needed
<1>3. ASSUME NEW t \in Trees, NEW w, CompleteIn(t, unsynced \cup w, vec)
      PROVE  CompleteIn(t, u \cup w, vec')
  BY <1>2, <1>3 DEF CompleteIn, PathsIn
<1>4. ASSUME NEW t \in Trees, NEW w, CompleteIn(t, w, vec) PROVE CompleteIn(t, w \cup late, vec')
  BY <1>2, <1>4 DEF CompleteIn, PathsIn
<1> HIDE DEF late
<1>5. StoresSound(idx', vec', unsynced')
  <2>1. idx # NoIndex => idx.files \in Trees
    BY DEF Trees
  <2> QED
    BY <1>1, <1>4, <2>1 DEF SearchInv, StoresSound
<1>6. ASSUME NEW d \in Callers PROVE Sound(op'[d]) /\ Tracks(op'[d], idx', vec', unsynced')
  <2> DEFINE o == op[d]
  <2>1. o \in Op /\ Sound(o) /\ Tracks(o, idx, vec, unsynced)
    BY DEF TypeOK, SearchInv
  <2>2. o.mem.files \in Trees /\ o.texts \in Trees
    BY DEF Trees
  <2>3. CASE ~Reindexing(d)
    <3>1. op'[d] = o
      BY <1>1, <2>3 DEF Losing
    <3>2. o.pc = "idle" \/ o.pc \notin Past \cup {"lock"}
      BY <2>1, <2>3 DEF Reindexing, Running, Sound
    <3> QED
      BY <2>1, <3>1, <3>2, IdleSound DEF Past, Steps, Op
  <2>4. CASE Reindexing(d)
    <3> DEFINE n == [o EXCEPT !.dirty = @ \cup late]
    <3>1. op'[d] = n
      BY <1>1, <2>4 DEF Losing
    <3>2. /\ n.pc = o.pc /\ n.kind = o.kind /\ n.mem = o.mem /\ n.todo = o.todo
          /\ n.gone = o.gone /\ n.texts = o.texts /\ n.pending = o.pending
          /\ n.dirty = o.dirty \cup late
      BY <2>1 DEF Op
    <3> HIDE DEF n
    <3>3. Sound(n)
      BY <2>1, <3>2, GrownKeeps DEF Grown
    <3>4. \A p \in Steady(n) : p \in Steady(o) /\ p \in Paths \ late
      BY <2>1, <3>2 DEF Steady, Op
    <3>5. n.pc \in Loaded => CompleteIn(n.mem.files, unsynced' \cup n.todo, vec')
      BY <1>1, <1>3, <2>1, <2>2, <3>2 DEF Tracks
    <3>6. n.pc = "prune" => \A p \in Steady(n) : IdsOf(p, n.texts[p]) \subseteq vec'
      BY <1>2, <2>1, <2>2, <3>2, <3>4 DEF Tracks
    <3>7. n.pc = "upsert" =>
            \A p \in Steady(n) : IdsOf(p, n.texts[p]) \subseteq vec' \cup n.pending
      <4> SUFFICES ASSUME n.pc = "upsert", NEW p \in Steady(n), NEW x \in IdsOf(p, n.texts[p]),
                          x \in vec
                   PROVE  x \in vec'
        BY <2>1, <3>2, <3>4 DEF Tracks
      <4> QED
        BY <1>1, <2>2, <3>2, <3>4 DEF Losers, Needed, late
    <3>8. Tracks(n, idx', vec', unsynced')
      BY <1>1, <2>1, <3>2, <3>5, <3>6, <3>7 DEF Tracks
    <3> QED
      BY <3>1, <3>3, <3>8
  <2> QED
    BY <2>3, <2>4
<1> QED
  BY <1>5, <1>6 DEF SearchInv

LEMMA InvalidateInv ==
  ASSUME TypeOK, SearchInv, NEW c \in Callers,
         InvalidateStep(c) \/ DropNamespaceFails(c) \/ DeleteIndexFails(c)
  PROVE  SearchInv'
<1> DEFINE n(s) == [op[c] EXCEPT !.pc = s]
           r(x) == [Idle EXCEPT !.result = x]
<1>1. op[c] \in Op
  BY DEF TypeOK
<1>2. n("namespace").pc = "namespace" /\ n("drop").pc = "drop"
      /\ r("failure").pc = "idle" /\ r("success").pc = "idle"
  BY <1>1 DEF Op, Idle, NewCall
<1>3. CASE vec' = {} /\ op' = Overtaken(c) /\ unsynced' = Paths /\ idx' = idx
           /\ op[c].pc = "namespace"
  BY <1>3, OvertakenInv
<1>4. CASE DeleteIndex(c)
  <2>1. op' = [op EXCEPT ![c] = r("success")] /\ idx' = NoIndex /\ UNCHANGED <<vec, unsynced>>
    BY <1>4 DEF DeleteIndex, Return
  <2> HIDE DEF r
  <2>2. ASSUME NEW d \in Callers PROVE Sound(op'[d]) /\ Tracks(op'[d], idx', vec', unsynced')
    <3>1. Sound(op[d]) /\ Tracks(op[d], NoIndex, vec, unsynced)
      BY DEF SearchInv, Tracks
    <3>2. op'[d] = IF d = c THEN r("success") ELSE op[d]
      BY <2>1 DEF TypeOK
    <3> QED
      BY <1>2, <2>1, <3>1, <3>2, IdleSound
  <2> QED
    BY <2>1, <2>2 DEF SearchInv, StoresSound
<1>5. CASE /\ UNCHANGED <<idx, vec, unsynced>>
           /\ \E o \in {n("namespace"), n("drop"), r("failure"), r("success")} :
                 op' = [op EXCEPT ![c] = o]
  <2> HIDE DEF n, r
  <2>1. PICK o \in {n("namespace"), n("drop"), r("failure"), r("success")} :
           op' = [op EXCEPT ![c] = o]
    BY <1>5
  <2>2. Sound(o) /\ Tracks(o, idx, vec, unsynced)
    BY <1>2, <2>1, IdleSound
  <2> QED
    BY <1>5, <2>1, <2>2, CallerStepInv
<1> QED
  BY <1>3, <1>4, <1>5 DEF InvalidateStep, ResolveRepo, DropNamespace, DropNamespaceFails,
                          DeleteIndexFails, Return, Continue, Stores, History

LEMMA OutsideInv ==
  ASSUME TypeOK, SearchInv,
         \/ GitCommit \/ UNCHANGED vars \/ \E c \in Callers : AttemptTimesOut(c)
         \/ \E p \in Paths, x \in Contents \cup {Absent, Unreadable} : EditFile(p, x)
         \/ \E q \in Processes : Crash(q)
  PROVE  SearchInv'
<1>1. UNCHANGED <<idx, vec, unsynced>>
  BY DEF GitCommit, vars, AttemptTimesOut, EditFile, Crash, Stores, History
<1>2. ASSUME NEW c \in Callers PROVE Sound(op'[c]) /\ Tracks(op'[c], idx, vec, unsynced)
  <2> DEFINE o == op[c]
  <2>1. o \in Op /\ Sound(o) /\ Tracks(o, idx, vec, unsynced)
    BY DEF TypeOK, SearchInv
  <2>2. CASE op'[c] = o
    BY <2>1, <2>2
  <2>3. ASSUME NEW p, op'[c] = [o EXCEPT !.touched = @ \cup {p}]
        PROVE  Sound(op'[c]) /\ Tracks(op'[c], idx, vec, unsynced)
    BY <2>1, <2>3, GrownKeeps DEF Grown, Op
  <2>4. CASE op'[c] = Idle
    BY <2>4, IdleSound DEF Idle, NewCall
  <2>5. GitCommit \/ UNCHANGED vars \/ (\E d \in Callers : AttemptTimesOut(d)) => op'[c] = o
    BY DEF GitCommit, AttemptTimesOut, vars
  <2>6. \A p, x : EditFile(p, x) => op'[c] = o \/ op'[c] = [o EXCEPT !.touched = @ \cup {p}]
    BY DEF EditFile
  <2>7. \A q : Crash(q) => op'[c] = o \/ op'[c] = Idle
    BY DEF Crash
  <2> QED
    BY <2>2, <2>3, <2>4, <2>5, <2>6, <2>7
<1> QED
  BY <1>1, <1>2 DEF SearchInv

LEMMA SearchNext ==
  ASSUME OneProcess, TypeOK, OneReindexPerProcess, CopyAgrees, SearchInv, [Next]_vars
  PROVE  SearchInv'
  BY PastStepInv, LockInv, StartInv, InvalidateInv, OutsideInv, ArriveInv
  DEF Next, Step, Fault, PastStep

LEMMA SearchInit == Init => SearchInv
<1> SUFFICES ASSUME Init PROVE SearchInv
  OBVIOUS
<1>1. Idle.pc = "idle"
  BY DEF Idle, NewCall
<1>2. \A c \in Callers : op[c].pc = "idle"
  BY <1>1 DEF Init
<1> QED
  BY <1>2, IdleSound DEF Init, SearchInv, StoresSound

\* In one server process semantic search finds every indexed file whose last sync was
\* neither cut off nor overtaken and none of whose chunks a late delete took since: uploads,
\* prunes of chunks shared by two versions, failed, repeated and late requests, crashes and
\* invalidations never take a vector from such a file.
THEOREM SearchStaysComplete == ASSUME OneProcess PROVE Spec => []SearchComplete
<1>1. TypeOK /\ OneReindexPerProcess /\ CopyAgrees /\ SearchInv /\ [Next]_vars => SearchInv'
  BY SearchNext
<1>2. SearchInv => SearchComplete
  BY DEF SearchInv, StoresSound, CompleteIn, SearchComplete
<1>3. Spec => []CopyAgrees
  BY CopyAlways
<1> QED
  BY <1>1, <1>2, <1>3, SearchInit, TypeCorrect, Serialised, PTL DEF Spec
-----------------------------------------------------------------------------
(* Vectors that nothing tracks.  A call hands the vectors it uploads over   *)
(* to the chunk map of its last save, or to the record of what was leaked.  *)

\* The vectors a call has to account for: those it may have uploaded.
Sent(o) == IF o.pc \in {"upsert", "prune"} THEN Uploaded(o) ELSE {}

Tracked == vec \subseteq Known(idx) \cup leaked \cup UNION {Sent(op[c]) : c \in Callers}

\* What a call knows of the index i, the vectors v and the leaked ones l: the chunk map it
\* works from is the persisted one, it uploads what it will record, and what it pruned is
\* gone unless a late upsert brought it back.
Carries(o, i, v, l) ==
    /\ o.pc \in {"collect", "upsert", "prune"} => i = NoIndex \/ i.chunks = o.mem.chunks
    /\ o.pc = "upsert" => o.pending \subseteq Uploaded(o)
    /\ o.pc = "prune" => v \cap (Stale(o) \ o.pending) \subseteq l

OrphanInv == Tracked /\ \A c \in Callers : Carries(op[c], idx, vec, leaked)

\* What accounts for a vector, without the other calls.
Own(c) == Known(idx) \cup leaked \cup Sent(op[c])

\* A step of call c that loses track of no vector.
HandsOn(c) == /\ vec' \cap Own(c) \subseteq Own(c)' /\ vec' \ vec \subseteq Own(c)'
              /\ Carries(op[c], idx, vec, leaked)'

LEMMA SaveChunks ==
  ASSUME NEW o \in Op
  PROVE  /\ FirstSave(o).chunks = o.mem.chunks /\ SecondSave(o).chunks = NewChunks(o)
         /\ FirstSave(o) # NoIndex /\ SecondSave(o) # NoIndex
<1>1. o.mem \in Index
  BY DEF Op
<1> QED
  BY <1>1, SavesType, NoIndexAssumption DEF FirstSave, SecondSave, Index

\* The steps before anything is uploaded, and those that give up there.
LEMMA QuietHands ==
  ASSUME NEW c \in Callers, op[c].pc \in {"load", "scan", "save"}, vec' = vec,
         leaked \subseteq leaked', Known(idx) \subseteq Known(idx') \cup leaked',
         \/ op'[c].pc \in {"idle", "scan", "save"}
         \/ op'[c].pc = "collect" /\ (idx' = NoIndex \/ idx'.chunks = op'[c].mem.chunks)
  PROVE  HandsOn(c)
<1>1. Sent(op[c]) = {} /\ Sent(op'[c]) = {}
  BY DEF Sent
<1>2. Carries(op'[c], idx', vec', leaked')
  BY DEF Carries
<1> QED
  BY <1>1, <1>2 DEF HandsOn, Own

LEMMA ReturnHands ==
  ASSUME TypeOK, NEW c \in Callers, Return(c, "failure") \/ Return(c, "success"),
         vec' \subseteq vec \cup Own(c), leaked \subseteq leaked',
         vec' \cap (Known(idx) \cup Sent(op[c])) \subseteq Known(idx') \cup leaked'
  PROVE  HandsOn(c)
<1>1. op'[c].pc = "idle"
  BY ReturnsIdle
<1>2. Sent(op'[c]) = {} /\ Carries(op'[c], idx', vec', leaked')
  BY <1>1 DEF Sent, Carries
<1> QED
  BY <1>2 DEF HandsOn, Own

LEMMA FolderHands ==
  ASSUME TypeOK, CopyAgrees, NEW c \in Callers, FolderStep(c) \/ LoadFails(c)
  PROVE  HandsOn(c)
<1> DEFINE o == op[c]
<1>1. o \in Op /\ op \in [Callers -> Op] /\ idx \in Index \cup {NoIndex}
  BY DEF TypeOK
<1>2. UNCHANGED <<idx, vec, leaked>> /\ o.pc \in {"load", "scan"}
  BY DEF FolderStep, LoadFolder, ScanChanged, ScanIncremental, ScanFull, LoadFails, Stores, History
<1>3. CASE Return(c, "failure") \/ Return(c, "success")
  BY <1>2, <1>3, ReturnsIdle, QuietHands
<1>4. ASSUME NEW n, n.pc = "save", Continue(c, n) PROVE HandsOn(c)
  <2>1. op'[c] = n
    BY <1>1, <1>4 DEF Continue
  <2> QED
    BY <1>2, <1>4, <2>1, QuietHands
<1>5. CASE LoadFolder(c)
  <2>1. op'[c].pc = "scan"
    BY <1>1, <1>5 DEF LoadFolder, Continue, Op
  <2> QED
    BY <1>2, <2>1, QuietHands
<1>6. CASE ScanIncremental(c)
  <2> DEFINE n == [o EXCEPT !.pc = "save", !.mem.files = Discovered, !.mem.head = o.head,
                            !.touched = {}, !.todo = ChangedOrNew(o.mem.files, Discovered),
                            !.gone = Deleted(o.mem.files, Discovered)]
  <2>1. Return(c, "failure") \/ Return(c, "success") \/ Continue(c, n)
    BY <1>6 DEF ScanIncremental
  <2>2. n.pc = "save"
    BY <1>1 DEF Op
  <2> HIDE DEF n
  <2> QED
    BY <1>3, <1>4, <2>1, <2>2
<1>7. CASE ScanFull(c)
  <2> DEFINE n == [o EXCEPT !.pc = "save", !.touched = {},
                            !.mem = [files |-> Discovered, head |-> o.head, chunks |-> NoChunks],
                            !.todo = PathsIn(Discovered)]
  <2>1. Return(c, "failure") \/ Continue(c, n)
    BY <1>7 DEF ScanFull
  <2>2. n.pc = "save"
    BY <1>1 DEF Op
  <2> HIDE DEF n
  <2> QED
    BY <1>3, <1>4, <2>1, <2>2
<1>8. CASE ScanChanged(c)
  <2> DEFINE t == [p \in Paths |-> IF p \in o.args \cap Readable THEN fs[p] ELSE o.mem.files[p]]
             scanned == [o EXCEPT !.mem.files = t, !.todo = ChangedOrNew(o.mem.files, t),
                                  !.gone = Deleted(o.mem.files, t), !.touched = {}]
  <2>1. /\ op'[c] \in {[scanned EXCEPT !.pc = "save"], [scanned EXCEPT !.pc = "collect"]}
        /\ o.pc = "scan" /\ ~Rebuild(o)
    BY <1>1, <1>8 DEF ScanChanged, Continue, FastPath, Rebuild
  <2> HIDE DEF t
  <2>2. DOMAIN scanned = DOMAIN o /\ scanned.mem.chunks = o.mem.chunks
    BY <1>1 DEF Op, Index
  <2> HIDE DEF scanned
  <2>3. op'[c].pc \in {"save", "collect"} /\ op'[c].mem.chunks = o.mem.chunks
    BY <1>1, <2>1, <2>2 DEF Op
  <2>4. idx = NoIndex \/ idx.chunks = o.mem.chunks
    <3>1. idx # NoIndex => \A p \in Paths : o.mem.chunks[p] = idx.chunks[p]
      BY <2>1 DEF CopyAgrees, Agrees, ChangedBy, KeepsEntries, Loaded
    <3>2. o.mem.chunks \in ChunkMap /\ (idx # NoIndex => idx.chunks \in ChunkMap)
      BY <1>1 DEF Op, Index
    <3> QED
      BY <3>1, <3>2 DEF ChunkMap
  <2> QED
    BY <1>2, <2>3, <2>4, QuietHands
<1>9. CASE LoadFails(c)
  BY <1>3, <1>9 DEF LoadFails
<1> QED
  BY <1>5, <1>6, <1>7, <1>8, <1>9 DEF FolderStep

LEMMA LoadFileHands ==
  ASSUME TypeOK, NEW c \in Callers, LoadFile(c)
  PROVE  HandsOn(c)
<1> DEFINE o == op[c]
           h == IF head = 0 THEN idx.head ELSE head
           m(p) == [idx EXCEPT !.head = h, !.files[p] = fs[p]]
           got(p) == [o EXCEPT !.texts = [NoFiles EXCEPT ![p] = fs[p]], !.found = TRUE,
                               !.mem = m(p), !.head = head, !.touched = {}]
           next(p) == [got(p) EXCEPT !.pc = "save", !.todo = {p}]
<1>1. o \in Op /\ op \in [Callers -> Op] /\ idx \in Index \cup {NoIndex}
  BY DEF TypeOK
<1>2. PICK p \in Paths :
         \/ Return(c, "failure") /\ idx' = idx
         \/ /\ fs[p] \in Contents /\ idx # NoIndex
            /\ \/ Return(c, "success") /\ idx' \in {idx, got(p).mem}
               \/ Continue(c, next(p)) /\ idx' = idx
  BY DEF LoadFile
<1>3. got(p).mem = m(p) /\ next(p).pc = "save"
  BY <1>1 DEF Op
<1>4. UNCHANGED <<vec, leaked>> /\ o.pc = "load"
  BY DEF LoadFile, History
<1> HIDE DEF got, next
<1>5. idx # NoIndex /\ fs[p] \in Contents => m(p).chunks = idx.chunks /\ m(p) # NoIndex
  <2>1. idx # NoIndex => m(p).chunks = idx.chunks
    BY <1>1 DEF Index
  <2>2. idx # NoIndex /\ fs[p] \in Contents => m(p) \in Index
    <3>1. h \in Nat \/ idx = NoIndex
      BY <1>1 DEF TypeOK, Index
    <3> QED
      BY <1>1, <3>1 DEF Index, Tree
  <2> QED
    BY <2>1, <2>2, NoIndexAssumption
<1> HIDE DEF m
<1>6. Known(idx) \subseteq Known(idx')
  BY <1>2, <1>3, <1>5 DEF Known
<1>7. op'[c].pc \in {"idle", "save"}
  <2>1. Continue(c, next(p)) => op'[c] = next(p)
    BY <1>1 DEF Continue
  <2> QED
    BY <1>2, <1>3, <2>1, ReturnsIdle
<1> QED
  BY <1>4, <1>6, <1>7, QuietHands, SMTT(40)

\* The first save: what it drops from the chunk map is recorded.
LEMMA SaveHands ==
  ASSUME TypeOK, NEW c \in Callers, SaveIndex(c) \/ SaveIndexFails(c)
  PROVE  HandsOn(c)
<1> DEFINE o == op[c]
<1>1. o \in Op /\ op \in [Callers -> Op]
  BY DEF TypeOK
<1>2. /\ o.pc = "save" /\ vec' = vec
      /\ \/ UNCHANGED <<idx, leaked>>
         \/ idx' = FirstSave(o) /\ leaked' = leaked \cup Forgotten(idx, FirstSave(o))
  BY DEF SaveIndex, SaveIndexFails, History
<1>3. leaked \subseteq leaked' /\ Known(idx) \subseteq Known(idx') \cup leaked'
  BY <1>2 DEF Forgotten
<1>4. CASE SaveIndex(c)
  <2>1. op'[c] = [o EXCEPT !.pc = "collect"] /\ idx' = FirstSave(o)
    BY <1>1, <1>4 DEF SaveIndex, Continue
  <2>2. op'[c].pc = "collect" /\ op'[c].mem = o.mem
    BY <1>1, <2>1 DEF Op
  <2> QED
    BY <1>1, <1>2, <1>3, <2>1, <2>2, SaveChunks, QuietHands
<1>5. CASE SaveIndexFails(c)
  BY <1>2, <1>3, <1>5, ReturnsIdle, QuietHands DEF SaveIndexFails
<1> QED
  BY <1>4, <1>5

\* The steps of the synchronisation that neither save nor return.
LEMMA SyncHands ==
  ASSUME TypeOK, NEW c \in Callers, Carries(op[c], idx, vec, leaked), SyncOnly(c)
  PROVE  HandsOn(c)
<1> DEFINE o == op[c]
           n == op'[c]
<1>1. o \in Op /\ op \in [Callers -> Op]
  BY DEF TypeOK
<1>2. UNCHANGED <<idx, leaked>> /\ o.pc \in {"collect", "upsert", "prune"}
  BY DEF SyncOnly, CollectChunks, UpsertBatch, PlanPrune, PruneBatch, Stores, History
<1>3. n.mem = o.mem /\ n.todo = o.todo /\ n.gone = o.gone
  BY SyncKeepsCopy DEF SameCopy
<1>4. idx' = NoIndex \/ idx'.chunks = n.mem.chunks
  BY <1>2, <1>3 DEF Carries
<1>5. CASE CollectChunks(c)
  <2> DEFINE texts == IF o.kind = "file" THEN o.texts
                      ELSE [p \in Paths |-> IF p \in o.todo THEN fs[p] ELSE Absent]
             read == [o EXCEPT !.texts = texts]
             late == {p \in o.todo : texts[p] # o.mem.files[p]}
  <2>1. /\ n = [read EXCEPT !.pc = "upsert", !.pending = Uploaded(read), !.dirty = @ \cup late]
        /\ o.pc = "collect" /\ vec' = vec
    BY <1>1, <1>5 DEF CollectChunks, Continue, Stores
  <2> HIDE DEF texts, late
  <2>2. DOMAIN read = DOMAIN o /\ read.texts = texts /\ read.todo = o.todo
    BY <1>1 DEF Op
  <2> HIDE DEF read
  <2>3. n.pc = "upsert" /\ n.pending = Uploaded(read) /\ n.texts = read.texts
    BY <1>1, <2>1, <2>2 DEF Op
  <2>4. Uploaded(n) = Uploaded(read)
    BY <1>3, <2>2, <2>3 DEF Uploaded
  <2>5. Carries(n, idx', vec', leaked')
    BY <1>4, <2>3, <2>4 DEF Carries
  <2>6. Sent(o) = {}
    BY <2>1 DEF Sent
  <2> QED
    BY <1>2, <2>1, <2>5, <2>6 DEF HandsOn, Own
<1>6. ASSUME n.pc \in {"upsert", "prune"}, o.pc \in {"upsert", "prune"}, n.texts = o.texts
      PROVE  /\ Uploaded(n) = Uploaded(o) /\ Stale(n) = Stale(o)
             /\ Sent(n) = Uploaded(o) /\ Sent(o) = Uploaded(o)
  <2>1. Uploaded(n) = Uploaded(o) /\ Stale(n) = Stale(o)
    BY <1>3, <1>6 DEF Uploaded, Stale
  <2> QED
    BY <1>6, <2>1 DEF Sent
<1>7. CASE UpsertBatch(c)
  <2>1. PICK b \in SUBSET o.pending : vec' = vec \cup b /\ n = [o EXCEPT !.pending = @ \ b]
    BY <1>1, <1>7 DEF UpsertBatch, Batches, Portions, Continue
  <2>2. n.pc = "upsert" /\ o.pc = "upsert" /\ n.pending = o.pending \ b /\ n.texts = o.texts
    BY <1>1, <1>7, <2>1 DEF UpsertBatch, Op
  <2>3. Carries(n, idx', vec', leaked') /\ b \subseteq Uploaded(o)
    BY <1>4, <1>6, <2>1, <2>2 DEF Carries
  <2> QED
    BY <1>2, <1>6, <2>1, <2>2, <2>3 DEF HandsOn, Own
<1>8. CASE PlanPrune(c)
  <2>1. /\ n = [o EXCEPT !.pc = "prune", !.pending = Stale(o)] /\ vec' = vec /\ o.pc = "upsert"
    BY <1>1, <1>8 DEF PlanPrune, Continue, Stores
  <2>2. n.pc = "prune" /\ n.pending = Stale(o) /\ n.texts = o.texts
    BY <1>1, <2>1 DEF Op
  <2>3. Carries(n, idx', vec', leaked')
    BY <1>4, <1>6, <2>1, <2>2 DEF Carries
  <2> QED
    BY <1>2, <1>6, <2>1, <2>2, <2>3 DEF HandsOn, Own
<1>9. CASE PruneBatch(c)
  <2>1. PICK b : vec' = vec \ b /\ n = [o EXCEPT !.pending = @ \ b]
    BY <1>1, <1>9 DEF PruneBatch, Continue
  <2>2. n.pc = "prune" /\ o.pc = "prune" /\ n.pending = o.pending \ b /\ n.texts = o.texts
    BY <1>1, <1>9, <2>1 DEF PruneBatch, Op
  <2>3. Carries(n, idx', vec', leaked')
    BY <1>2, <1>4, <1>6, <2>1, <2>2 DEF Carries
  <2> QED
    BY <1>2, <1>6, <2>1, <2>2, <2>3 DEF HandsOn, Own
<1> HIDE DEF n
<1> QED
  BY <1>5, <1>7, <1>8, <1>9 DEF SyncOnly

\* The vectors of the old chunk map that the last save does not record were pruned.
LEMMA NothingDropped ==
  ASSUME NEW o \in Op, NEW v, v \cap Stale(o) = {}
  PROVE  v \cap AllIds(o.mem.chunks) \subseteq AllIds(NewChunks(o))
<1> SUFFICES ASSUME NEW x \in v, NEW p \in Paths, x \in o.mem.chunks[p]
             PROVE  x \in NewChunks(o)[p]
  BY DEF AllIds
<1>1. x \notin Stale(o)
  OBVIOUS
<1>2. p \notin o.gone /\ (p \in o.todo => x \in IdsOf(p, o.texts[p]))
  BY <1>1 DEF Stale
<1> QED
  BY <1>2 DEF NewChunks

LEMMA UploadedRecorded ==
  ASSUME NEW o \in Op
  PROVE  Uploaded(o) \subseteq AllIds(NewChunks(o))
<1>1. o.todo \subseteq Paths
  BY DEF Op
<1> QED
  BY <1>1 DEF Uploaded, AllIds, NewChunks

LEMMA EndHands ==
  ASSUME TypeOK, NEW c \in Callers, Carries(op[c], idx, vec, leaked),
         CommitIndex(c) \/ CommitIndexFails(c) \/ SyncFails(c) \/ CollectFails(c)
  PROVE  HandsOn(c)
<1> DEFINE o == op[c]
<1>1. o \in Op /\ op \in [Callers -> Op]
  BY DEF TypeOK
<1>7. CASE CollectFails(c)
  <2>1. UNCHANGED <<idx, vec, leaked>> /\ o.pc = "collect" /\ Return(c, "success")
    BY <1>7 DEF CollectFails, Stores, History
  <2> QED
    BY <2>1, ReturnHands DEF Sent
<1> SUFFICES ASSUME ~CollectFails(c) PROVE HandsOn(c)
  BY <1>7
<1>2. /\ Return(c, "failure") \/ Return(c, "success")
      /\ o.pc \in {"upsert", "prune"}
  BY DEF CommitIndex, CommitIndexFails, SyncFails
<1>3. Sent(o) = Uploaded(o)
  BY <1>2 DEF Sent
<1>4. CASE idx' = idx /\ leaked' = leaked \cup (Uploaded(o) \ Known(idx)) /\ vec' \subseteq vec \cup Uploaded(o)
  BY <1>2, <1>3, <1>4, ReturnHands DEF Own
<1>5. CASE /\ idx' = SecondSave(o) /\ UNCHANGED <<vec, leaked>> /\ o.pc = "prune" /\ o.pending = {}
  <2>1. (vec \ leaked) \cap Stale(o) = {} /\ (idx = NoIndex \/ idx.chunks = o.mem.chunks)
    BY <1>5 DEF Carries
  <2>2. Known(idx') = AllIds(NewChunks(o))
    BY <1>1, <1>5, SaveChunks DEF Known
  <2>3. (vec \ leaked) \cap Known(idx) \subseteq Known(idx')
    BY <1>1, <2>1, <2>2, NothingDropped DEF Known
  <2>4. Uploaded(o) \subseteq Known(idx')
    BY <1>1, <2>2, UploadedRecorded
  <2> QED
    BY <1>2, <1>3, <1>5, <2>3, <2>4, ReturnHands
<1>6. CASE SyncFails(c)
  <2>1. vec' = vec \/ \E r \in InFlight(o) : vec' = Done(r)
    BY <1>6 DEF SyncFails
  <2>2. ASSUME NEW r \in InFlight(o), vec' = Done(r) PROVE vec' \subseteq vec \cup Uploaded(o)
    BY <1>2, <2>2, InFlightPortion, ZenonT(60) DEF Carries
  <2> QED
    BY <1>4, <1>6, <2>1, <2>2 DEF SyncFails
<1> QED
  BY <1>4, <1>5, <1>6 DEF CommitIndex, CommitIndexFails

LEMMA PastHands ==
  ASSUME TypeOK, CopyAgrees, NEW c \in Callers, Carries(op[c], idx, vec, leaked), PastStep(c)
  PROVE  HandsOn(c)
BY FolderHands, LoadFileHands, SaveHands, SyncHands, EndHands DEF PastStep, SyncStep, SyncOnly

\* A step behind the mutex does not disturb the calls that are not.
LEMMA PastStepTracks ==
  ASSUME OneProcess, TypeOK, OneReindexPerProcess, CopyAgrees, OrphanInv,
         NEW c \in Callers, PastStep(c)
  PROVE  OrphanInv'
<1>1. HandsOn(c)
  BY PastHands DEF OrphanInv
<1>2. op[c].pc \in Past
  BY DEF PastStep, FolderStep, SyncStep, LoadFolder, ScanChanged, ScanIncremental, ScanFull,
         LoadFile, SaveIndex, CollectChunks, CollectFails, UpsertBatch, PlanPrune, PruneBatch,
         CommitIndex, LoadFails, SaveIndexFails, SyncFails, CommitIndexFails, Past, Steps
<1>3. \E o : op' = [op EXCEPT ![c] = o]
  BY DEF PastStep, FolderStep, SyncStep, LoadFolder, ScanChanged, ScanIncremental, ScanFull,
         LoadFile, SaveIndex, CollectChunks, CollectFails, UpsertBatch, PlanPrune, PruneBatch,
         CommitIndex, LoadFails, SaveIndexFails, SyncFails, CommitIndexFails, Return, Continue
<1>4. ASSUME NEW d \in Callers, d # c
      PROVE  Sent(op[d]) = {} /\ Carries(op'[d], idx', vec', leaked')
  <2>1. op'[d] = op[d]
    BY <1>3, <1>4 DEF TypeOK
  <2>2. op[d].pc \notin Past
    BY <1>2, <1>4, OneHolder
  <2> QED
    BY <2>1, <2>2 DEF Sent, Carries, Past, Steps
<1>5. Tracked'
  <2>1. ASSUME NEW x \in vec' PROVE x \in Own(c)'
    <3>1. CASE x \in vec
      <4>1. x \in Known(idx) \cup leaked \/ \E d \in Callers : x \in Sent(op[d])
        BY <3>1 DEF OrphanInv, Tracked
      <4>2. x \in Own(c)
        BY <1>4, <4>1 DEF Own
      <4> QED
        BY <1>1, <2>1, <4>2 DEF HandsOn
    <3>2. CASE x \notin vec
      BY <1>1, <2>1, <3>2 DEF HandsOn
    <3> QED
      BY <3>1, <3>2
  <2> QED
    BY <2>1 DEF Tracked, Own
<1>6. \A d \in Callers : Carries(op'[d], idx', vec', leaked')
  BY <1>1, <1>4 DEF HandsOn
<1> QED
  BY <1>5, <1>6 DEF OrphanInv

\* Steps that upload nothing: the calls that go on are at the same work, the vectors of the
\* others are accounted for.
SameWork(o, n) == /\ n.pc = o.pc /\ n.mem = o.mem /\ n.todo = o.todo /\ n.gone = o.gone
                  /\ n.texts = o.texts /\ n.pending = o.pending
Quiet(n) == n.pc \notin {"collect", "upsert", "prune"}

LEMMA OutsideTracks ==
  ASSUME OrphanInv, idx' \in {idx, NoIndex}, vec' \subseteq vec \cup leaked',
         leaked \subseteq leaked',
         vec' \cap Known(idx) \subseteq Known(idx') \cup leaked',
         \A c \in Callers : \/ SameWork(op[c], op'[c])
                            \/ Quiet(op'[c]) /\ Sent(op[c]) \subseteq Known(idx') \cup leaked'
  PROVE  OrphanInv'
<1>1. ASSUME NEW c \in Callers
      PROVE  /\ Carries(op'[c], idx', vec', leaked')
             /\ vec' \cap Sent(op[c]) \subseteq Known(idx') \cup leaked' \cup Sent(op'[c])
  <2>1. Carries(op[c], idx, vec, leaked)
    BY DEF OrphanInv
  <2>2. CASE SameWork(op[c], op'[c])
    <3>1. Uploaded(op'[c]) = Uploaded(op[c]) /\ Stale(op'[c]) = Stale(op[c])
      BY <2>2 DEF SameWork, Uploaded, Stale
    <3>2. Sent(op'[c]) = Sent(op[c])
      BY <2>2, <3>1 DEF SameWork, Sent
    <3> QED
      BY <2>1, <2>2, <3>1, <3>2 DEF SameWork, Carries
  <2>3. CASE Quiet(op'[c]) /\ Sent(op[c]) \subseteq Known(idx') \cup leaked'
    BY <2>3 DEF Quiet, Carries
  <2> QED
    BY <2>2, <2>3
<1>2. Tracked'
  <2> SUFFICES ASSUME NEW x \in vec'
               PROVE  \/ x \in Known(idx') \cup leaked'
                      \/ \E c \in Callers : x \in Sent(op'[c])
    BY DEF Tracked
  <2>1. CASE x \in leaked'
    BY <2>1
  <2>2. CASE x \in vec \ leaked'
    <3>1. x \in Known(idx) \cup leaked \/ \E c \in Callers : x \in Sent(op[c])
      BY <2>2 DEF OrphanInv, Tracked
    <3> QED
      BY <1>1, <2>2, <3>1
  <2> QED
    BY <2>1, <2>2
<1> QED
  BY <1>1, <1>2 DEF OrphanInv

LEMMA CallerTracks ==
  ASSUME TypeOK, OrphanInv, NEW c \in Callers, LockRepo(c) \/ \E k, ps : StartCall(c, k, ps)
  PROVE  OrphanInv'
<1>1. UNCHANGED <<idx, vec, leaked>> /\ op[c].pc \in {"idle", "lock"}
  BY DEF LockRepo, StartCall, Running, Stores, History
<1>2. \A d \in Callers \ {c} : op'[d] = op[d]
  BY DEF LockRepo, StartCall, TypeOK
<1>3. Quiet(op'[c])
  <2>1. CASE LockRepo(c)
    <3>1. op'[c] = [op[c] EXCEPT !.pc = "load"] /\ op[c] \in Op
      BY <2>1 DEF LockRepo, TypeOK
    <3> QED
      BY <3>1 DEF Quiet, Op
  <2>2. ASSUME NEW k, NEW ps, StartCall(c, k, ps) PROVE Quiet(op'[c])
    <3>1. op'[c] = NewCall(k, ps)
      BY <2>2 DEF StartCall, TypeOK
    <3> QED
      BY <3>1 DEF NewCall, Quiet
  <2> QED
    BY <2>1, <2>2
<1>4. Sent(op[c]) = {}
  BY <1>1 DEF Sent
<1>5. \A d \in Callers : \/ SameWork(op[d], op'[d])
                         \/ Quiet(op'[d]) /\ Sent(op[d]) \subseteq Known(idx') \cup leaked'
  BY <1>2, <1>3, <1>4 DEF SameWork
<1> QED
  BY <1>1, <1>5, OutsideTracks

\* invalidate_cache: dropping the namespace leaves no vector, deleting the index records
\* those that are still there.
LEMMA InvalidateTracks ==
  ASSUME TypeOK, OrphanInv, NEW c \in Callers,
         InvalidateStep(c) \/ DropNamespaceFails(c) \/ DeleteIndexFails(c)
  PROVE  OrphanInv'
<1> DEFINE n(s) == [op[c] EXCEPT !.pc = s]
           r(x) == [Idle EXCEPT !.result = x]
<1>1. \A d \in Callers : op[d] \in Op
  BY DEF TypeOK
<1>2. /\ n("namespace").pc = "namespace" /\ n("drop").pc = "drop"
      /\ r("failure").pc = "idle" /\ r("success").pc = "idle"
  BY <1>1 DEF Op, Idle, NewCall
<1>3. /\ op[c].pc \in {"resolve", "namespace", "drop"}
      /\ vec' \subseteq vec /\ leaked \subseteq leaked' /\ idx' \in {idx, NoIndex}
      /\ vec' \cap Known(idx) \subseteq Known(idx') \cup leaked'
  BY DEF InvalidateStep, ResolveRepo, DropNamespace, DropNamespaceFails, DeleteIndex,
         DeleteIndexFails, Stores, History
<1>4. \/ \E o \in {n("namespace"), n("drop"), r("failure"), r("success")} :
           op' = [op EXCEPT ![c] = o]
      \/ op' = Overtaken(c)
  BY DEF InvalidateStep, ResolveRepo, DropNamespace, DropNamespaceFails, DeleteIndex,
         DeleteIndexFails, Return, Continue
<1>5. Quiet(op'[c])
  <2>1. op' = Overtaken(c) => op'[c] = n("drop")
    BY DEF Overtaken
  <2> HIDE DEF n, r
  <2>2. op'[c] \in {n("namespace"), n("drop"), r("failure"), r("success")}
    BY <1>4, <2>1 DEF TypeOK
  <2> QED
    BY <1>2, <2>2 DEF Quiet
<1>6. Sent(op[c]) = {}
  BY <1>3 DEF Sent
<1>7. ASSUME NEW d \in Callers, d # c PROVE SameWork(op[d], op'[d])
  <2>1. op'[d] = op[d] \/ op'[d] = [op[d] EXCEPT !.dirty = Paths]
    BY <1>4, <1>7 DEF Overtaken, TypeOK
  <2> QED
    BY <1>1, <2>1 DEF SameWork, Op
<1> HIDE DEF n, r
<1> QED
  BY <1>3, <1>5, <1>6, <1>7, OutsideTracks

\* A process that dies leaves what its calls uploaded.
LEMMA CrashTracks ==
  ASSUME TypeOK, OrphanInv, NEW q \in Processes, Crash(q)
  PROVE  OrphanInv'
<1> DEFINE dead == {c \in Callers : ProcessOf[c] = q /\ Running(c)}
<1>1. /\ UNCHANGED <<idx, vec>> /\ leaked' = leaked \cup (UploadedBy(dead) \ Known(idx))
      /\ op' = [c \in Callers |-> IF c \in dead THEN Idle ELSE op[c]]
  BY DEF Crash, Stores
<1>2. Quiet(Idle)
  BY DEF Quiet, Idle, NewCall
<1>3. ASSUME NEW c \in dead PROVE Sent(op[c]) \subseteq Known(idx') \cup leaked'
  BY <1>1 DEF Sent, UploadedBy
<1> HIDE DEF dead
<1>4. \A c \in Callers : \/ SameWork(op[c], op'[c])
                         \/ Quiet(op'[c]) /\ Sent(op[c]) \subseteq Known(idx') \cup leaked'
  BY <1>1, <1>2, <1>3 DEF SameWork
<1> QED
  BY <1>1, <1>4, OutsideTracks

LEMMA EditTracks ==
  ASSUME TypeOK, OrphanInv,
         \/ GitCommit \/ UNCHANGED vars \/ \E c \in Callers : AttemptTimesOut(c)
         \/ \E p \in Paths, x \in Contents \cup {Absent, Unreadable} : EditFile(p, x)
  PROVE  OrphanInv'
<1>1. UNCHANGED <<idx, vec, leaked>>
  BY DEF GitCommit, vars, AttemptTimesOut, EditFile, Stores, History
<1>2. ASSUME NEW c \in Callers PROVE SameWork(op[c], op'[c])
  <2>1. op[c] \in Op
    BY DEF TypeOK
  <2>2. \/ op'[c] = op[c]
        \/ \E p : op'[c] = [op[c] EXCEPT !.touched = @ \cup {p}]
    BY DEF GitCommit, vars, AttemptTimesOut, EditFile
  <2> QED
    BY <2>1, <2>2 DEF SameWork, Op
<1> QED
  BY <1>1, <1>2, OutsideTracks

\* What a late upsert brings into the store is recorded.
LEMMA ArriveTracks ==
  ASSUME TypeOK, OrphanInv, NEW r \in stray, Arrive(r) PROVE OrphanInv'
<1>1. /\ idx' = idx /\ vec' = Done(r) /\ leaked' = leaked \cup (Done(r) \ vec)
      /\ op' = Losing(Losers(r))
  BY DEF Arrive
<1>2. ASSUME NEW c \in Callers PROVE SameWork(op[c], op'[c])
  <2>1. op[c] \in Op
    BY DEF TypeOK
  <2>2. op'[c] = op[c] \/ op'[c] = [op[c] EXCEPT !.dirty = @ \cup Losers(r)]
    BY <1>1 DEF Losing
  <2> QED
    BY <2>1, <2>2 DEF SameWork, Op
<1> QED
  BY <1>1, <1>2, OutsideTracks

LEMMA OrphanNext ==
  ASSUME OneProcess, TypeOK, OneReindexPerProcess, CopyAgrees, OrphanInv, [Next]_vars
  PROVE  OrphanInv'
  BY PastStepTracks, CallerTracks, InvalidateTracks, CrashTracks, EditTracks, ArriveTracks
  DEF Next, Step, Fault, PastStep

\* In one server process every vector belongs to the chunk map of the persisted index or to a
\* sync under way, unless one of the events in `leaked` left it behind: a sync that fails or is
\* cut off, a save that fails after the upload, a full reindex over an existing chunk map, an
\* index deleted while its namespace is in use, or an upsert that timed out and arrived later.
\* Incremental, changed_paths and index_file
\* syncs that complete orphan nothing.
THEOREM NoSilentOrphans == ASSUME OneProcess PROVE Spec => []OrphansAccounted
<1>1. Init => OrphanInv
  <2> SUFFICES ASSUME Init PROVE OrphanInv
    OBVIOUS
  <2>1. Idle.pc = "idle"
    BY DEF Idle, NewCall
  <2>2. vec = {} /\ \A c \in Callers : op[c].pc = "idle"
    BY <2>1 DEF Init
  <2> QED
    BY <2>2 DEF OrphanInv, Tracked, Carries
<1>2. TypeOK /\ OneReindexPerProcess /\ CopyAgrees /\ OrphanInv /\ [Next]_vars => OrphanInv'
  BY OrphanNext
<1>3. OrphanInv => OrphansAccounted
  BY DEF OrphanInv, Tracked, Sent, OrphansAccounted, UploadedBy
<1>4. Spec => []CopyAgrees
  BY CopyAlways
<1> QED
  BY <1>1, <1>2, <1>3, <1>4, TypeCorrect, Serialised, PTL DEF Spec

-----------------------------------------------------------------------------
(* What a call that succeeds recorded.                                      *)

\* From the scan on, the copy of a call has what it saw of the paths it covers; from the
\* first save on the index has it too.
Recorded(o, i) ==
  /\ o.pc = "scan" => o.kind # "file"
  /\ o.pc \in {"save", "collect", "upsert", "prune"} =>
       \A p \in Covered(o) \ o.touched : o.mem.files[p] = Seen(o, p)
  /\ o.pc \in {"collect", "upsert", "prune"} /\ i # NoIndex =>
       \A p \in Paths : i.files[p] = o.mem.files[p]
RecordInv == \A c \in Callers : Recorded(op[c], idx)

\* The parts of a call that Recorded looks at.
SameRecord(o, n) == /\ n.pc = o.pc /\ n.kind = o.kind /\ n.args = o.args
                    /\ n.found = o.found /\ n.mem = o.mem /\ o.touched \subseteq n.touched

LEMMA SameRecordKeeps ==
  ASSUME NEW c \in Callers, op[c] \in Op, Recorded(op[c], idx), SameRecord(op[c], op'[c]),
         op[c].pc \in {"save", "collect", "upsert", "prune"} =>
           /\ idx' \in {idx, NoIndex}
           /\ \A p \in Paths \ op'[c].touched : fs'[p] = fs[p]
  PROVE  Recorded(op[c], idx)'
<1> DEFINE o == op[c]
           n == op'[c]
<1>1. Walks(op[c])' = Walks(o)
  BY DEF SameRecord, Walks, FastPath
<1>2. ASSUME o.pc \in {"save", "collect", "upsert", "prune"},
             NEW p \in Covered(op[c])' \ n.touched
      PROVE  n.mem.files[p] = Seen(op[c], p)'
  <2>1. p \in Paths /\ fs'[p] = fs[p]
    BY <1>2 DEF Covered, Readable
  <2>2. p \in Covered(o) \ o.touched
    BY <1>1, <1>2, <2>1 DEF SameRecord, Covered, Readable
  <2>3. o.mem.files[p] = Seen(o, p)
    BY <1>2, <2>2 DEF Recorded
  <2>4. Seen(op[c], p)' = Seen(o, p)
    BY <1>1, <2>1 DEF Seen, Discovered, Readable
  <2> QED
    BY <2>3, <2>4 DEF SameRecord
<1> QED
  BY <1>1, <1>2 DEF SameRecord, Recorded

LEMMA QuietRecorded ==
  ASSUME NEW c \in Callers, op'[c].pc \notin {"scan", "save", "collect", "upsert", "prune"}
  PROVE  Recorded(op[c], idx)'
BY DEF Recorded

\* A copy that has just been read from the working tree.
LEMMA FreshRecorded ==
  ASSUME NEW c \in Callers, op'[c] \in Op, op'[c].pc = "save",
         \A p \in Covered(op[c])' : op'[c].mem.files[p] = Seen(op[c], p)'
  PROVE  Recorded(op[c], idx)'
BY DEF Recorded

LEMMA ScanChangedRecords ==
  ASSUME TypeOK, NEW c \in Callers, ScanChanged(c), idx # NoIndex => Agrees(op[c], idx)
  PROVE  Recorded(op[c], idx)'
<1> DEFINE o == op[c]
           t == [p \in Paths |-> IF p \in o.args \cap Readable THEN fs[p] ELSE o.mem.files[p]]
           todo == ChangedOrNew(o.mem.files, t)
           gone == Deleted(o.mem.files, t)
           scanned == [o EXCEPT !.mem.files = t, !.todo = todo, !.gone = gone, !.touched = {}]
           n == op'[c]
<1>1. o \in Op /\ op \in [Callers -> Op] /\ o.args \subseteq Paths
  BY DEF TypeOK, Op
<1>2. \/ n = [scanned EXCEPT !.pc = "save"]
      \/ n = [scanned EXCEPT !.pc = "collect"] /\ t = o.mem.files
  BY <1>1 DEF ScanChanged, Continue
<1>3. idx' = idx /\ fs' = fs /\ o.pc = "scan" /\ FastPath(o) /\ ~Rebuild(o)
  BY DEF ScanChanged, Stores, Outside, FastPath, Rebuild
<1>4. \A p \in o.args \cap Readable : t[p] = fs[p]
  BY <1>1
<1> HIDE DEF t, todo, gone
<1>5. /\ scanned \in [DOMAIN o -> {scanned[f] : f \in DOMAIN o}]
      /\ DOMAIN scanned = DOMAIN o
      /\ scanned.mem.files = t /\ scanned.kind = o.kind /\ scanned.args = o.args
      /\ scanned.found = o.found
  BY <1>1 DEF Op, Index
<1> HIDE DEF scanned
<1>6. /\ n.mem.files = t /\ n.kind = o.kind /\ n.args = o.args /\ n.found = o.found
      /\ n.pc \in {"save", "collect"} /\ (n.pc = "collect" => t = o.mem.files)
  BY <1>1, <1>2, <1>5 DEF Op
<1> HIDE DEF n
<1>7. Walks(op[c])' = FALSE /\ Covered(op[c])' = o.args \cap Readable
  BY <1>3, <1>6 DEF FastPath, Walks, Covered, Readable, n
<1>8. \A p \in Covered(op[c])' : n.mem.files[p] = Seen(op[c], p)'
  BY <1>3, <1>4, <1>6, <1>7 DEF Seen
<1>9. n.pc = "collect" /\ idx # NoIndex => \A p \in Paths : idx.files[p] = n.mem.files[p]
  BY <1>3, <1>6 DEF Agrees, ChangedBy, KeepsEntries
<1> QED
  BY <1>3, <1>6, <1>8, <1>9 DEF Recorded, n

LEMMA ScanIncrementalRecords ==
  ASSUME TypeOK, NEW c \in Callers, ScanIncremental(c), Recorded(op[c], idx)
  PROVE  Recorded(op[c], idx)'
<1> DEFINE o == op[c]
           todo == ChangedOrNew(o.mem.files, Discovered)
           gone == Deleted(o.mem.files, Discovered)
           n == [o EXCEPT !.pc = "save", !.mem.files = Discovered, !.mem.head = o.head,
                          !.touched = {}, !.todo = todo, !.gone = gone]
<1>1. o \in Op /\ op \in [Callers -> Op] /\ Discovered \in Tree
  BY DiscoveredType DEF TypeOK, FileTree
<1>2. fs' = fs /\ o.pc = "scan" /\ ~FastPath(o) /\ o.kind # "file"
  BY DEF ScanIncremental, Outside, Recorded
<1>3. CASE op'[c].pc = "idle"
  BY <1>3, QuietRecorded
<1>4. CASE op'[c].pc # "idle"
  <2>1. Continue(c, n)
    BY <1>4, ReturnsIdle DEF ScanIncremental
  <2> HIDE DEF todo, gone
  <2>2. /\ n.mem.files = Discovered /\ n.pc = "save"
        /\ n.kind = o.kind /\ n.args = o.args /\ n.found = o.found
    BY <1>1 DEF Op, Index
  <2> HIDE DEF n
  <2>3. op'[c] = n
    BY <1>1, <2>1 DEF Continue
  <2>4. Covered(op[c])' = Paths /\ Walks(op[c])'
    BY <1>2, <2>2, <2>3 DEF FastPath, Walks, Covered
  <2>5. \A p \in Paths : Discovered[p] = Seen(op[c], p)'
    BY <1>2, <2>4 DEF Seen, Discovered, Readable
  <2> QED
    BY <2>2, <2>3, <2>4, <2>5 DEF Recorded
<1> QED
  BY <1>3, <1>4

LEMMA ScanFullRecords ==
  ASSUME TypeOK, NEW c \in Callers, ScanFull(c)
  PROVE  Recorded(op[c], idx)'
<1> DEFINE o == op[c]
           n == [o EXCEPT !.pc = "save", !.touched = {},
                          !.mem = [files |-> Discovered, head |-> o.head,
                                   chunks |-> NoChunks],
                          !.todo = PathsIn(Discovered)]
<1>1. o \in Op /\ op \in [Callers -> Op]
  BY DEF TypeOK
<1>2. fs' = fs /\ ~FastPath(o) /\ o.kind # "file"
  BY DEF ScanFull, Outside, Rebuild, FastPath
<1>3. CASE op'[c].pc = "idle"
  BY <1>3, QuietRecorded
<1>4. CASE op'[c].pc # "idle"
  <2>1. Continue(c, n)
    BY <1>4, ReturnsIdle DEF ScanFull
  <2>2. /\ n.mem.files = Discovered /\ n.pc = "save"
        /\ n.kind = o.kind /\ n.args = o.args /\ n.found = o.found
    BY <1>1 DEF Op
  <2> HIDE DEF n
  <2>3. op'[c] = n
    BY <1>1, <2>1 DEF Continue
  <2>4. Covered(op[c])' = Paths /\ Walks(op[c])'
    BY <1>2, <2>2, <2>3 DEF FastPath, Walks, Covered
  <2>5. \A p \in Paths : Discovered[p] = Seen(op[c], p)'
    BY <1>2, <2>4 DEF Seen, Discovered, Readable
  <2> QED
    BY <2>2, <2>3, <2>4, <2>5 DEF Recorded
<1> QED
  BY <1>3, <1>4

LEMMA LoadFileRecords ==
  ASSUME TypeOK, NEW c \in Callers, LoadFile(c)
  PROVE  /\ Recorded(op[c], idx)'
         /\ op'[c].result = "success" /\ op'[c].pc = "idle" =>
              \A p \in Covered(op[c]) : idx'.files[p] = Seen(op[c], p)
<1> DEFINE o == op[c]
           h == IF head = 0 THEN idx.head ELSE head
           m(p) == [idx EXCEPT !.head = h, !.files[p] = fs[p]]
           got(p) == [o EXCEPT !.texts = [NoFiles EXCEPT ![p] = fs[p]], !.found = TRUE,
                               !.mem = m(p), !.head = head, !.touched = {}]
           next(p) == [got(p) EXCEPT !.pc = "save", !.todo = {p}]
<1>1. o \in Op /\ op \in [Callers -> Op] /\ idx \in Index \cup {NoIndex} /\ fs' = fs
  BY SMTT(40) DEF TypeOK, LoadFile, Outside
<1>2. PICK p \in Paths :
         /\ o.kind = "file" /\ o.args = {p}
         /\ \/ Return(c, "failure")
            \/ /\ idx # NoIndex
               /\ \/ Return(c, "success") /\ idx.files[p] = fs[p] /\ idx' \in {idx, got(p).mem}
                  \/ Continue(c, next(p))
  BY DEF LoadFile
<1>3. /\ got(p).mem = m(p) /\ next(p).mem = m(p) /\ next(p).pc = "save"
      /\ next(p).kind = o.kind /\ next(p).args = o.args
  BY <1>1 DEF Op
<1> HIDE DEF got, next
<1>4. idx # NoIndex => m(p).files[p] = fs[p]
  BY <1>1 DEF Index, Tree
<1> HIDE DEF m
<1>5. Covered(o) \subseteq {p} /\ Seen(o, p) = fs[p]
  BY <1>2 DEF Covered, Seen, Walks
<1>6. CASE Return(c, "failure")
  <2>1. op'[c].pc = "idle" /\ op'[c].result = "failure"
    BY <1>1, <1>6 DEF Return, Idle, NewCall
  <2> QED
    BY <2>1, QuietRecorded
<1>7. CASE /\ idx # NoIndex
           /\ Return(c, "success") /\ idx.files[p] = fs[p] /\ idx' \in {idx, got(p).mem}
  <2>1. op'[c].pc = "idle"
    BY <1>7, ReturnsIdle
  <2> QED
    BY <1>3, <1>4, <1>5, <1>7, <2>1, QuietRecorded
<1>8. CASE idx # NoIndex /\ Continue(c, next(p))
  <2>1. op'[c] = next(p)
    BY <1>1, <1>8 DEF Continue
  <2>2. Covered(op[c])' \subseteq {p} /\ Seen(op[c], p)' = fs[p]
    BY <1>1, <1>2, <1>3, <2>1 DEF Covered, Seen, Walks
  <2> QED
    BY <1>3, <1>4, <1>8, <2>1, <2>2 DEF Recorded
<1> QED
  BY <1>2, <1>6, <1>7, <1>8

LEMMA SaveRecords ==
  ASSUME TypeOK, NEW c \in Callers, Recorded(op[c], idx), SaveIndex(c)
  PROVE  Recorded(op[c], idx)'
<1> DEFINE o == op[c]
           n == [o EXCEPT !.pc = "collect"]
<1>1. o \in Op /\ op \in [Callers -> Op]
  BY DEF TypeOK
<1>2. op'[c] = n /\ idx' = FirstSave(o) /\ fs' = fs /\ o.pc = "save"
  BY <1>1 DEF SaveIndex, Continue, Outside
<1>3. /\ n.pc = "collect" /\ n.kind = o.kind /\ n.args = o.args /\ n.found = o.found
      /\ n.mem = o.mem /\ n.touched = o.touched
  BY <1>1 DEF Op
<1> HIDE DEF n
<1>4. FirstSave(o).files = o.mem.files
  BY <1>1 DEF FirstSave, Op, Index
<1>5. Covered(op[c])' = Covered(o)
  BY <1>2, <1>3 DEF Covered, Walks, FastPath, Readable
<1>6. \A p : Seen(op[c], p)' = Seen(o, p)
  BY <1>2, <1>3 DEF Seen, Walks, FastPath, Discovered, Readable
<1> QED
  BY <1>2, <1>3, <1>4, <1>5, <1>6 DEF Recorded

LEMMA SyncKeepsRecord ==
  ASSUME TypeOK, NEW c \in Callers, SyncOnly(c)
  PROVE  /\ op'[c].pc \in {"upsert", "prune"}
         /\ op'[c].kind = op[c].kind /\ op'[c].args = op[c].args /\ op'[c].found = op[c].found
         /\ op'[c].mem = op[c].mem /\ op'[c].touched = op[c].touched
<1> DEFINE o == op[c]
<1>1. o \in Op /\ op \in [Callers -> Op]
  BY DEF TypeOK
<1>2. CASE CollectChunks(c)
  <2> DEFINE texts == IF o.kind = "file" THEN o.texts
                      ELSE [p \in Paths |-> IF p \in o.todo THEN fs[p] ELSE Absent]
             read == [o EXCEPT !.texts = texts]
             late == {p \in o.todo : texts[p] # o.mem.files[p]}
             n == [read EXCEPT !.pc = "upsert", !.pending = Uploaded(read),
                               !.dirty = @ \cup late]
  <2>1. op'[c] = n
    BY <1>1, <1>2 DEF CollectChunks, Continue
  <2> HIDE DEF texts
  <2>2. SameRecord(o, read) /\ DOMAIN read = DOMAIN o /\ read.touched = o.touched
    BY <1>1 DEF SameRecord, Op
  <2> HIDE DEF read, late
  <2>3. n.kind = read.kind /\ n.args = read.args /\ n.found = read.found /\ n.mem = read.mem
        /\ n.touched = read.touched /\ n.pc = "upsert"
    BY <1>1, <2>2 DEF Op
  <2> QED
    BY <2>1, <2>2, <2>3 DEF SameRecord
<1>3. CASE UpsertBatch(c) \/ PruneBatch(c)
  <2>1. o.pc \in {"upsert", "prune"} /\ \E b : op'[c] = [o EXCEPT !.pending = @ \ b]
    BY <1>1, <1>3 DEF UpsertBatch, PruneBatch, Continue
  <2> QED
    BY <1>1, <2>1 DEF Op
<1>4. CASE PlanPrune(c)
  <2>1. op'[c] = [o EXCEPT !.pc = "prune", !.pending = Stale(o)]
    BY <1>1, <1>4 DEF PlanPrune, Continue
  <2> QED
    BY <1>1, <2>1 DEF Op
<1> QED
  BY <1>2, <1>3, <1>4 DEF SyncOnly

LEMMA SyncRecords ==
  ASSUME TypeOK, NEW c \in Callers, Recorded(op[c], idx), SyncOnly(c)
  PROVE  Recorded(op[c], idx)'
<1>1. fs' = fs /\ idx' = idx /\ op[c].pc \in {"collect", "upsert", "prune"}
  BY DEF SyncOnly, CollectChunks, UpsertBatch, PlanPrune, PruneBatch, Outside, Stores
<1>2. Covered(op[c])' = Covered(op[c]) /\ \A p : Seen(op[c], p)' = Seen(op[c], p)
  BY <1>1, SyncKeepsRecord DEF Covered, Seen, Walks, FastPath, Discovered, Readable
<1> QED
  BY <1>1, <1>2, SyncKeepsRecord DEF Recorded

\* A step of the call itself.
LEMMA OwnRecords ==
  ASSUME TypeOK, CopyAgrees, NEW c \in Callers, Recorded(op[c], idx),
         Step(c) \/ Fault(c) \/ LockRepo(c)
  PROVE  Recorded(op[c], idx)'
<1> DEFINE o == op[c]
<1>1. o \in Op /\ op \in [Callers -> Op]
  BY DEF TypeOK
<1>2. CASE \E r : Return(c, r)
  BY <1>2, ReturnsIdle, QuietRecorded
<1>3. ASSUME NEW s \in {"load", "namespace", "drop"}, op'[c] = [o EXCEPT !.pc = s]
      PROVE  Recorded(op[c], idx)'
  <2>1. op'[c].pc = s
    BY <1>1, <1>3 DEF Op
  <2> QED
    BY <2>1, QuietRecorded
<1>4. CASE LockRepo(c)
  BY <1>1, <1>3, <1>4 DEF LockRepo
<1>5. CASE InvalidateStep(c) \/ DropNamespaceFails(c)
  BY <1>1, <1>2, <1>3, <1>5 DEF InvalidateStep, ResolveRepo, DropNamespace, DeleteIndex,
     DropNamespaceFails, Overtaken, Continue
<1>6. CASE CommitIndex(c) \/ CollectFails(c) \/ Fault(c)
  <2>1. CASE AttemptTimesOut(c)
    <3>1. UNCHANGED <<op, fs, idx>>
      BY <2>1 DEF AttemptTimesOut, Stores
    <3> QED
      BY <1>1, <3>1, SameRecordKeeps DEF SameRecord
  <2> QED
    BY <1>2, <1>5, <1>6, <2>1 DEF CommitIndex, CollectFails, Fault, LoadFails, SaveIndexFails,
       SyncFails, CommitIndexFails, DeleteIndexFails
<1>7. CASE LoadFolder(c)
  <2> DEFINE n == [o EXCEPT !.pc = "scan", !.found = idx # NoIndex,
                            !.mem = IF idx = NoIndex THEN EmptyIndex ELSE idx,
                            !.head = head, !.touched = {}]
  <2>1. op'[c] = n /\ o.kind # "file"
    BY <1>1, <1>7 DEF LoadFolder, Continue
  <2>2. n.pc = "scan" /\ n.kind = o.kind
    BY <1>1 DEF Op
  <2> HIDE DEF n
  <2> QED
    BY <2>1, <2>2 DEF Recorded
<1>8. CASE ScanChanged(c)
  <2>1. idx # NoIndex => Agrees(o, idx)
    BY <1>8 DEF CopyAgrees, ScanChanged, Loaded
  <2> QED
    BY <1>8, <2>1, ScanChangedRecords
<1>9. CASE ScanIncremental(c) \/ ScanFull(c) \/ LoadFile(c) \/ SaveIndex(c) \/ SyncOnly(c)
  BY <1>9, ScanIncrementalRecords, ScanFullRecords, LoadFileRecords, SaveRecords, SyncRecords
<1> QED
  BY <1>4, <1>5, <1>6, <1>7, <1>8, <1>9 DEF Step, FolderStep, SyncStep, SyncOnly

\* A step of a call changes its own record, or that of all reindexing calls alike.
LEMMA StepShape ==
  ASSUME NEW d \in Callers, LockRepo(d) \/ Step(d) \/ Fault(d)
  PROVE  /\ fs' = fs
         /\ (\E n : op' = [op EXCEPT ![d] = n]) \/ op' = Overtaken(d) \/ op' = op
<1>1. CASE AttemptTimesOut(d)
  BY <1>1, SMTT(40) DEF AttemptTimesOut
<1>2. CASE LockRepo(d) \/ FolderStep(d) \/ LoadFile(d)
  BY <1>2 DEF LockRepo, FolderStep, LoadFolder, ScanChanged, ScanIncremental, ScanFull,
              LoadFile, Outside, Return, Continue
<1>3. CASE SyncStep(d) \/ InvalidateStep(d)
  BY <1>3 DEF SyncStep, InvalidateStep, SaveIndex, CollectChunks, CollectFails, UpsertBatch,
              PlanPrune, PruneBatch, CommitIndex, ResolveRepo, DropNamespace, DeleteIndex,
              Outside, Return, Continue
<1>4. CASE Fault(d) /\ ~AttemptTimesOut(d)
  BY <1>4 DEF Fault, LoadFails, SaveIndexFails, SyncFails, CommitIndexFails,
              DropNamespaceFails, DeleteIndexFails, Outside, Return
<1> QED
  BY <1>1, <1>2, <1>3, <1>4 DEF Step

\* A step of somebody else: the holder of the mutex finds no save but its own in the index.
LEMMA OthersRecord ==
  ASSUME OneProcess, TypeOK, OneReindexPerProcess, [Next]_vars, NEW c \in Callers,
         Recorded(op[c], idx), ~Step(c), ~Fault(c), ~LockRepo(c)
  PROVE  Recorded(op[c], idx)'
<1> DEFINE o == op[c]
<1>1. o \in Op /\ op \in [Callers -> Op]
  BY DEF TypeOK
<1>2. SameRecord(o, o) /\ \A p, d : /\ SameRecord(o, [o EXCEPT !.touched = @ \cup {p}])
                                    /\ SameRecord(o, [o EXCEPT !.dirty = d])
  BY <1>1 DEF SameRecord, Op
<1>3. o.pc \in {"save", "collect", "upsert", "prune"} => idx' \in {idx, NoIndex}
  <2> SUFFICES ASSUME o.pc \in {"save", "collect", "upsert", "prune"}, NEW d \in Callers, Writes(d)
               PROVE  FALSE
    BY OnlyWritersChangeIndex
  <2>1. d # c
    BY DEF Writes, Step, SyncStep, Fault
  <2>2. o.pc \in Past
    BY DEF Past, Steps
  <2> QED
    BY <2>1, <2>2, WriterIsPast, OneHolder
<1>4. CASE op'[c].pc \notin {"scan", "save", "collect", "upsert", "prune"}
  BY <1>4, QuietRecorded
<1>5. ASSUME NEW p \in Paths, NEW x, EditFile(p, x) PROVE Recorded(op[c], idx)'
  <2>1. fs' = [fs EXCEPT ![p] = x] /\ fs \in FileTree
    BY <1>5 DEF EditFile, TypeOK, FileTree
  <2>2. \A z \in Paths : z # p => fs'[z] = fs[z]
    BY <2>1 DEF FileTree
  <2>3. CASE Running(c)
    <3>1. op'[c] = [o EXCEPT !.touched = @ \cup {p}]
      BY <1>5, <2>3 DEF EditFile
    <3>2. p \in op'[c].touched
      BY <1>1, <3>1 DEF Op
    <3> QED
      BY <1>1, <1>2, <1>3, <2>2, <3>1, <3>2, SameRecordKeeps
  <2>4. CASE ~Running(c)
    BY <1>4, <1>5, <2>4 DEF EditFile, Running
  <2> QED
    BY <2>3, <2>4
<1>6. ASSUME fs' = fs, op'[c] = o \/ \E s : op'[c] = [o EXCEPT !.dirty = s]
      PROVE  Recorded(op[c], idx)'
  <2>1. SameRecord(o, op'[c])
    BY <1>2, <1>6
  <2> QED
    BY <1>1, <1>3, <1>6, <2>1, SameRecordKeeps
<1>7. ASSUME NEW d \in Callers, NEW k, NEW ps, StartCall(d, k, ps)
      PROVE  Recorded(op[c], idx)'
  <2>1. fs' = fs /\ (op'[c] = o \/ op'[c] = NewCall(k, ps))
    BY <1>1, <1>7 DEF StartCall, Outside
  <2>2. NewCall(k, ps).pc \in {"resolve", "lock"}
    BY DEF NewCall
  <2> QED
    BY <1>4, <1>6, <2>1, <2>2
<1>8. ASSUME NEW d \in Callers, LockRepo(d) \/ Step(d) \/ Fault(d)
      PROVE  Recorded(op[c], idx)'
  <2>1. d # c
    BY <1>8
  <2>2. (\E n : op' = [op EXCEPT ![d] = n]) \/ op' = Overtaken(d) \/ op' = op
    BY <1>8, StepShape
  <2>3. fs' = fs
    BY <1>8, StepShape
  <2>4. op'[c] = o \/ op'[c] = [o EXCEPT !.dirty = Paths]
    BY <1>1, <2>1, <2>2 DEF Overtaken
  <2> QED
    BY <1>6, <2>3, <2>4
<1>9. CASE GitCommit \/ UNCHANGED vars
  BY <1>6, <1>9 DEF GitCommit, vars
<1>10. ASSUME NEW q, Crash(q) PROVE Recorded(op[c], idx)'
  <2>1. fs' = fs /\ (op'[c] = o \/ op'[c] = Idle)
    BY <1>10 DEF Crash, Outside
  <2>2. Idle.pc = "idle"
    BY DEF Idle, NewCall
  <2> QED
    BY <1>4, <1>6, <2>1, <2>2
<1>11. ASSUME NEW r \in stray, Arrive(r) PROVE Recorded(op[c], idx)'
  <2>1. fs' = fs /\ (op'[c] = o \/ op'[c] = [o EXCEPT !.dirty = @ \cup Losers(r)])
    BY <1>11 DEF Arrive, Losing
  <2> QED
    BY <1>6, <2>1
<1> QED
  BY <1>5, <1>7, <1>8, <1>9, <1>10, <1>11 DEF Next

LEMMA RecordNext ==
  ASSUME OneProcess, TypeOK, OneReindexPerProcess, CopyAgrees, RecordInv, [Next]_vars
  PROVE  RecordInv'
BY OwnRecords, OthersRecord DEF RecordInv

-----------------------------------------------------------------------------
RecordsWhatItSaw ==
    \A c \in Callers : Succeeds(c) /\ idx' # NoIndex =>
        \A p \in Covered(op[c]) \ op[c].touched : idx'.files[p] = Seen(op[c], p)

LEMMA StepRecordsWhatItSaw ==
  ASSUME TypeOK, CopyAgrees, RecordInv, [Next]_vars PROVE RecordsWhatItSaw
<1> SUFFICES ASSUME NEW c \in Callers, Succeeds(c), idx' # NoIndex,
                    NEW p \in Covered(op[c]) \ op[c].touched
             PROVE  idx'.files[p] = Seen(op[c], p)
  BY DEF RecordsWhatItSaw
<1> DEFINE o == op[c]
<1>1. o \in Op /\ op \in [Callers -> Op] /\ p \in Paths /\ Recorded(o, idx)
  BY DEF TypeOK, RecordInv, Covered, Op
<1>2. o.pc # "idle" /\ op'[c].pc = "idle" /\ op'[c].result = "success"
  BY DEF Succeeds, Reindexing, Running
<1>3. ~Return(c, "failure")
  BY <1>1, <1>2 DEF Return, Idle, NewCall
<1>4. ASSUME NEW n, op'[c] = n, n.pc # "idle" PROVE FALSE
  BY <1>2, <1>4
<1>5. CASE ScanIncremental(c)
  <2>1. ~Continue(c, [o EXCEPT !.pc = "save", !.mem.files = Discovered,
                               !.mem.head = o.head, !.touched = {},
                               !.todo = ChangedOrNew(o.mem.files, Discovered),
                               !.gone = Deleted(o.mem.files, Discovered)])
    <3> DEFINE todo == ChangedOrNew(o.mem.files, Discovered)
               gone == Deleted(o.mem.files, Discovered)
               n == [o EXCEPT !.pc = "save", !.mem.files = Discovered, !.mem.head = o.head,
                              !.touched = {}, !.todo = todo, !.gone = gone]
    <3> HIDE DEF todo, gone
    <3>1. n.pc = "save"
      BY <1>1 DEF Op
    <3> HIDE DEF n
    <3>2. ~Continue(c, n)
      BY <1>1, <1>2, <3>1 DEF Continue
    <3> QED
      BY <3>2 DEF n, todo, gone
  <2>2. Discovered = o.mem.files /\ idx' = idx /\ ~Rebuild(o) /\ ~FastPath(o) /\ o.pc = "scan"
    BY <1>3, <1>5, <2>1 DEF ScanIncremental, Stores
  <2>3. Agrees(o, idx)
    BY <2>2 DEF CopyAgrees, Loaded
  <2>4. idx.files[p] = Discovered[p]
    BY <1>1, <2>2, <2>3 DEF Agrees, ChangedBy, KeepsEntries
  <2>5. o.kind # "file"
    BY <1>1, <2>2 DEF Recorded
  <2> QED
    BY <1>1, <2>2, <2>4, <2>5 DEF Seen, Walks, Discovered
<1>6. CASE LoadFile(c)
  BY <1>2, <1>6, LoadFileRecords
<1>7. CASE SyncFails(c) \/ CollectFails(c)
  <2>1. idx' = idx /\ o.pc \in {"collect", "upsert", "prune"}
    BY <1>7 DEF SyncFails, CollectFails, Stores
  <2> QED
    BY <1>1, <2>1 DEF Recorded
<1>8. CASE CommitIndex(c)
  <2>1. idx' = SecondSave(o) /\ o.pc = "prune"
    BY <1>8 DEF CommitIndex
  <2>2. SecondSave(o).files = o.mem.files
    BY <1>1 DEF SecondSave, Op, Index
  <2> QED
    BY <1>1, <2>1, <2>2 DEF Recorded
<1>9. CASE Step(c) \/ Fault(c) \/ LockRepo(c)
  <2>1. ASSUME NEW s \in {"load", "namespace", "drop", "collect", "prune"},
               op'[c] = [o EXCEPT !.pc = s]
        PROVE  FALSE
    BY <1>1, <1>2, <2>1 DEF Op
  <2>2. ~LockRepo(c) /\ ~SaveIndex(c)
    BY <1>1, <2>1 DEF LockRepo, SaveIndex, Continue
  <2>3. ~DropNamespace(c) /\ ~DropNamespaceFails(c) /\ ~ResolveRepo(c) /\ ~DeleteIndex(c)
    BY <1>1, <1>3, <2>1 DEF DropNamespace, DropNamespaceFails, Overtaken, ResolveRepo, Continue,
       DeleteIndex
  <2>4. ~SyncOnly(c) /\ ~ScanChanged(c) /\ ~ScanFull(c) /\ ~LoadFolder(c)
    <3>1. ~SyncOnly(c)
      BY <1>2, SyncKeepsRecord
    <3>2. ~LoadFolder(c)
      <4> DEFINE n == [o EXCEPT !.pc = "scan", !.found = idx # NoIndex,
                                !.mem = IF idx = NoIndex THEN EmptyIndex ELSE idx,
                                !.head = head, !.touched = {}]
      <4>1. n.pc = "scan" /\ (LoadFolder(c) => op'[c] = n)
        BY <1>1 DEF Op, LoadFolder, Continue
      <4> QED
        BY <1>2, <4>1
    <3>3. ~ScanChanged(c)
      BY <1>1, <1>2, ZenonT(60) DEF ScanChanged, Continue, Op
    <3>4. ~ScanFull(c)
      BY <1>1, <1>2, <1>3 DEF ScanFull, Continue, Op
    <3> QED
      BY <3>1, <3>2, <3>3, <3>4
  <2>5. Fault(c) => SyncFails(c)
    BY <1>2, <1>3, <2>3 DEF Fault, LoadFails, SaveIndexFails, CommitIndexFails,
       DeleteIndexFails, AttemptTimesOut
  <2> QED
    BY <1>5, <1>6, <1>7, <1>8, <1>9, <2>2, <2>3, <2>4, <2>5
    DEF Step, FolderStep, SyncStep, SyncOnly, InvalidateStep
<1>10. CASE ~(Step(c) \/ Fault(c) \/ LockRepo(c))
  <2>1. op'[c] = o \/ \E s : op'[c] = [o EXCEPT !.touched = s] \/ op'[c] = [o EXCEPT !.dirty = s]
        \/ op'[c] = Idle \/ \E k, ps : op'[c] = NewCall(k, ps)
    <3>1. ASSUME NEW d \in Callers, LockRepo(d) \/ Step(d) \/ Fault(d)
          PROVE  op'[c] = o \/ op'[c] = [o EXCEPT !.dirty = Paths]
      <4>1. d # c
        BY <1>10, <3>1
      <4>2. (\E n : op' = [op EXCEPT ![d] = n]) \/ op' = Overtaken(d) \/ op' = op
        BY <3>1, StepShape
      <4> QED
        BY <1>1, <4>1, <4>2 DEF Overtaken
    <3>2. ASSUME NEW z, NEW x, EditFile(z, x)
          PROVE  op'[c] = o \/ op'[c] = [o EXCEPT !.touched = @ \cup {z}]
      BY <3>2 DEF EditFile
    <3>3. ASSUME NEW d \in Callers, NEW k, NEW ps, StartCall(d, k, ps)
          PROVE  op'[c] = o \/ op'[c] = NewCall(k, ps)
      BY <1>1, <3>3 DEF StartCall
    <3>4. GitCommit \/ UNCHANGED vars => op'[c] = o
      BY DEF GitCommit, vars
    <3>5. ASSUME NEW q, Crash(q) PROVE op'[c] = o \/ op'[c] = Idle
      BY <3>5 DEF Crash
    <3>6. ASSUME NEW r, Arrive(r)
          PROVE  op'[c] = o \/ op'[c] = [o EXCEPT !.dirty = @ \cup Losers(r)]
      BY <3>6 DEF Arrive, Losing
    <3> QED
      BY <1>10, <3>1, <3>2, <3>3, <3>4, <3>5, <3>6 DEF Next
  <2>2. /\ Idle.result = "none"
        /\ \A k, ps : NewCall(k, ps).result = "none"
    BY DEF Idle, NewCall
  <2>3. \A s : [o EXCEPT !.touched = s].pc = o.pc /\ [o EXCEPT !.dirty = s].pc = o.pc
    BY <1>1 DEF Op
  <2> QED
    BY <1>2, <2>1, <2>2, <2>3
<1> QED
  BY <1>9, <1>10

\* In one server process a reindexing call that reports success has recorded what it saw of
\* every path it covers, and that is the working tree's where nobody edited it since: no
\* early return, failed sync or call of somebody else leaves an older entry behind it.  Where
\* the folder is walked, a file that cannot be read is recorded as absent; among the changed
\* paths, it is not covered.
THEOREM SuccessRecordsTheTree == ASSUME OneProcess PROVE Spec => SuccessIsCurrent
<1>1. Init => RecordInv
  <2> SUFFICES ASSUME Init PROVE RecordInv
    OBVIOUS
  <2>1. \A c \in Callers : op[c].pc = "idle"
    BY DEF Init, Idle, NewCall
  <2> QED
    BY <2>1 DEF RecordInv, Recorded
<1>2. TypeOK /\ OneReindexPerProcess /\ CopyAgrees /\ RecordInv /\ [Next]_vars => RecordInv'
  BY RecordNext
<1>3. TypeOK /\ CopyAgrees /\ RecordInv /\ [Next]_vars => [RecordsWhatItSaw]_vars
  BY StepRecordsWhatItSaw
<1>4. SuccessIsCurrent <=> [][RecordsWhatItSaw]_vars
  BY PTL DEF SuccessIsCurrent, RecordsWhatItSaw
<1>5. Spec => []CopyAgrees
  BY CopyAlways
<1> QED
  BY <1>1, <1>2, <1>3, <1>4, <1>5, TypeCorrect, Serialised, PTL DEF Spec
=============================================================================
