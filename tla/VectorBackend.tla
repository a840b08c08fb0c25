--------------------------- MODULE VectorBackend ----------------------------
(***************************************************************************)
(* The vector backend as the orchestration layer calls it: every call runs  *)
(* in the retry loop of orchestration/vector_resilience.go, against the      *)
(* SQLite adapter (one transaction per attempt), the Qdrant adapter (several *)
(* HTTP requests per attempt, the collection set up on first use), or the    *)
(* Ollama and vLLM embedding clients (one request per batch of inputs).      *)
(*                                                                         *)
(* Requests may fail before or after the server acts, and a request whose    *)
(* attempt timed out may arrive later.  A record holds the dimension of its  *)
(* embedding, 0 when it is absent; the other data of a record is a function  *)
(* of its ID, since the chunk ID hashes repository, path, lines and text.    *)
(***************************************************************************)
EXTENDS Naturals, Sequences, FiniteSets

CONSTANTS Callers,      \* goroutines
          ProcessOf,    \* the server process of each caller
          Records,      \* chunk IDs
          NamespaceOf,  \* the repository of each record
          Dims,         \* embedding dimensions in use
          Asked,        \* bound: the requests callers make
          BatchSize,    \* records per request
          Texts,        \* how many texts an embedding call has
          EmbedBatch,   \* texts per embedding request
          MaxAttempts,  \* defaultVectorOperationMaxAttempts
          MaxCalls,     \* bound: calls
          MaxFaults     \* bound: lost answers, late requests and cancelled contexts

ASSUME BackendAssumption ==
  /\ 0 \notin Dims /\ Dims \subseteq Nat
  /\ BatchSize \in Nat \ {0} /\ Texts \in Nat /\ EmbedBatch \in Nat \ {0}
  /\ MaxAttempts \in Nat \ {0}
  /\ MaxCalls \in Nat /\ MaxFaults \in Nat

VARIABLES backend,  \* the configured backend of all processes
          store,    \* what each record holds
          coll,     \* Qdrant's collection: its dimension, or 0 when it does not exist
          boot,     \* the dimension each process has cached, 0 before bootstrap
          call,     \* what each caller is doing
          stray,    \* requests that timed out and may still arrive
          calls, faults  \* counters of the bounds

vars == <<backend, store, coll, boot, call, stray, calls, faults>>

Processes == {ProcessOf[c] : c \in Callers}
Namespaces == {NamespaceOf[r] : r \in Records}
Values == Dims \cup {0}
Backends == {"sqlite", "qdrant"}
Ops == {"upsert", "query", "delete", "drop", "health", "embed"}
\* Program points: of the retry loop, of SQLite's transaction, of the Qdrant
\* requests, and of the embedding request.
Sending == {"readColl", "create", "send", "search", "read", "lookup", "remove",
            "count", "clear", "ping", "embed"}
Holding == {"readColl", "create"}  \* inside ensureCollection, with bootstrapMu

Inputs == 1 .. Texts

\* The members of S, in the order the adapter sends them.
Batches(S) == {B \in SUBSET S : Cardinality(B) = IF Cardinality(S) < BatchSize
                                                 THEN Cardinality(S) ELSE BatchSize}

InNamespace(n) == {r \in Records : NamespaceOf[r] = n}

Present(R) == {r \in R : store[r] # 0}

\* A goroutine that calls nothing.
Idle == [at |-> "idle", op |-> "health", ns |-> CHOOSE n \in Namespaces : TRUE,
         recs |-> {}, dim |-> 0, attempt |-> 1, left |-> {}, found |-> {},
         done |-> {}, got |-> <<>>, cancelled |-> FALSE, outcome |-> "none"]

\* What a caller may ask for: upserts and deletes name records, upserts and queries
\* have an embedding, a drop is about a whole namespace.
Requests ==
  {q \in [op : Ops, ns : Namespaces, recs : SUBSET Records, dim : Values] :
     /\ q.recs \subseteq InNamespace(q.ns)
     /\ q.op \in {"upsert", "delete"} => q.recs # {}
     /\ q.op = "drop" => q.recs = InNamespace(q.ns)
     /\ q.op \in {"query", "health", "embed"} => q.recs = {}
     /\ q.op \in {"upsert", "query"} <=> q.dim # 0
     /\ q.op \in {"health", "embed"} => q.ns = Idle.ns}

ASSUME AskedAssumption == Asked \subseteq Requests

NewValue(o) == IF o.op = "upsert" THEN o.dim ELSE 0

Written(R, v) == [r \in Records |-> IF r \in R THEN v ELSE store[r]]

Init ==
  /\ backend \in Backends
  /\ store = [r \in Records |-> 0]
  /\ coll = 0
  /\ boot = [p \in Processes |-> 0]
  /\ call = [c \in Callers |-> Idle]
  /\ stray = {}
  /\ calls = 0 /\ faults = 0
-----------------------------------------------------------------------------
(* The retry loop. *)

Goto(c, pc) == call' = [call EXCEPT ![c].at = pc]

\* A caller asks for an operation of the backend.
Begin(c, q) ==
  /\ call[c].at = "idle"
  /\ calls < MaxCalls
  /\ call' = [call EXCEPT ![c] = [Idle EXCEPT !.at = "attempt", !.op = q.op, !.ns = q.ns,
                                      !.dim = q.dim, !.recs = q.recs, !.left = q.recs]]
  /\ calls' = calls + 1
  /\ UNCHANGED <<backend, store, coll, boot, stray, faults>>

Returned(outcome) == [Idle EXCEPT !.outcome = outcome]

\* What an attempt that ended with an error leaves.
Failed(o, retryable) ==
  IF ~retryable \/ o.attempt = MaxAttempts THEN Returned("failed")
  ELSE [o EXCEPT !.at = "backoff"]

\* The adapter's checks of the namespace, the IDs and each embedding fail, before any
\* effect: SQLite's are made inside the transaction, Qdrant's before the first request.
Refuse(c) ==
  /\ call[c].at = "attempt" /\ call[c].attempt = 1
  /\ call[c].op # "health"
  /\ call' = [call EXCEPT ![c] = Returned("failed")]
  /\ UNCHANGED <<backend, store, coll, boot, stray, calls, faults>>

StartAttempt(c) ==
  LET o == call[c] IN
  /\ o.at = "attempt"
  /\ call' = [call EXCEPT ![c] =
       IF o.cancelled THEN Returned("failed")
       ELSE [o EXCEPT !.at = IF o.op = "embed" THEN "embed"
                             ELSE IF backend = "sqlite" THEN "tx"
                             ELSE IF o.op \in {"upsert", "query"} THEN "ensure"
                             ELSE IF o.op = "health" THEN "ping" ELSE "read"]]
  /\ UNCHANGED <<backend, store, coll, boot, stray, calls, faults>>

\* Mutant: the attempts are not counted.
NextAttemptForever(o) == [o EXCEPT !.at = "attempt", !.left = o.recs, !.found = {}, !.got = <<>>]

\* The next attempt runs the whole operation again.
NextAttempt(o) == [o EXCEPT !.at = "attempt", !.attempt = @ + 1, !.left = o.recs,
                            !.found = {}, !.got = <<>>]

Backoff(c) ==
  LET o == call[c] IN
  /\ o.at = "backoff"
  /\ call' = [call EXCEPT ![c] = IF o.cancelled THEN Returned("failed") ELSE NextAttempt(o)]
  /\ UNCHANGED <<backend, store, coll, boot, stray, calls, faults>>

\* The caller's context is cancelled: the server stops, or a watcher does.
Cancel(c) ==
  /\ call[c].at # "idle" /\ ~call[c].cancelled
  /\ faults < MaxFaults
  /\ call' = [call EXCEPT ![c].cancelled = TRUE]
  /\ faults' = faults + 1
  /\ UNCHANGED <<backend, store, coll, boot, stray, calls>>
-----------------------------------------------------------------------------
(* The SQLite adapter: an attempt is one transaction. *)

\* The call succeeds, its last change being that of R.
Succeeds(c, R) ==
  /\ store' = Written(R, NewValue(call[c]))
  /\ call' = [call EXCEPT ![c] = Returned("ok")]
  /\ UNCHANGED <<backend, boot, stray, calls, faults>>

SqlUpsert(c) ==
  /\ call[c].at = "tx" /\ call[c].op = "upsert"
  /\ Succeeds(c, call[c].recs) /\ UNCHANGED coll

SqlDelete(c) ==
  /\ call[c].at = "tx" /\ call[c].op = "delete"
  /\ Succeeds(c, call[c].recs) /\ UNCHANGED coll

SqlDropNamespace(c) ==
  /\ call[c].at = "tx" /\ call[c].op = "drop"
  /\ Succeeds(c, call[c].recs) /\ UNCHANGED coll

\* A query reads the rows of its namespace and fails on the first of another dimension.
Mixed(o) == \E r \in Present(InNamespace(o.ns)) : store[r] # o.dim

SqlQuery(c) ==
  /\ call[c].at = "tx" /\ call[c].op = "query"
  /\ call' = [call EXCEPT ![c] = IF Mixed(call[c]) THEN Failed(call[c], FALSE)
                                 ELSE Returned("ok")]
  /\ UNCHANGED <<backend, store, coll, boot, stray, calls, faults>>

SqlHealth(c) ==
  /\ call[c].at = "tx" /\ call[c].op = "health"
  /\ Succeeds(c, {}) /\ UNCHANGED coll

\* The database is busy or the context ends: the transaction is rolled back.
SqlFails(c, retryable) ==
  /\ call[c].at = "tx"
  /\ call' = [call EXCEPT ![c] = Failed(call[c], retryable /\ ~call[c].cancelled)]
  /\ UNCHANGED <<backend, store, coll, boot, stray, calls, faults>>
-----------------------------------------------------------------------------
(* The Qdrant adapter: an attempt is a sequence of requests. *)

Stays == UNCHANGED <<backend, store, coll, boot, stray, calls, faults>>

AfterEnsure(o) == [o EXCEPT !.at = IF o.op = "upsert" THEN "send" ELSE "search"]

\* ensureCollection takes bootstrapMu; a process that has bootstrapped compares
\* the dimension with the cached one, the others read the collection.
Ensure(c) ==
  LET o == call[c]
      b == boot[ProcessOf[c]] IN
  /\ o.at = "ensure"
  /\ \A e \in Callers : ProcessOf[e] = ProcessOf[c] => call[e].at \notin Holding
  /\ call' = [call EXCEPT ![c] = IF b = 0 THEN [o EXCEPT !.at = "readColl"]
                                 ELSE IF b = o.dim THEN AfterEnsure(o) ELSE Failed(o, FALSE)]
  /\ Stays

\* The collection is there, with the caller's dimension or another one, or is missing.
ReadCollection(c) ==
  LET o == call[c] IN
  /\ o.at = "readColl"
  /\ call' = [call EXCEPT ![c] = IF coll = 0 THEN [o EXCEPT !.at = "create"]
                                 ELSE IF coll = o.dim THEN AfterEnsure(o) ELSE Failed(o, FALSE)]
  /\ boot' = IF coll = o.dim THEN [boot EXCEPT ![ProcessOf[c]] = coll] ELSE boot
  /\ UNCHANGED <<backend, store, coll, stray, calls, faults>>

\* Mutant: an existing collection counts as created.
CreateCollectionAnyway(c) ==
  LET o == call[c] IN
  /\ o.at = "create"
  /\ call' = [call EXCEPT ![c] = AfterEnsure(o)]
  /\ boot' = [boot EXCEPT ![ProcessOf[c]] = o.dim]
  /\ coll' = IF coll = 0 THEN o.dim ELSE coll
  /\ UNCHANGED <<backend, store, stray, calls, faults>>

\* Creating a collection that another process created in between is an error.
CreateCollection(c) ==
  LET o == call[c] IN
  /\ o.at = "create"
  /\ call' = [call EXCEPT ![c] = IF coll = 0 THEN AfterEnsure(o) ELSE Failed(o, FALSE)]
  /\ boot' = IF coll = 0 THEN [boot EXCEPT ![ProcessOf[c]] = o.dim] ELSE boot
  /\ coll' = IF coll = 0 THEN o.dim ELSE coll
  /\ UNCHANGED <<backend, store, stray, calls, faults>>

\* Mutant: the last batch is not sent.
UpsertPointsButLast(c, B) ==
  LET o == call[c] IN
  /\ o.at = "send"
  /\ B \in Batches(o.left)
  /\ coll = o.dim
  /\ Succeeds(c, B)
  /\ UNCHANGED coll

\* One batch of points is stored; after the last one the call succeeds.
UpsertPoints(c, B) ==
  LET o == call[c] IN
  /\ o.at = "send"
  /\ B \in Batches(o.left)
  /\ coll = o.dim
  /\ IF B = o.left THEN Succeeds(c, B)
     ELSE /\ store' = Written(B, o.dim)
          /\ call' = [call EXCEPT ![c] = [o EXCEPT !.left = @ \ B, !.done = @ \cup B]]
          /\ UNCHANGED <<backend, boot, stray, calls, faults>>
  /\ UNCHANGED coll

Search(c) ==
  /\ call[c].at = "search"
  /\ Succeeds(c, {}) /\ UNCHANGED coll

\* Health asks for the list of collections before it reads its own.
Ping(c) ==
  /\ call[c].at = "ping"
  /\ Goto(c, "read")
  /\ Stays

\* Without a collection there is nothing to delete.
ReadDimension(c) ==
  LET o == call[c] IN
  /\ o.at = "read"
  /\ call' = [call EXCEPT ![c] =
       IF coll = 0 \/ o.op = "health" THEN Returned("ok")
       ELSE [o EXCEPT !.at = IF o.op = "delete" THEN "lookup" ELSE "count"]]
  /\ Stays

\* Which of the points are there, in this namespace; the others are done.
LookupPoints(c) ==
  LET o == call[c]
      F == Present(o.recs) IN
  /\ o.at = "lookup"
  /\ call' = [call EXCEPT ![c] = IF F = {} THEN Returned("ok")
                                 ELSE [o EXCEPT !.at = "remove", !.found = F,
                                                !.done = @ \cup (o.recs \ F)]]
  /\ Stays

RemovePoints(c) ==
  /\ call[c].at = "remove"
  /\ Succeeds(c, call[c].found) /\ UNCHANGED coll

CountNamespace(c) ==
  LET o == call[c] IN
  /\ o.at = "count"
  /\ call' = [call EXCEPT ![c] = IF Present(o.recs) = {} THEN Returned("ok")
                                 ELSE [o EXCEPT !.at = "clear"]]
  /\ Stays

ClearNamespace(c) ==
  /\ call[c].at = "clear"
  /\ Succeeds(c, call[c].recs) /\ UNCHANGED coll

\* The change a request asks for, while the caller waits for its answer.
InFlight(o) ==
  CASE o.at = "send" -> Batches(o.left)
    [] o.at = "remove" -> {o.found}
    [] o.at = "clear" -> {o.recs}
    [] OTHER -> {{}}

\* The request fails in transit or is refused: the server has not acted.
RequestFails(c, retryable) ==
  /\ call[c].at \in Sending
  /\ call' = [call EXCEPT ![c] = Failed(call[c], retryable /\ ~call[c].cancelled)]
  /\ UNCHANGED <<backend, store, coll, boot, stray, calls, faults>>

\* The server has acted and the answer is lost.
AnswerLost(c, retryable) ==
  LET o == call[c] IN
  /\ o.at \in {"create", "send", "remove", "clear"}
  /\ faults < MaxFaults
  /\ \E B \in InFlight(o) :
       /\ store' = Written(B, NewValue(o))
       /\ call' = [call EXCEPT ![c] = Failed([o EXCEPT !.done = @ \cup B],
                                             retryable /\ ~o.cancelled)]
  /\ coll' = IF o.at = "create" /\ coll = 0 THEN o.dim ELSE coll
  /\ faults' = faults + 1
  /\ UNCHANGED <<backend, boot, stray, calls>>

\* The attempt times out, or the context ends, while a request is under way.
TimeOut(c) ==
  LET o == call[c] IN
  /\ o.at \in {"send", "remove", "clear"}
  /\ faults < MaxFaults
  /\ \E B \in InFlight(o) : stray' = stray \cup {[recs |-> B, value |-> NewValue(o)]}
  /\ call' = [call EXCEPT ![c] = Failed(o, ~o.cancelled)]
  /\ faults' = faults + 1
  /\ UNCHANGED <<backend, store, coll, boot, calls>>

\* An abandoned request reaches the server after all, or never will.
Arrive(w) ==
  /\ w \in stray
  /\ stray' = stray \ {w}
  /\ store' \in {store, Written(w.recs, w.value)}
  /\ UNCHANGED <<backend, coll, boot, call, calls, faults>>
-----------------------------------------------------------------------------
(* The embedding clients. *)

\* vLLM answers with one datum per input, in any order, each with its index.
Replies(first, n) ==
  {s \in [1 .. n -> [index : 0 .. n - 1, of : Inputs]] :
     /\ \A i \in 1 .. n : s[i].of = first + s[i].index
     /\ \A i, j \in 1 .. n : i # j => s[i].index # s[j].index}

\* Mutant: the embeddings are taken in the order they arrive.
AsReceived(s) == [i \in DOMAIN s |-> s[i].of]

\* normalizeVLLMEmbeddingData puts each embedding at its index.
Normalized(s) ==
  [i \in DOMAIN s |-> (CHOOSE d \in {s[j] : j \in DOMAIN s} : d.index = i - 1).of]

\* One batch of inputs is embedded; after the last one the call succeeds.
EmbedTexts(c) ==
  LET o == call[c]
      done == Len(o.got)
      n == IF Texts - done < EmbedBatch THEN Texts - done ELSE EmbedBatch IN
  /\ o.at = "embed"
  /\ \E s \in Replies(done + 1, n) :
       LET got == o.got \o Normalized(s) IN
       call' = [call EXCEPT ![c] = IF Len(got) = Texts
                                   THEN Returned("ok")
                                   ELSE [o EXCEPT !.got = got]]
  /\ Stays
-----------------------------------------------------------------------------
SqlStep(c) == SqlUpsert(c) \/ SqlDelete(c) \/ SqlDropNamespace(c) \/ SqlQuery(c) \/ SqlHealth(c)

QdrantStep(c) ==
  \/ Ensure(c) \/ ReadCollection(c) \/ CreateCollection(c)
  \/ \E B \in SUBSET Records : UpsertPoints(c, B)
  \/ Search(c) \/ Ping(c) \/ ReadDimension(c) \/ LookupPoints(c) \/ RemovePoints(c)
  \/ CountNamespace(c) \/ ClearNamespace(c)

Fault(c) ==
  \/ Cancel(c) \/ TimeOut(c)
  \/ \E retryable \in BOOLEAN :
       SqlFails(c, retryable) \/ RequestFails(c, retryable) \/ AnswerLost(c, retryable)

Step(c) == StartAttempt(c) \/ Refuse(c) \/ Backoff(c) \/ SqlStep(c) \/ QdrantStep(c) \/ EmbedTexts(c)

Next ==
  \/ \E c \in Callers :
       \/ \E q \in Asked : Begin(c, q)
       \/ Step(c)
       \/ Fault(c)
  \/ \E w \in stray : Arrive(w)

\* A call that has begun goes on: each request is answered, fails or times out.
Fairness == \A c \in Callers : WF_vars(Step(c) \/ Fault(c))

Spec == Init /\ [][Next]_vars

FairSpec == Spec /\ Fairness
-----------------------------------------------------------------------------

\* The dimension a process cached when it bootstrapped is the collection's, although
\* processes create the collection concurrently: no process sends vectors that the
\* collection refuses (qdrant/adapter.go, ensureCollection).
BootAgrees == \A p \in Processes : boot[p] \in {0, coll}

\* The n-th embedding a call has received belongs to the n-th text, over all batches
\* and whatever the order of the data in an answer: a chunk is never stored with the
\* vector of another chunk (embeddings/vllm.go, embeddings/ollama.go).
EmbeddingsInOrder == \A c \in Callers : \A i \in DOMAIN call[c].got : call[c].got[i] = i

\* Every call returns, whatever fails, is retried or waits for bootstrapMu
\* (orchestration/vector_resilience.go).
CallEnds == \A c \in Callers : call[c].at # "idle" ~> call[c].at = "idle"

\* Both adapters keep the promise of the backend interface: a call that succeeds has
\* been carried out in full, whatever attempts failed before, and nothing but a running
\* call or an abandoned request changes a record.
Contract == INSTANCE VectorContract WITH
  Absent <- 0,
  ask <- [c \in Callers |-> [on |-> call[c].at # "idle", recs |-> call[c].recs,
                             value |-> NewValue(call[c]), done |-> call[c].done,
                             outcome |-> call[c].outcome]]

KeepsContract == Contract!Spec
=============================================================================
