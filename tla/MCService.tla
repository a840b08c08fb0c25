----------------------------- MODULE MCService ------------------------------
(* The parts of a server process that serve the client: each runs on its own. *)
EXTENDS MCToolServer, BatchFanout, Telemetry, TelemetrySchema, TelemetryTrends

VARIABLE part  \* which of the machines below runs

MCWindows == {[duration |-> 5, step |-> 2], [duration |-> 9, step |-> 4]}
-----------------------------------------------------------------------------
NoServer == cfg = CHOOSE c \in Configs : TRUE
NoProject == project = {}
NoBatch == policy = [total |-> 0, parallel |-> FALSE, workers |-> 0, depth |-> 0,
                     degrade |-> FALSE, timed |-> FALSE]
NoDisk == disk = Disk(0, FALSE, FALSE, FALSE, FALSE)

MCInit ==
  /\ part \in {"serve", "fanout", "telemetry", "schema", "trends"}
  /\ part # "serve" => NoServer /\ NoProject
  /\ part # "fanout" => NoBatch
  /\ part # "schema" => NoDisk
  /\ part # "trends" => stored = {}
  /\ ServerInit /\ FanoutInit /\ TelemetryInit /\ SchemaInit /\ TrendsInit

Others(p) ==
  /\ part = p
  /\ p = "serve" \/ UNCHANGED serverVars
  /\ p = "fanout" \/ UNCHANGED fanoutVars
  /\ p = "telemetry" \/ UNCHANGED telemetryVars
  /\ p = "schema" \/ UNCHANGED schemaVars
  /\ p = "trends" \/ UNCHANGED trendVars

MCNext ==
  /\ UNCHANGED part
  /\ \/ Others("serve") /\ ServerNext
     \/ Others("fanout") /\ FanoutNext
     \/ Others("telemetry") /\ TelemetryNext
     \/ Others("schema") /\ SchemaNext
     \/ Others("trends") /\ QueryTrends

MCVars == <<part, serverVars, fanoutVars, telemetryVars, schemaVars, trendVars>>

\* The fairness of the part that runs: ServerFairness, FanoutFairness or TelemetryFairness.
MCFairness ==
  /\ WF_serverVars(part = "serve" /\ ServerStep)
  /\ WF_fanoutVars(part = "fanout" /\ CallerStep)
  /\ \A w \in WorkerIds : WF_fanoutVars(part = "fanout" /\ WorkerStep(w))
  /\ WF_telemetryVars(part = "telemetry" /\ FlushStep)

MCSpec == MCInit /\ [][MCNext]_MCVars /\ MCFairness
-----------------------------------------------------------------------------
\* Nothing in the process hangs: a client that hangs up ends it, a batch returns although
\* items fail and contexts end, and what was recorded reaches a store that works again.
EverythingEnds == HangUpEnds /\ BatchReturns /\ StoreCatchesUp
=============================================================================
