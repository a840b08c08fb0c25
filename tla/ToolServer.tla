----------------------------- MODULE ToolServer -----------------------------
(***************************************************************************)
(* A server process from its start to its exit: main and the stdio loop     *)
(* (transport/mcp), one tool call after the other through CallTool           *)
(* (orchestration/service.go, validation.go, service_telemetry.go), and the  *)
(* shutdown (src/server/server.go).  The client sends messages and closes   *)
(* the pipe when it likes, project files are edited between and during       *)
(* calls, SIGTERM may arrive at any moment, and a handler may answer, fail   *)
(* or panic.  A payload is its error flag, the fields of its _meta, and      *)
(* whether it holds a number that JSON has no word for.                      *)
(***************************************************************************)
EXTENDS Naturals, Sequences, FiniteSets

CONSTANTS Messages,        \* what a client may send
          MaxMessages,     \* bound: messages of one client
          Configs,         \* process configurations
          Tools,           \* the names of ToolDefinitions
          NoRepoMeta,      \* nonRepoFreshnessMetaExcludedTools
          Properties,      \* the arguments of the tools' schemas: their type
          Required,        \* and the required ones
          ProjectFiles     \* the disabled_tools a project's file may have, or NoFile

VARIABLES cfg,      \* the configuration
          sent,     \* the messages of the client
          hungUp,   \* the client has closed its end
          signal,   \* SIGTERM has cancelled the context
          project,  \* disabled_tools of the project's file now
          loop,     \* where the process is, and how many messages it has read
          call,     \* the CallTool in progress
          answers,  \* the responses written: the message and the payload
          begun, records,  \* calls of CallTool, and calls in the telemetry
          closing   \* what failed in the shutdown, and the exit code

serverVars == <<cfg, sent, hungUp, signal, project, loop, call, answers, begun, records, closing>>

NoFile == {"no file"}
Kinds == {"absent", "null", "word", "truth", "digits", "decimal", "bool", "int", "float", "array", "object"}
Payload(isError, hasMeta, meta, nan) ==
  [isError |-> isError, hasMeta |-> hasMeta, meta |-> meta, nan |-> nan]
NoPayload == Payload(FALSE, FALSE, {}, FALSE)
ErrorPayload == Payload(TRUE, FALSE, {}, FALSE)
CallIdle == [args |-> [p \in DOMAIN Properties |-> "absent"], expired |-> FALSE, payload |-> NoPayload]
Message == sent[loop.read]

\* A blank line before any header is no request.
ASSUME BlankAssumption == \A m \in Messages : m.method = "blank" => ~m.id

Goto(place) == loop' = [loop EXCEPT !.at = place]

ServerInit ==
  /\ cfg \in Configs /\ sent = <<>> /\ hungUp = FALSE /\ signal = FALSE
  /\ project \in ProjectFiles
  /\ loop = [at |-> "starting", read |-> 0] /\ call = CallIdle /\ answers = <<>>
  /\ begun = 0 /\ records = 0 /\ closing = [errors |-> {}, code |-> 0]
-----------------------------------------------------------------------------
(* The client, the editor of the project's file, the signal. *)
Send ==
  /\ ~hungUp /\ Len(sent) < MaxMessages
  /\ \E m \in Messages : sent' = Append(sent, m)
  /\ UNCHANGED <<cfg, hungUp, signal, project, loop, call, answers, begun, records, closing>>

HangUp ==
  /\ ~hungUp /\ hungUp' = TRUE
  /\ UNCHANGED <<cfg, sent, signal, project, loop, call, answers, begun, records, closing>>

EditProject ==
  /\ loop.at # "exited" /\ project' \in ProjectFiles \ {project}
  /\ UNCHANGED <<cfg, sent, hungUp, signal, loop, call, answers, begun, records, closing>>

Terminate ==
  /\ ~signal /\ signal' = TRUE
  /\ UNCHANGED <<cfg, sent, hungUp, project, loop, call, answers, begun, records, closing>>
-----------------------------------------------------------------------------
(* The loop of Serve. *)
StartWorker ==
  /\ loop.at = "starting"
  /\ \/ Goto("check") /\ UNCHANGED closing
     \/ /\ cfg.watcher /\ Goto("flushing")
        /\ closing' = [closing EXCEPT !.errors = {"start"}]
  /\ UNCHANGED <<cfg, sent, hungUp, signal, project, call, answers, begun, records>>

EndServe(errors) == Goto("stopping") /\ closing' = [closing EXCEPT !.errors = errors]

CheckContext ==
  /\ loop.at = "check"
  /\ IF signal THEN EndServe({"cancelled"}) ELSE Goto("read") /\ UNCHANGED closing
  /\ UNCHANGED <<cfg, sent, hungUp, signal, project, call, answers, begun, records>>

Notification(m) == ~m.id

Unframed == {"garbled", "blank"}

\* Where the dispatch of a message leads.
Route(m) == CASE m.method \in Unframed -> "stopping"
              [] m.method \notin Unframed /\ Notification(m) -> "check"
              [] m.method = "call" /\ ~Notification(m) -> "lookup"
              [] OTHER -> "write"

\* readRPCMessage takes a blank line for the end of the input, other bad frames for errors.
ReadMessage ==
  LET m == sent[loop.read + 1] IN
  /\ loop.at = "read" /\ loop.read < Len(sent)
  /\ loop' = [at |-> Route(m), read |-> loop.read + 1]
  /\ closing' = [closing EXCEPT !.errors = IF m.method = "garbled" THEN {"decode"} ELSE {}]
  /\ begun' = IF Route(m) = "lookup" THEN begun + 1 ELSE begun
  /\ call' = [CallIdle EXCEPT !.args = m.args]
  /\ UNCHANGED <<cfg, sent, hungUp, signal, project, answers, records>>

AtEnd == loop.at = "read" /\ loop.read = Len(sent) /\ hungUp

\* The input may end in the middle of a frame: in its headers or right after them that is an
\* end like any other, in its payload an error.
ReadEnd ==
  /\ AtEnd /\ \E errors \in {{}, {"decode"}} : EndServe(errors)
  /\ UNCHANGED <<cfg, sent, hungUp, signal, project, call, answers, begun, records>>

\* json.MarshalIndent refuses NaN, in the rows of a hybrid search or in its lexical_weight.
Encodable(payload) == ~payload.nan /\ "weight" \notin payload.meta

\* The answer is an error of the protocol, with no payload, when the request was refused or
\* the payload cannot be encoded (dispatch).
ProtocolError == Message.method = "refused" \/ ~Encodable(call.payload)

\* A write may fail; one to a pipe that nobody reads any more kills the process by SIGPIPE,
\* without a shutdown.
Write ==
  /\ loop.at = "write" /\ call' = CallIdle
  /\ \/ /\ Goto("check")
        /\ answers' = Append(answers, [id |-> loop.read, payload |-> call.payload, error |-> ProtocolError])
        /\ UNCHANGED closing
     \/ EndServe({"write"}) /\ UNCHANGED answers
     \/ /\ hungUp /\ Goto("exited") /\ UNCHANGED answers
        /\ closing' = [errors |-> {"sigpipe"}, code |-> 141]
  /\ UNCHANGED <<cfg, sent, hungUp, signal, project, begun, records>>
-----------------------------------------------------------------------------
(* CoerceArguments and ValidateArguments; an argument is what it is and what it spells. *)
Coerced(kind, type) ==
  CASE type = "boolean" /\ kind \in {"truth", "digits"} -> "bool"
    [] type = "integer" /\ kind = "digits" -> "int"
    [] type = "number" /\ kind \in {"digits", "decimal"} -> "float"
    [] OTHER -> kind

Matches(kind, type) ==
  kind \in (CASE type = "string" -> {"word", "truth", "digits", "decimal"}
              [] type = "boolean" -> {"bool"}
              [] type = "integer" -> {"int"}
              [] type = "number" -> {"int", "float"}
              [] type = "array" -> {"array"}
              [] type = "object" -> {"object"}
              [] OTHER -> Kinds)

CoercedArguments(args) == [p \in DOMAIN Properties |-> Coerced(args[p], Properties[p])]

Valid(args) ==
  \A p \in DOMAIN Properties :
    /\ p \in Required => args[p] \notin {"absent", "null"}
    /\ args[p] = "absent" \/ Matches(args[p], Properties[p])

\* The arguments that name a repository of the index store.
NamesRepo == "repo" \in DOMAIN Properties /\ call.args["repo"] # "absent"
-----------------------------------------------------------------------------
(* CallTool. *)
\* A mutation: an internal error is answered without the deferred finalize.
ConcludeAtOnce(payload) == Goto("write") /\ call' = [call EXCEPT !.payload = payload]

ConcludeError(payload) == Goto("finalize") /\ call' = [call EXCEPT !.payload = payload]

Registered == Tools \ cfg.disabled

CallerLookup ==
  /\ loop.at = "lookup"
  /\ \E args \in {CoercedArguments(call.args)} :
       IF Message.tool \in Registered /\ Valid(args)
       THEN Goto("await") /\ call' = [call EXCEPT !.args = args]
       ELSE ConcludeError(ErrorPayload)
  /\ UNCHANGED <<cfg, sent, hungUp, signal, project, answers, begun, records, closing>>

\* The request's timeout, or the cancellation of the process's context above it.
Over == call.expired \/ signal

Expire ==
  /\ cfg.timed /\ loop.at \in {"await", "gate", "handler", "fresh"} /\ ~call.expired
  /\ call' = [call EXCEPT !.expired = TRUE]
  /\ UNCHANGED <<cfg, sent, hungUp, signal, project, loop, answers, begun, records, closing>>

\* In strict mode WaitForFresh, which returns after half a second or sooner.
AwaitFreshness ==
  /\ loop.at = "await"
  /\ IF Over THEN ConcludeError(ErrorPayload) ELSE Goto("gate") /\ UNCHANGED call
  /\ UNCHANGED <<cfg, sent, hungUp, signal, project, answers, begun, records, closing>>

\* The project's file decides when it has the key.  It is read for a call that names a
\* repository, once the repository is found among those the index store lists.
ScopedDisabled(found) == IF found /\ project # NoFile THEN project ELSE cfg.disabled

Gate ==
  /\ loop.at = "gate"
  /\ \E found \in BOOLEAN :
       IF NamesRepo /\ Message.tool \in ScopedDisabled(found)
       THEN ConcludeError(ErrorPayload) ELSE Goto("handler") /\ UNCHANGED call
  /\ UNCHANGED <<cfg, sent, hungUp, signal, project, answers, begun, records, closing>>

\* The handler returns a payload (with a _meta of its own or without, an error or not),
\* no payload, an error, or panics.  A hybrid search with an infinite weight returns NaN for
\* the weight and for the scores of its rows, if it has any.
Handle ==
  /\ loop.at = "handler"
  /\ \/ /\ Goto("fresh")
        /\ \E isError, own \in BOOLEAN :
             call' = [call EXCEPT !.payload = Payload(isError, own, IF own THEN {"own"} ELSE {}, FALSE)]
     \/ /\ Goto("fresh")
        /\ \E rows \in BOOLEAN :
             call' = [call EXCEPT !.payload = Payload(FALSE, TRUE, {"own", "weight"}, rows)]
     \/ Goto("finalize") /\ call' = [call EXCEPT !.payload = NoPayload]
     \/ ConcludeError(ErrorPayload)
  /\ UNCHANGED <<cfg, sent, hungUp, signal, project, answers, begun, records, closing>>

WithFreshness(payload, known) ==
  [payload EXCEPT !.hasMeta = TRUE, !.meta = IF known THEN @ \cup {"fresh"} ELSE @]

\* attachFreshnessMeta: nothing when the controller's Query fails.
AttachFreshness ==
  /\ loop.at = "fresh" /\ Goto("finalize")
  /\ \E known \in {NamesRepo \/ Message.tool \notin NoRepoMeta} \cup
                  (IF NamesRepo THEN {FALSE} ELSE {}) :
       call' = [call EXCEPT !.payload = WithFreshness(@, known)]
  /\ UNCHANGED <<cfg, sent, hungUp, signal, project, answers, begun, records, closing>>

\* applyMetaPolicy.
Policed(payload) ==
  LET kept == payload.meta \cap cfg.meta.fields IN
  CASE cfg.meta.mode = "all" -> payload
    [] cfg.meta.mode # "all" /\ (cfg.meta.mode = "none" \/ kept = {}) ->
         [payload EXCEPT !.hasMeta = FALSE, !.meta = {}]
    [] OTHER -> [payload EXCEPT !.meta = kept]

WithSavings(payload) == [payload EXCEPT !.hasMeta = TRUE, !.meta = @ \cup {"saved"}]

FinalPayload(payload) == Policed(WithSavings(payload))

\* The deferred finalizeToolPayload; the collector does not panic.
Finalize ==
  /\ loop.at = "finalize" /\ Goto("write")
  /\ call' = [call EXCEPT !.payload = FinalPayload(@)]
  /\ records' = IF cfg.telemetry THEN records + 1 ELSE records
  /\ UNCHANGED <<cfg, sent, hungUp, signal, project, answers, begun, closing>>
-----------------------------------------------------------------------------
(* The shutdown: the deferred Stop of the worker, then Close, which closes the telemetry
   and the vector backend and joins their errors. *)
Shut(from, place, part) ==
  /\ loop.at = from /\ Goto(place)
  /\ \E errors \in {{}, {part}} : closing' = [closing EXCEPT !.errors = @ \cup errors]
  /\ UNCHANGED <<cfg, sent, hungUp, signal, project, call, answers, begun, records>>

\* Stop's error is kept only when Serve had none.
StopWorker ==
  /\ loop.at = "stopping" /\ Goto("flushing")
  /\ \/ UNCHANGED closing
     \/ /\ cfg.watcher /\ closing.errors = {}
        /\ closing' = [closing EXCEPT !.errors = {"worker"}]
  /\ UNCHANGED <<cfg, sent, hungUp, signal, project, call, answers, begun, records>>

CloseTelemetry == Shut("flushing", "backend", "telemetry")
CloseBackend == Shut("backend", "exiting", "backend")

ExitCode == IF closing.errors = {} \/ "cancelled" \in closing.errors THEN 0 ELSE 1

Exit ==
  /\ loop.at = "exiting" /\ Goto("exited")
  /\ closing' = [closing EXCEPT !.code = ExitCode]
  /\ UNCHANGED <<cfg, sent, hungUp, signal, project, call, answers, begun, records>>

ServerStep ==
  \/ StartWorker \/ CheckContext \/ ReadMessage \/ ReadEnd \/ Write
  \/ CallerLookup \/ AwaitFreshness \/ Gate \/ Handle \/ AttachFreshness \/ Finalize
  \/ StopWorker \/ CloseTelemetry \/ CloseBackend \/ Exit

ServerNext == ServerStep \/ Send \/ HangUp \/ EditProject \/ Terminate \/ Expire

\* The process runs, and handlers return: their calls to other services have time limits.
\* Nothing is asked of the client.
ServerFairness == WF_serverVars(ServerStep)

ServerSpec == ServerInit /\ [][ServerNext]_serverVars /\ ServerFairness
-----------------------------------------------------------------------------
Calling == loop.at \in {"lookup", "await", "gate", "handler", "fresh", "finalize"}

Answered == {answers[i].id : i \in DOMAIN answers}
Requests(n) == {i \in 1 .. n : sent[i].id}

\* Every request read has one answer, in the order they came, and a notification none,
\* whichever way the requests ended.
OneAnswerEach ==
  /\ \A i, j \in DOMAIN answers : i < j => answers[i].id < answers[j].id
  /\ loop.at \in {"check", "read"} => Answered = Requests(loop.read)

\* Every call of CallTool is in the telemetry once when it has been answered: unknown
\* tools, refused arguments, disabled tools, timeouts, errors and panics too.
RecordedOnce ==
  cfg.telemetry => records = begun - (IF Calling THEN 1 ELSE 0)

\* _meta is what the configuration asks for on every answer of a tool, those that never
\* reached a handler included: stripped, or only the listed fields, or always there.  Only a
\* payload that cannot be encoded, once the policy has left what it leaves, is answered by an
\* error of the protocol instead.
MetaAsConfigured ==
  \A i \in DOMAIN answers :
    LET m == sent[answers[i].id]
        p == answers[i].payload
    IN  m.method = "call" =>
          /\ CASE cfg.meta.mode = "all" -> p.hasMeta /\ "saved" \in p.meta
               [] cfg.meta.mode = "none" -> ~p.hasMeta
               [] OTHER -> p.meta \subseteq cfg.meta.fields
          /\ answers[i].error <=> ~Encodable(p)

\* A tool the process disables never runs, whatever a project's file says (its
\* disabled_tools replaces the set) and whether the call names a repository or not.
DisabledNeverRuns == loop.at = "handler" => Message.tool \notin cfg.disabled

\* The client has closed its end and all it sent was read, or it has sent a blank line.
InputOver ==
  \/ hungUp /\ loop.read = Len(sent)
  \/ loop.read > 0 /\ Message.method = "blank"

\* An exit code of 0 without a signal: the input was over, every request read has its answer,
\* and nothing failed, the shutdown included.
ExitCodeHonest ==
  loop.at = "exited" /\ closing.code = 0 /\ ~signal =>
    closing.errors = {} /\ Answered = Requests(loop.read) /\ InputOver

\* What the server tells is what happened: the client by its answers, the telemetry by
\* its records and whoever started the process by the exit code.
ServerAccounts ==
  /\ OneAnswerEach /\ RecordedOnce /\ MetaAsConfigured
  /\ DisabledNeverRuns /\ ExitCodeHonest

\* A client that hangs up ends the process, whatever is in progress.
HangUpEnds == hungUp ~> loop.at = "exited"

\* "Serve processes requests until EOF or context cancellation" (transport/mcp/server.go).
SignalEnds == signal ~> loop.at = "exited"
=============================================================================
