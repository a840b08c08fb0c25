---------------------------- MODULE MCToolServer ----------------------------
(* Two tools, three configurations, and messages of every kind. *)
EXTENDS ToolServer

\* "search" takes a repository and a number, "stats" takes nothing and "nosuch" is no tool.
Arguments(repo, n) == [repo |-> repo, n |-> n]
NoArguments == Arguments("absent", "absent")
From(id, method, tool, args) == [id |-> id, method |-> method, tool |-> tool, args |-> args]

MCMessages ==
  {From(TRUE, "call", "search", Arguments("word", n)) : n \in {"digits", "word"}} \cup
  {From(TRUE, "call", tool, NoArguments) : tool \in {"search", "stats"}} \cup
  {From(TRUE, method, "nosuch", NoArguments) : method \in {"call", "simple", "refused", "garbled"}} \cup
  {From(FALSE, method, "stats", NoArguments) : method \in {"call", "notify", "blank"}}

MCProperties == [repo |-> "string", n |-> "integer"]

Configured(mode, fields, disabled, timed, watcher, telemetry) ==
  [meta |-> [mode |-> mode, fields |-> fields], disabled |-> disabled, timed |-> timed,
   watcher |-> watcher, telemetry |-> telemetry]

MCConfigs == {Configured("all", {}, {"search"}, TRUE, FALSE, TRUE),
              Configured("none", {}, {}, FALSE, TRUE, TRUE),
              Configured("only", {"fresh"}, {"stats"}, TRUE, TRUE, FALSE)}

MCProjectFiles == {{}, {"search"}}
=============================================================================
