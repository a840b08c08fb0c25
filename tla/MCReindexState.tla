--------------------------- MODULE MCReindexState ---------------------------
(***************************************************************************)
(* Two tool calls, a fallback worker and two sleeping callers: runs of the *)
(* worker overlap those of the calls.                                      *)
(***************************************************************************)
EXTENDS ReindexState, TLC

CONSTANTS mcpCall, watcherCall, worker, w1, w2

=============================================================================
