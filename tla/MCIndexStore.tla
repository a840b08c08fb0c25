---------------------------- MODULE MCIndexStore ----------------------------
(***************************************************************************)
(* Three goroutines of one server process.                                 *)
(***************************************************************************)
EXTENDS IndexStore, TLC

CONSTANTS mcpLoop, watcherLoop, other, server, r1, r2

MCOneProcess == [c \in Callers |-> server]
MCAnyCall == [c \in Callers |-> Kinds]

\* The goroutines of one process may be exchanged for each other.
MCSymmetry == Permutations({mcpLoop, watcherLoop, other})
=============================================================================
