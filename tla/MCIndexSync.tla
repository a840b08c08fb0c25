----------------------------- MODULE MCIndexSync -----------------------------
(***************************************************************************)
(* Small instances of IndexSync.  Two contents share one chunk, so that a  *)
(* change of content adds a chunk, drops a chunk and keeps a chunk.        *)
(***************************************************************************)
EXTENDS IndexSync, TLC

CONSTANTS p, q, watcherLoop, mcpLoop, server

MCContents == {"v1", "v2"}
MCPartsOf == [c \in MCContents |-> {"common", c}]
\* The watcher loop only ever passes changed_paths; the client calls the other tools.
MCKindsOf == (watcherLoop :> {"changed"}) @@ (mcpLoop :> AllKinds \ {"changed"})
MCTrees == {[x \in Paths |-> "v1"]}
SameServer == [c \in Callers |-> server]
=============================================================================
