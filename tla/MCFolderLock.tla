---------------------------- MODULE MCFolderLock ----------------------------
(***************************************************************************)
(* Three processes, one of them with two goroutines that call Start and    *)
(* Stop (the watcher loop and the MCP loop).                               *)
(***************************************************************************)
EXTENDS FolderLock, TLC

CONSTANTS p1, p2, p3, loop1, mcp1, mcp2, mcp3

MCPidOf == (loop1 :> p1) @@ (mcp1 :> p1) @@ (mcp2 :> p2) @@ (mcp3 :> p3)
=============================================================================
