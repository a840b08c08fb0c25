----------------------------- MODULE MCReindex ------------------------------
(* What runs inside the lifecycle of a reindex: the lifecycle itself, and the runs of
   index_repo; each on its own. *)
EXTENDS MCReindexState, RemoteSync

VARIABLE part  \* which of the two runs

\* Three paths and a secret, with room for two in the index.
Tree(one, two, three, ignored) == [files |-> <<one, two, three, "x">>, ignore |-> ignored]

MCTrees == {Tree("x", "x", "y", {}), Tree("y", "absent", "y", {}),
            Tree("binary", "y", "y", {3}), Tree("x", "empty", "large", {2})}
MCIgnores == {{}, {2}}
-----------------------------------------------------------------------------
MCInit ==
  /\ part \in {"lifecycle", "remote"}
  /\ Init /\ RemoteInit
  /\ IF part = "lifecycle" THEN repoIndex = NoIndex /\ remote = Tree("x", "x", "y", {})
     ELSE remote.files[1] = "x"

MCNext ==
  /\ UNCHANGED part
  /\ \/ part = "lifecycle" /\ Next /\ UNCHANGED remoteVars
     \/ part = "remote" /\ RemoteNext /\ UNCHANGED vars

MCVars == <<part, vars, remoteVars>>

\* The fairness of FairSpec, while the lifecycle runs.
MCFairness ==
  /\ \A r \in Runs : /\ WF_vars(part = "lifecycle" /\ MarkReindexStart(r))
                     /\ WF_vars(part = "lifecycle" /\ (MarkReindexDone(r) \/ MarkReindexFailed(r) \/ Panic(r)))
                     /\ WF_vars(part = "lifecycle" /\ Unlock(r))
  /\ \A w \in Waiters : WF_vars(part = "lifecycle" /\ Wake(w))

MCSpec == MCInit /\ [][MCNext]_MCVars /\ MCFairness
=============================================================================
