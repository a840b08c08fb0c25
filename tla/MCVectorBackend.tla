-------------------------- MODULE MCVectorBackend ---------------------------
(* Two goroutines of one server process and one of another, one repository. *)
EXTENDS VectorBackend

CONSTANTS caller1, caller2, remote,  \* callers
          r1, r2                     \* records

MCProcessOf == [c \in Callers |-> IF c = remote THEN 2 ELSE 1]
MCNamespaceOf == [r \in {r1, r2} |-> 1]

\* Two overlapping upserts of different dimensions, a delete of both records, and one
\* request of each other kind.
MCAsked ==
  {[op |-> o, ns |-> 1, recs |-> R, dim |-> n] :
     <<o, R, n>> \in {<<"upsert", {r1, r2}, 1>>, <<"upsert", {r1}, 2>>,
                     <<"delete", {r1, r2}, 0>>, <<"drop", {r1, r2}, 0>>,
                     <<"query", {}, 1>>, <<"health", {}, 0>>, <<"embed", {}, 0>>}}
=============================================================================
