--------------------------- MODULE VectorContract ---------------------------
(***************************************************************************)
(* What a vector backend promises to its callers (domain/indexing/         *)
(* vector_contracts.go), whichever backend stores the vectors: a call       *)
(* wants some records to hold one value; its change takes effect in one or  *)
(* more steps while the call runs; a call that succeeds has been carried    *)
(* out in full; a call that fails has been carried out for some part; and   *)
(* a request whose answer nobody awaits any more may still take effect.     *)
(***************************************************************************)
CONSTANTS Callers,  \* goroutines that call the backend
          Records,  \* vector records, each of one namespace
          Values,   \* what a record may hold: Absent, or an embedding's dimension
          Absent

VARIABLES store,    \* what each record holds
          ask,      \* what each caller is waiting for
          stray     \* requests that were abandoned and may still arrive

vars == <<store, ask, stray>>

Outcomes == {"none", "ok", "failed"}

Asks == [on : BOOLEAN, recs : SUBSET Records, value : Values, done : SUBSET Records,
         outcome : Outcomes]

\* A caller that waits for nothing, and how its last call ended.
Ended(outcome) ==
  [on |-> FALSE, recs |-> {}, value |-> Absent, done |-> {}, outcome |-> outcome]

Writes == [recs : SUBSET Records, value : Values]

TypeOK ==
  /\ store \in [Records -> Values]
  /\ ask \in [Callers -> Asks]
  /\ stray \subseteq Writes

Init ==
  /\ store \in [Records -> Values]
  /\ ask = [c \in Callers |-> Ended("none")]
  /\ stray = {}

\* The store after the records R were given the value v.
Written(R, v) == [r \in Records |-> IF r \in R THEN v ELSE store[r]]

Ask(c, R, v) ==
  /\ ~ask[c].on
  /\ ask' = [ask EXCEPT ![c] = [on |-> TRUE, recs |-> R, value |-> v, done |-> {},
                               outcome |-> "none"]]
  /\ UNCHANGED <<store, stray>>

\* The change takes effect for the records R; the caller may or may not learn of it.
Effect(c, R) ==
  /\ ask[c].on
  /\ store' = Written(R, ask[c].value)
  /\ ask' = [ask EXCEPT ![c].done = @ \cup R]
  /\ UNCHANGED stray

\* The last part of the change takes effect and the call succeeds.
Succeed(c, R) ==
  /\ ask[c].on
  /\ ask[c].recs \subseteq ask[c].done \cup R
  /\ store' = Written(R, ask[c].value)
  /\ ask' = [ask EXCEPT ![c] = Ended("ok")]
  /\ UNCHANGED stray

\* The call fails, with or without an effect of its last request.
Fail(c, R) ==
  /\ ask[c].on
  /\ store' = Written(R, ask[c].value)
  /\ ask' = [ask EXCEPT ![c] = Ended("failed")]
  /\ UNCHANGED stray

\* The caller stops waiting for a request, and perhaps for the whole call.
Abandon(c, R, ends) ==
  /\ ask[c].on
  /\ stray' = stray \cup {[recs |-> R, value |-> ask[c].value]}
  /\ ask' = IF ends THEN [ask EXCEPT ![c] = Ended("failed")] ELSE ask
  /\ UNCHANGED store

\* An abandoned request arrives after all, or is lost for good.
Arrive(w) ==
  /\ w \in stray
  /\ stray' = stray \ {w}
  /\ store' \in {store, Written(w.recs, w.value)}
  /\ UNCHANGED ask

Next ==
  \/ \E c \in Callers :
       \/ \E R \in SUBSET Records, v \in Values : Ask(c, R, v)
       \/ \E R \in SUBSET ask[c].recs :
            \/ Effect(c, R)
            \/ Succeed(c, R)
            \/ Fail(c, R)
            \/ \E ends \in BOOLEAN : Abandon(c, R, ends)
  \/ \E w \in stray : Arrive(w)

Spec == Init /\ [][Next]_vars
=============================================================================
