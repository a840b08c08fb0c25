----------------------------- MODULE Retrieval ------------------------------
(***************************************************************************)
(* The read tools together.  Calls of different tools share the index and   *)
(* the files, which they only read, and nothing else: the service runs the  *)
(* machines of ImportGraph, SymbolTools and TextSearch in any order.        *)
(***************************************************************************)
EXTENDS ImportGraph, SymbolTools, TextSearch

retrievalVars == <<graphVars, symbolVars, textVars>>

RetrievalInit == GraphInit /\ SymbolInit /\ TextInit

RetrievalNext ==
  \/ GraphNext /\ UNCHANGED <<symbolVars, textVars>>
  \/ SymbolNext /\ UNCHANGED <<graphVars, textVars>>
  \/ TextNext /\ UNCHANGED <<graphVars, symbolVars>>

RetrievalSpec == RetrievalInit /\ [][RetrievalNext]_retrievalVars /\ SymbolFairness
-----------------------------------------------------------------------------
\* A tool that reads files while they are edited answers from what they held during its
\* call: no file of a graph, verdict, line or import list comes from nowhere, and nothing
\* that stood throughout is missing without being called so.
ReadsBetweenSnapshots ==
  /\ GraphBetweenSnapshots /\ VerdictsWereTrue /\ UnreferencedIsUnused
  /\ TextBetweenSnapshots /\ OneImportListPerFile

\* An answer that is cut, packed, merged or compared leaves nothing out that it would have
\* to show before what it shows, and a caller can tell that nothing was cut.
NothingLeftOut == RankingHonest /\ HybridMonotone /\ DiffAccountsForAll
=============================================================================
