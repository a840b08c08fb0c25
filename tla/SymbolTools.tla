---------------------------- MODULE SymbolTools -----------------------------
(***************************************************************************)
(* The tools about symbols in orchestration/handlers_retrieval.go:          *)
(* search_symbols, get_related_symbols and search_columns rank, cut and     *)
(* pack; get_symbol_diff compares two indexes; get_class_hierarchy walks    *)
(* inheritance both ways; get_context_bundle builds its entries on several  *)
(* workers, which share two caches while the files are edited.              *)
(*                                                                         *)
(* A symbol is a record.  Its lexical score for the query, its token        *)
(* overlap with the symbol of the query and the like are fields.            *)
(***************************************************************************)
EXTENDS CodeBase

CONSTANTS Tables,        \* the symbol tables an index may have
          Searches,      \* bound: the ranking queries
          Classes,       \* class names
          Bundles,       \* bound: the lists of symbols bundled
          Workers,       \* workers of one fan-out
          Texts0,        \* the contents the bundled file may have
          MaxBundleEdits \* bound: edits while a bundle is built

VARIABLES symbols, other, \* the two indexes
          ask,            \* the call under way
          answer,         \* what ranking or a diff returned
          text,           \* the file of the bundled symbols
          importCache, contentCache,  \* its entries in the caches: a set of at most one
          worker,         \* where each worker is
          jobs, entries,  \* what is left of the batch, and what it has produced
          sEdits          \* counter of the bound

symbolVars == <<symbols, other, ask, answer, text, importCache, contentCache, worker, jobs,
                entries, sEdits>>

bundleVars == <<text, importCache, contentCache, worker, jobs, entries, sEdits>>

AskIdle == [tool |-> "none", q |-> 0, class |-> 0, queue |-> <<>>, seen |-> {}, up |-> {}, down |-> {}]
NoAnswer == [rows |-> <<>>, matched |-> {}, truncated |-> FALSE, used |-> 0]
WorkerIdle == [at |-> "idle", id |-> 0, source |-> <<>>, read |-> <<>>]

\* An id and a place tell the symbols of an index apart (a search keeps one of each id);
\* counts and budgets are not negative, and only a search has a token budget.
ASSUME SymbolAssumption ==
  /\ IsFiniteSet(Classes)
  /\ \A table \in Tables :
       /\ IsFiniteSet(table)
       /\ \A s \in table :
            /\ {s.id, s.file, s.line, s.size, s.inName, s.inSignature, s.inSummary} \subseteq Nat
            /\ s.kind \in {"class", "type"} => s.name \in Classes /\ s.bases \in Seq(Classes)
       /\ \A s, t \in table : s.id = t.id /\ s.file = t.file /\ s.line = t.line => s = t
  /\ \A q \in Searches :
       /\ q.tool \in {"search", "related", "columns"} /\ q.max \in Nat /\ q.budget \in Nat
       /\ q.tool # "search" => q.budget = 0

SymbolInit ==
  /\ symbols \in Tables /\ other \in Tables
  /\ ask = AskIdle
  /\ answer = NoAnswer
  /\ text \in Texts0
  /\ importCache = {} /\ contentCache = {}
  /\ worker = [w \in Workers |-> WorkerIdle]
  /\ jobs = {} /\ entries = {} /\ sEdits = 0
-----------------------------------------------------------------------------
(* Ranking. *)

Place(s, t) == \/ s.file < t.file
               \/ s.file = t.file /\ s.line < t.line
               \/ s.file = t.file /\ s.line = t.line /\ s.id < t.id

\* flattenSearchSymbolCandidates: symbols with a name, by place.
Flattened(table) == InOrder({s \in table : s.name # 0}, Place)

\* computeSearchSymbolCentrality: 0.3 times the logarithm of the symbols in the file,
\* in tenths; it grows with the file and stays small beside lexical scores.
Centrality(table, s) ==
  LET n == Cardinality({t \in table : t.file = s.file}) IN IF n <= 1 THEN 0 ELSE IF n = 2 THEN 2 ELSE 3

\* scoreSearchSymbolCandidate: a word in the name weighs three, elsewhere less.
Lexical(s) == 30 * s.inName + 20 * s.inSignature + 10 * s.inSummary
SearchScore(table, s) == Lexical(s) + Centrality(table, s)

\* handleSearchSymbols skips symbols of another kind and, when the query has words, those
\* without any of them.
SearchRank(q, table, s) ==
  IF q.kind # "any" /\ s.kind # q.kind THEN 0
  ELSE IF q.words /\ Lexical(s) = 0 THEN 0 ELSE SearchScore(table, s)

\* handleGetRelatedSymbols: symbols that share the file, an importer, or words.
RelatedRank(q, s) ==
  IF s.id = q.id THEN 0
  ELSE (IF s.file = q.file THEN 30 ELSE IF s.file \in q.sharing THEN 15 ELSE 0) + 5 * s.inName

\* scoreColumnMatch: the column's name, or else its model's, and its description.
ColumnRank(s) ==
  (IF s.exact THEN 30 ELSE IF s.inName > 0 THEN 15 ELSE 5 * s.inSignature)
    + (IF s.inSummary > 0 THEN 8 ELSE 0)

Score(q, table, s) ==
  CASE q.tool = "search" -> SearchRank(q, table, s)
    [] q.tool = "related" -> RelatedRank(q, s)
    [] q.tool = "columns" -> ColumnRank(s)

\* Higher scores first, then by place.
Ranked(q, table) ==
  LET scored == {s \in ToSet(Flattened(table)) : Score(q, table, s) > 0} IN
  InOrder(scored, LAMBDA s, t :
                 \/ Score(q, table, s) > Score(q, table, t)
                 \/ Score(q, table, s) = Score(q, table, t) /\ Place(s, t))

Size(s) == IF s.size < 20 THEN 20 ELSE s.size

\* Without a token budget, the first max results are kept.
Cut(ranked, q) == SubSeq(ranked, 1, ClampInt(Len(ranked), 0, q.max))

\* handleSearchSymbols, handleGetRelatedSymbols, handleSearchColumns.  The second cuts its
\* list without a word: its related_count is that of what is left.
RankSymbols(q) ==
  /\ ask.tool = "none"
  /\ \E ranked \in {Ranked(q, symbols)} :
       /\ ask' = [ask EXCEPT !.tool = IF q.budget > 0 THEN "pack" ELSE "rank", !.q = q, !.queue = ranked]
       /\ answer' = [NoAnswer EXCEPT !.matched = ToSet(ranked),
                                     !.rows = IF q.budget > 0 THEN <<>> ELSE Cut(ranked, q),
                                     !.truncated = q.tool # "related" /\ Len(ranked) > q.max]
  /\ UNCHANGED <<symbols, other, bundleVars>>

\* A mutation: packing ends at the first symbol that does not fit.
PackUntilFull ==
  /\ ask.tool = "pack" /\ ask.queue # <<>>
  /\ LET s == Head(ask.queue)
         fits == answer.used + Size(s) <= ask.q.budget IN
     /\ ask' = [ask EXCEPT !.queue = IF fits THEN Tail(@) ELSE <<>>]
     /\ answer' = IF fits THEN [answer EXCEPT !.rows = Append(@, s), !.used = @ + Size(s)] ELSE answer
  /\ UNCHANGED <<symbols, other, bundleVars>>

\* With one, each symbol in turn is taken when it still fits.
Pack ==
  /\ ask.tool = "pack" /\ ask.queue # <<>>
  /\ LET s == Head(ask.queue)
         fits == answer.used + Size(s) <= ask.q.budget IN
     /\ ask' = [ask EXCEPT !.queue = Tail(@)]
     /\ answer' = IF fits THEN [answer EXCEPT !.rows = Append(@, s), !.used = @ + Size(s)] ELSE answer
  /\ UNCHANGED <<symbols, other, bundleVars>>

PackEnds ==
  /\ ask.tool = "pack" /\ ask.queue = <<>>
  /\ ask' = [ask EXCEPT !.tool = "rank"]
  /\ answer' = [answer EXCEPT !.truncated = Cardinality(answer.matched) > Len(answer.rows)]
  /\ UNCHANGED <<symbols, other, bundleVars>>
-----------------------------------------------------------------------------
(* The diff of two indexes. *)

\* A symbol is the same in two indexes when its name and kind are.
Identity(s) == <<s.name, s.kind>>

\* buildSymbolDiffIdentityMap: of the symbols of one name and kind, the first by place.
Firsts(table) ==
  {s \in table : \A t \in table : Identity(s) = Identity(t) /\ s # t => Place(s, t)}

\* A hash of 0 is none: the hashes decide when both are there, the signatures when the
\* first index has no hash.
Changed(s, t) ==
  \/ s.hash # 0 /\ t.hash # 0 /\ s.hash # t.hash
  \/ s.hash = 0 /\ s.bases # t.bases

Diff(a, b) ==
  LET A == Firsts(a)
      B == Firsts(b)
      both == {p \in A \X B : Identity(p[1]) = Identity(p[2])} IN
  [added |-> {t \in B : \A s \in A : Identity(s) # Identity(t)},
   removed |-> {s \in A : \A t \in B : Identity(s) # Identity(t)},
   changed |-> {p \in both : Changed(p[1], p[2])},
   unchanged |-> Cardinality({p \in both : ~Changed(p[1], p[2])})]

CompareIndexes ==
  /\ ask.tool = "none"
  /\ ask' = [ask EXCEPT !.tool = "diff"]
  /\ answer' = Diff(symbols, other)
  /\ UNCHANGED <<symbols, other, bundleVars>>
-----------------------------------------------------------------------------
(* The class hierarchy. *)

ClassSymbols(table) == {s \in table : s.kind \in {"class", "type"}}

\* classByName keeps the first class of a name.
ClassOf(table, name) ==
  {s \in ClassSymbols(table) : s.name = name /\ \A t \in ClassSymbols(table) :
                                 t.name = name /\ t # s => Place(s, t)}

Bases(table, name) == UNION {ToSet(s.bases) : s \in ClassOf(table, name)}

\* childrenByBase has the children of all classes, of later ones with the same name too.
Children(table, name) ==
  IF ClassOf(table, name) = {} THEN {}
  ELSE {s.name : s \in {t \in ClassSymbols(table) : name \in ToSet(t.bases)}}

StartHierarchy(name) ==
  /\ ask.tool = "none"
  /\ ClassOf(symbols, name) # {}
  /\ ask' = [AskIdle EXCEPT !.tool = "up", !.class = name, !.seen = {name},
                            !.queue = SetToSeq(Bases(symbols, name))]
  /\ UNCHANGED <<symbols, other, answer, bundleVars>>

\* Mutant: a class that was seen is queued again.
ClimbAgain ==
  /\ ask.tool = "up" /\ ask.queue # <<>>
  /\ LET base == Head(ask.queue) IN
     ask' = [ask EXCEPT !.queue = Tail(@) \o SetToSeq(Bases(symbols, base)),
                        !.seen = @ \cup {base}, !.up = @ \cup {base}]
  /\ UNCHANGED <<symbols, other, answer, bundleVars>>

\* The next base: one that is not indexed is listed as external.
Climb ==
  /\ ask.tool = "up" /\ ask.queue # <<>>
  /\ LET base == Head(ask.queue) IN
     ask' = IF base \in ask.seen THEN [ask EXCEPT !.queue = Tail(@)]
            ELSE [ask EXCEPT !.queue = Tail(@) \o SetToSeq(Bases(symbols, base)),
                             !.seen = @ \cup {base}, !.up = @ \cup {base}]
  /\ UNCHANGED <<symbols, other, answer, bundleVars>>

TurnDown ==
  /\ ask.tool = "up" /\ ask.queue = <<>>
  /\ ask' = [ask EXCEPT !.tool = "down", !.seen = {ask.class},
                        !.queue = SetToSeq(Children(symbols, ask.class))]
  /\ UNCHANGED <<symbols, other, answer, bundleVars>>

Descend ==
  /\ ask.tool = "down" /\ ask.queue # <<>>
  /\ LET child == Head(ask.queue) IN
     ask' = IF child \in ask.seen THEN [ask EXCEPT !.queue = Tail(@)]
            ELSE [ask EXCEPT !.queue = Tail(@) \o SetToSeq(Children(symbols, child)),
                             !.seen = @ \cup {child}, !.down = @ \cup {child}]
  /\ UNCHANGED <<symbols, other, answer, bundleVars>>

HierarchyDone == ask.tool = "down" /\ ask.queue = <<>>
-----------------------------------------------------------------------------
(* Context bundles.  The file of the symbols is edited under the workers. *)

\* A symbol that is not there makes the call fail.
StartBundle(ids) ==
  /\ ask.tool = "none"
  /\ ids \subseteq {s.id : s \in symbols}
  /\ ask' = [ask EXCEPT !.tool = "bundle"]
  /\ jobs' = ids
  /\ UNCHANGED <<symbols, other, answer, text, importCache, contentCache, worker, entries, sEdits>>

EditBundled(content) ==
  /\ ask.tool = "bundle"
  /\ sEdits < MaxBundleEdits
  /\ content # text
  /\ text' = content
  /\ sEdits' = sEdits + 1
  /\ UNCHANGED <<symbols, other, ask, answer, importCache, contentCache, worker, jobs, entries>>

\* A worker takes a symbol and reads its lines.
TakeSymbol(w, id) ==
  /\ worker[w].at = "idle"
  /\ id \in jobs
  /\ jobs' = jobs \ {id}
  /\ \E s \in symbols : s.id = id /\ worker' = [worker EXCEPT ![w] =
       [WorkerIdle EXCEPT !.at = "cached", !.id = id, !.source = SymbolSource(text, s.line, s.last)]]
  /\ UNCHANGED <<symbols, other, ask, answer, text, importCache, contentCache, entries, sEdits>>

BundleEntry(w, imports) ==
  /\ entries' = entries \cup {[id |-> worker[w].id, source |-> worker[w].source, imports |-> imports]}
  /\ worker' = [worker EXCEPT ![w] = WorkerIdle]

\* loadContextBundleImports: the imports may be in the cache already,
LookupImports(w) ==
  /\ worker[w].at = "cached"
  /\ IF importCache # {}
     THEN \E imports \in importCache : BundleEntry(w, imports)
     ELSE /\ worker' = [worker EXCEPT ![w].at = "content"]
          /\ UNCHANGED entries
  /\ UNCHANGED <<symbols, other, ask, answer, text, importCache, contentCache, jobs, sEdits>>

\* or the content may be; otherwise the file is read,
LookupContent(w) ==
  /\ worker[w].at = "content"
  /\ \E c \in IF contentCache # {} THEN contentCache ELSE {text} :
       worker' = [worker EXCEPT ![w].at = IF contentCache # {} THEN "extract" ELSE "store",
                                ![w].read = IF c = Missing THEN <<>> ELSE c]
  /\ UNCHANGED <<symbols, other, ask, answer, text, importCache, contentCache, jobs, entries, sEdits>>

\* and stored, over what another worker stored in between.
StoreContent(w) ==
  /\ worker[w].at = "store"
  /\ contentCache' = {worker[w].read}
  /\ worker' = [worker EXCEPT ![w].at = "extract"]
  /\ UNCHANGED <<symbols, other, ask, answer, text, importCache, jobs, entries, sEdits>>

\* The first worker to store its imports decides for all (LoadOrStore).
ExtractImports(w) ==
  /\ worker[w].at = "extract"
  /\ importCache' = IF importCache = {} THEN {BundleImports(worker[w].read)} ELSE importCache
  /\ \E imports \in importCache' : BundleEntry(w, imports)
  /\ UNCHANGED <<symbols, other, ask, answer, text, contentCache, jobs, sEdits>>
-----------------------------------------------------------------------------
HierarchyStep == Climb \/ TurnDown \/ Descend

SymbolNext ==
  \/ \E q \in Searches : RankSymbols(q)
  \/ Pack \/ PackEnds
  \/ CompareIndexes
  \/ \E name \in Classes : StartHierarchy(name)
  \/ HierarchyStep
  \/ \E ids \in Bundles : StartBundle(ids)
  \/ \E content \in Texts0 : EditBundled(content)
  \/ \E w \in Workers : \/ \E id \in jobs : TakeSymbol(w, id)
                        \/ LookupImports(w) \/ LookupContent(w)
                        \/ StoreContent(w) \/ ExtractImports(w)

SymbolFairness == WF_symbolVars(HierarchyStep)

SymbolSpec == SymbolInit /\ [][SymbolNext]_symbolVars /\ SymbolFairness
-----------------------------------------------------------------------------
\* What a caller can tell a complete answer by: related symbols only by their number.
LooksComplete(q) == IF q.tool = "related" THEN Len(answer.rows) < q.max ELSE ~answer.truncated

\* A ranked answer leaves out no better match than the ones it has; a packed one respects
\* its budget, and no match it left out would still fit; a search that does not say it is
\* truncated has every match, and so have related symbols that are fewer than the caller
\* asked for (handleSearchSymbols, handleGetRelatedSymbols, handleSearchColumns).
RankingHonest ==
  ask.tool = "rank" =>
    LET q == ask.q
        out == answer.matched \ ToSet(answer.rows) IN
    /\ \A i, j \in DOMAIN answer.rows :
         i < j => Score(q, symbols, answer.rows[i]) >= Score(q, symbols, answer.rows[j])
    /\ LooksComplete(q) => out = {}
    /\ q.budget > 0 => /\ answer.used <= q.budget
                       /\ \A s \in out : answer.used + Size(s) > q.budget
    /\ q.budget = 0 => /\ Len(answer.rows) <= q.max
                       /\ \A s \in out, i \in DOMAIN answer.rows :
                            Score(q, symbols, answer.rows[i]) >= Score(q, symbols, s)

\* A diff accounts for every name and kind of either index exactly once, however many
\* symbols share them (handleGetSymbolDiff, buildSymbolDiffIdentityMap).
DiffAccountsForAll ==
  ask.tool = "diff" =>
    LET keys(T) == {<<s.name, s.kind>> : s \in T}
        pairs == Cardinality(answer.changed) + answer.unchanged IN
    /\ keys(answer.added) = keys(other) \ keys(symbols)
    /\ keys(answer.removed) = keys(symbols) \ keys(other)
    /\ pairs = Cardinality(keys(symbols) \cap keys(other))

\* The classes that steps lead to from a name: the smallest set closed under the steps.
Closure(step(_), name) ==
  {c \in Classes : \A S \in SUBSET Classes :
     step(name) \subseteq S /\ (\A d \in S : step(d) \subseteq S) => c \in S}

\* What a hierarchy answers with: all ancestors and all descendants; and while no two
\* classes share a name, whatever is listed as a descendant has the class among its own
\* ancestors.
Exact ==
  LET above(c) == Bases(symbols, c)
      below(c) == Children(symbols, c)
      unique == \A s, t \in ClassSymbols(symbols) : s.name = t.name => s = t IN
  /\ ask.up = Closure(above, ask.class) \ {ask.class}
  /\ ask.down = Closure(below, ask.class) \ {ask.class}
  /\ unique => \A c \in ask.down : ask.class \in Closure(above, c)

\* A hierarchy query ends, although inheritance may be cyclic in broken code, and ends with
\* that answer (handleGetClassHierarchy).
HierarchyExact == ask.tool = "up" ~> HierarchyDone /\ Exact

\* All symbols of one file are shown with the same imports, although the file is edited
\* while several workers read it (loadContextBundleImports).
OneImportListPerFile == \A e, f \in entries : e.imports = f.imports
=============================================================================
