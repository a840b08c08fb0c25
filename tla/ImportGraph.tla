---------------------------- MODULE ImportGraph -----------------------------
(***************************************************************************)
(* The tools about imports: find_importers, find_references,                *)
(* check_references, get_dependency_graph and get_blast_radius of           *)
(* orchestration/handlers_retrieval.go.  A call loads the index once, then  *)
(* reads the indexed files one by one from the disk, and some tools read    *)
(* them a second time.  The files are edited meanwhile.                     *)
(***************************************************************************)
EXTENDS CodeBase

CONSTANTS Versions,     \* the contents each file may have
          Queries,      \* bound: the calls that are made
          DefinedIn,    \* the files that define each word
          MaxGraphEdits \* bound: edits

VARIABLES tree,    \* what is on disk
          listed,  \* the files of the index
          query,   \* the call under way
          had,     \* history: the contents each file had since the call loaded the index
          gEdits   \* counter of the bound

graphVars == <<tree, listed, query, had, gEdits>>

Directions == {"imports", "importers", "both"}

QueryIdle == [at |-> "idle", tool |-> "graph", file |-> 0, word |-> 0, dir |-> "imports",
              depth |-> 0, max |-> 0, search_content |-> TRUE, todo |-> <<>>, recs |-> {}, walks |-> <<>>,
              queue |-> <<>>, level |-> <<>>, nodes |-> {}, edges |-> {},
              rows |-> {}, content |-> {}, error |-> FALSE]

\* A call gives its tool and its arguments; a graph starts from a file.
ASSUME GraphAssumption ==
  \A q \in Queries :
    /\ q = [QueryIdle EXCEPT !.tool = q.tool, !.file = q.file, !.word = q.word, !.dir = q.dir,
                             !.depth = q.depth, !.max = q.max, !.search_content = q.search_content]
    /\ q.search_content \in BOOLEAN
    /\ q.tool \in {"graph", "blast", "importers", "references", "check"}
    /\ q.dir \in Directions /\ q.depth \in Nat
    /\ q.tool \in {"graph", "blast"} => q.file \in Paths

GraphInit ==
  /\ tree \in [Paths -> UNION {Versions[p] : p \in Paths}]
  /\ \A p \in Paths : tree[p] \in Versions[p]
  /\ listed \in SUBSET Paths
  /\ query = QueryIdle
  /\ had = [p \in Paths |-> {}]
  /\ gEdits = 0
-----------------------------------------------------------------------------
(* Reading. *)

\* A file is edited, removed or restored.
EditSource(p, content) ==
  /\ query.at # "idle"
  /\ gEdits < MaxGraphEdits
  /\ content \in Versions[p] \ {tree[p]}
  /\ tree' = [tree EXCEPT ![p] = content]
  /\ had' = [had EXCEPT ![p] = @ \cup {content}]
  /\ gEdits' = gEdits + 1
  /\ UNCHANGED <<listed, query>>

\* The index is loaded; the graph of a file that is not in it is refused.
AskGraph(q) ==
  /\ query.at = "idle"
  /\ query' = IF q.tool = "graph" /\ q.file \notin listed
              THEN [q EXCEPT !.error = TRUE]
              ELSE [q EXCEPT !.at = "read", !.todo = SortedFiles(listed)]
  /\ had' = [p \in Paths |-> {tree[p]}]
  /\ UNCHANGED <<tree, listed, gEdits>>

\* Mutant: a file that cannot be read ends the collection.
ReadImportsUntilError ==
  /\ query.at = "read" /\ query.todo # <<>>
  /\ query' = IF tree[Head(query.todo)] = Missing THEN [query EXCEPT !.todo = <<>>]
              ELSE [query EXCEPT !.todo = Tail(@),
                      !.recs = @ \cup RecordsOf(Head(query.todo), tree[Head(query.todo)], listed)]
  /\ UNCHANGED <<tree, listed, had, gEdits>>

\* collectIndexedImportRecords reads one file after the other and skips what it cannot read.
ReadImports ==
  /\ query.at = "read" /\ query.todo # <<>>
  /\ LET f == Head(query.todo) IN
     query' = [query EXCEPT !.todo = Tail(@), !.recs = @ \cup RecordsOf(f, tree[f], listed)]
  /\ UNCHANGED <<tree, listed, had, gEdits>>
-----------------------------------------------------------------------------
(* Walking the graph. *)

\* Who imports whom, without imports of the file itself.
Adjacency(recs) ==
  UNION {{r.source} \X (r.resolved \ {r.source}) : r \in recs}

Inverted(edges) == {<<e[2], e[1]>> : e \in edges}

Followed(q, dir) == IF dir = "imports" THEN Adjacency(q.recs) ELSE Inverted(Adjacency(q.recs))

\* What is left to do when all the import records are there.
Walks(q) ==
  CASE q.tool = "graph" -> IF q.dir = "both" THEN <<"imports", "importers">> ELSE <<q.dir>>
    [] q.tool = "blast" -> <<"importers">>
    [] OTHER -> <<>>

\* bfsDependencyGraph starts at the file of the query, at level 0.
BeginWalk(q) == [q EXCEPT !.at = "walk", !.queue = <<q.file>>,
                          !.level = [p \in {q.file} |-> 0], !.nodes = @ \cup {q.file}]

AfterImports ==
  /\ query.at = "read" /\ query.todo = <<>>
  /\ query' = IF Walks(query) = <<>> THEN [query EXCEPT !.at = "answer"]
              ELSE BeginWalk([query EXCEPT !.walks = Walks(query)])
  /\ UNCHANGED <<tree, listed, had, gEdits>>

\* A node is taken from the queue.  Above the depth bound its edges are followed; the
\* neighbours seen for the first time are queued one level deeper.
Walk ==
  /\ query.at = "walk" /\ query.queue # <<>>
  /\ LET cur == Head(query.queue)
         next == {e[2] : e \in {d \in Followed(query, Head(query.walks)) : d[1] = cur}}
         new == SortedFiles(next \ DOMAIN query.level) IN
     query' = IF query.level[cur] >= query.depth THEN [query EXCEPT !.queue = Tail(@)]
              ELSE [query EXCEPT !.queue = Tail(@) \o new,
                      !.level = [p \in DOMAIN @ \cup ToSet(new) |->
                                   IF p \in DOMAIN @ THEN @[p] ELSE @[cur] + 1],
                      !.nodes = @ \cup next, !.edges = @ \cup ({cur} \X next)]
  /\ UNCHANGED <<tree, listed, had, gEdits>>

\* The next direction, or the answer.
WalkEnds ==
  /\ query.at = "walk" /\ query.queue = <<>> /\ query.tool = "graph"
  /\ query' = IF Len(query.walks) > 1 THEN BeginWalk([query EXCEPT !.walks = Tail(@)])
              ELSE [query EXCEPT !.at = "answer"]
  /\ UNCHANGED <<tree, listed, had, gEdits>>

\* handleGetBlastRadius reads the importers it found again.
BlastFound ==
  /\ query.at = "walk" /\ query.queue = <<>> /\ query.tool = "blast"
  /\ query' = [query EXCEPT !.at = "mentions", !.todo = SortedFiles(query.nodes \ {query.file})]
  /\ UNCHANGED <<tree, listed, had, gEdits>>
-----------------------------------------------------------------------------
(* Answers. *)

\* classifyBlastRadiusImporters: an importer that mentions the symbol is confirmed.
Verdict(f) ==
  [file |-> f, kind |-> IF tree[f] = Missing THEN "unavailable"
                        ELSE IF Mentions(tree[f], query.word) # {} THEN "confirmed"
                        ELSE "potential"]

ClassifyImporter ==
  /\ query.at = "mentions" /\ query.tool = "blast" /\ query.todo # <<>>
  /\ query' = [query EXCEPT !.todo = Tail(@), !.rows = @ \cup {Verdict(Head(query.todo))}]
  /\ UNCHANGED <<tree, listed, had, gEdits>>

\* groupImportersByTarget and dedupeImportersByFile: one row per importing file, that of
\* its first specifier, and whether the importer is imported itself.
ImporterRows(q) ==
  LET towards == {r \in q.recs : q.file \in r.resolved} IN
  {[file |-> r.source, spec |-> r.spec,
    imported |-> \E o \in q.recs : r.source \in o.resolved] :
     r \in {s \in towards : \A o \in towards : o.source = s.source => s.spec <= o.spec}}

\* importRecordMatchType: a record matches by an imported name, or by its specifier.
MatchType(r, word) ==
  IF word \in r.names THEN "named" ELSE IF r.spec = word THEN "stem" ELSE "none"

\* buildSingleReferenceRows: each file with its matching specifiers.
ReferenceRows(q) ==
  {[file |-> r.source, spec |-> r.spec] :
     r \in {s \in q.recs : MatchType(s, q.word) # "none"}}

\* What the first max files have.
FirstRows(rows, max) ==
  {r \in rows : Cardinality({o.file : o \in {x \in rows : x.file < r.file}}) < max}

\* handleFindImporters
AnswerImporters ==
  /\ query.at = "answer" /\ query.tool = "importers"
  /\ query' = [query EXCEPT !.at = "done", !.rows = FirstRows(ImporterRows(query), query.max)]
  /\ UNCHANGED <<tree, listed, had, gEdits>>

\* handleFindReferences
AnswerReferences ==
  /\ query.at = "answer" /\ query.tool = "references"
  /\ query' = [query EXCEPT !.at = "done", !.rows = FirstRows(ReferenceRows(query), query.max)]
  /\ UNCHANGED <<tree, listed, had, gEdits>>

\* handleGetDependencyGraph
AnswerGraph ==
  /\ query.at = "answer" /\ query.tool = "graph"
  /\ query' = [query EXCEPT !.at = "done"]
  /\ UNCHANGED <<tree, listed, had, gEdits>>

\* handleCheckReferences: after the imports and unless search_content is off, the contents of
\* the files that do not define the identifier (buildCheckReferenceEntry).
CheckContents ==
  /\ query.at = "answer" /\ query.tool = "check"
  /\ query' = [query EXCEPT !.at = "mentions", !.rows = ReferenceRows(query),
                            !.todo = IF query.search_content
                                     THEN SortedFiles(listed \ DefinedIn[query.word]) ELSE <<>>]
  /\ UNCHANGED <<tree, listed, had, gEdits>>

\* searchIdentifierContentReferences reads the files that do not define the word, until
\* enough of them mention it.
SearchMentions ==
  /\ query.at = "mentions" /\ query.tool = "check" /\ query.todo # <<>>
  /\ LET f == Head(query.todo)
         hit == Mentions(tree[f], query.word) # {}
         full == hit /\ Cardinality(query.content) + 1 >= query.max IN
     query' = [query EXCEPT !.content = IF hit THEN @ \cup {f} ELSE @,
                            !.todo = IF full THEN <<>> ELSE Tail(@)]
  /\ UNCHANGED <<tree, listed, had, gEdits>>

MentionsEnd ==
  /\ query.at = "mentions" /\ query.todo = <<>>
  /\ query' = [query EXCEPT !.at = "done"]
  /\ UNCHANGED <<tree, listed, had, gEdits>>

\* buildCheckReferenceEntry
IsReferenced(q) == q.rows # {} \/ q.content # {}
-----------------------------------------------------------------------------
GraphNext ==
  \/ \E q \in Queries : AskGraph(q)
  \/ \E p \in Paths : \E v \in Versions[p] : EditSource(p, v)
  \/ ReadImports \/ AfterImports \/ Walk \/ WalkEnds \/ BlastFound
  \/ AnswerImporters \/ AnswerReferences \/ AnswerGraph \/ CheckContents
  \/ ClassifyImporter \/ SearchMentions \/ MentionsEnd

GraphSpec == GraphInit /\ [][GraphNext]_graphVars
-----------------------------------------------------------------------------
(* What the answers say. *)

Targets(p, content) == UNION {r.resolved : r \in RecordsOf(p, content, listed)}

\* The imports that a file had at some time, or all the time, while the call ran.
Sometime == {e \in listed \X Paths : \E c \in had[e[1]] : e[2] \in Targets(e[1], c)}
Always == {e \in listed \X Paths : \A c \in had[e[1]] : e[2] \in Targets(e[1], c)}

\* The files that a path of at most d edges leads to from f.
Within(edges, f, d) ==
  {p \in Paths : \E n \in 0 .. d : \E walk \in [0 .. n -> Paths] :
     /\ walk[0] = f /\ walk[n] = p
     /\ \A i \in 1 .. n : <<walk[i - 1], walk[i]>> \in edges}

Reach(edges, q) ==
  UNION {Within(IF d = "imports" THEN edges ELSE Inverted(edges), q.file, q.depth) : d \in ToSet(Walks(q))}

\* While files are edited, a dependency graph or a blast radius has every file that was
\* within its depth throughout the call, and none that never was; the edges it lists join
\* files it lists (bfsDependencyGraph over collectIndexedImportRecords).
GraphBetweenSnapshots ==
  query.at = "done" /\ query.tool \in {"graph", "blast"} =>
    /\ Reach(Always, query) \subseteq query.nodes
    /\ query.nodes \subseteq Reach(Sometime, query)
    /\ query.edges \subseteq query.nodes \X query.nodes

\* Every verdict about a file was true of that file at some moment of the call, although
\* blast radius and check_references read the files twice; and a blast radius has one
\* verdict for each importer.
VerdictsWereTrue ==
  query.at = "done" =>
    /\ query.tool = "blast" =>
         /\ \A p \in query.nodes \ {query.file} : \E r \in query.rows : r.file = p
         /\ \A r \in query.rows : \E c \in had[r.file] :
              CASE r.kind = "unavailable" -> c = Missing
                [] r.kind = "confirmed" -> Mentions(c, query.word) # {}
                [] OTHER -> c # Missing /\ Mentions(c, query.word) = {}
    /\ query.tool = "importers" =>
         \A r \in query.rows : \E c \in had[r.file] : query.file \in Targets(r.file, c)
    /\ query.tool \in {"references", "check"} =>
         \A r \in query.rows : \E c \in had[r.file] : \E i \in RecordsOf(r.file, c, listed) :
           i.spec = r.spec /\ MatchType(i, query.word) # "none"
    /\ query.tool = "check" =>
         \A p \in query.content : \E c \in had[p] : Mentions(c, query.word) # {}

\* check_references calls an identifier unreferenced only when no file imported it
\* throughout the call, and, unless it was told not to search the contents, no file but those
\* that define it mentioned it throughout the call.
UnreferencedIsUnused ==
  query.at = "done" /\ query.tool = "check" /\ ~IsReferenced(query) =>
    /\ \A p \in listed : \E c \in had[p] :
         \A i \in RecordsOf(p, c, listed) : MatchType(i, query.word) = "none"
    /\ query.search_content =>
         \A p \in listed \ DefinedIn[query.word] : \E c \in had[p] : Mentions(c, query.word) = {}
=============================================================================
