---------------------------- MODULE MCRetrieval -----------------------------
(* Three files; path 4 is a candidate that only stands for file 3. *)
EXTENDS Retrieval

VARIABLE part  \* which of the machines below runs

Line(spec, names) == [spec |-> spec, names |-> names, words |-> names]
Text(words) == [spec |-> NoSpec, names |-> {}, words |-> words]

MCGuesses == [s \in 1 .. 3 |-> [p \in 1 .. 4 |-> IF s = 3 THEN <<4>> ELSE <<s>>]]
MCVariants == [p \in 1 .. 4 |-> IF p = 4 THEN {3} ELSE {}]

\* Every graph over the files whose edges are these imports, files that come and go.
MCVersions == [p \in 1 .. 4 |->
  CASE p = 1 -> {<<Line(2, {7})>>, <<Line(3, {8}), Line(2, {7})>>, Missing}
    [] p = 2 -> {<<Line(3, {8}), Text({7})>>, <<Text({7})>>, <<Line(1, {})>>}
    [] p = 3 -> {<<Line(1, {7})>>, <<Text({8})>>, Missing}
    [] OTHER -> {Missing}]

Query(tool, file, word, dir, depth, max) ==
  [QueryIdle EXCEPT !.tool = tool, !.file = file, !.word = word, !.dir = dir,
                    !.depth = depth, !.max = max]

MCQueries ==
  {Query("graph", f, 0, d, n, 0) : f \in {1, 3}, d \in Directions, n \in {1, 2}} \cup
  {Query("blast", 3, 8, "imports", n, 0) : n \in {1, 2}} \cup
  {Query("importers", 3, 0, "imports", 0, 2), Query("references", 0, 7, "imports", 0, 1),
   Query("check", 0, 7, "imports", 0, 1), Query("check", 0, 8, "imports", 0, 2),
   [Query("check", 0, 7, "imports", 0, 1) EXCEPT !.search_content = FALSE]}

MCDefinedIn == [w \in {7, 8} |-> IF w = 8 THEN {3} ELSE {}]
-----------------------------------------------------------------------------
(* Classes that inherit from each other in a cycle, two of one name, one symbol of another
   kind, and one without a hash. *)
Sym(id, name, kind, file, line, bases, hash, size, inName) ==
  [id |-> id, name |-> name, kind |-> kind, file |-> file, line |-> line,
   last |-> line + 1, bases |-> bases,
   hash |-> hash, size |-> size, inName |-> inName, inSignature |-> id % 2,
   inSummary |-> id % 3, exact |-> id = 3]

MCUniverse ==
  {Sym(1, 1, "class", 1, 1, <<2>>, 1, 10, 0), Sym(2, 2, "class", 1, 2, <<1, 3>>, 2, 60, 1),
   Sym(3, 2, "type", 2, 1, <<3, 4>>, 0, 30, 1), Sym(4, 3, "class", 2, 2, <<1>>, 4, 20, 0),
   Sym(5, 1, "method", 1, 3, <<>>, 5, 40, 2)}

MCTables == SUBSET MCUniverse

Search(tool, kind, words, max, budget) ==
  [tool |-> tool, kind |-> kind, words |-> words, id |-> 1, file |-> 1, sharing |-> {2},
   max |-> max, budget |-> budget]

MCSearches == {Search("search", "any", TRUE, 2, 0), Search("search", "class", FALSE, 1, 0),
               Search("search", "any", FALSE, 1, 80), Search("related", "any", FALSE, 2, 0),
               Search("columns", "any", FALSE, 2, 0)}

MCTexts == {<<Line(1, {7})>>, <<Line(2, {7}), Line(1, {7})>>, Missing}
-----------------------------------------------------------------------------
(* Two files to search, a hit list with two chunks of one line, an opposed vector, a chunk
   without a line, and a chunk of a file the index no longer has. *)
Words(count) == [spec |-> NoSpec, names |-> {}, words |-> IF count > 0 THEN {7} ELSE {}, count |-> count]
MCContents == [p \in 1 .. 4 |->
  CASE p = 1 -> {<<Words(1), Words(3)>>, <<Words(0), Words(2)>>, Missing}
    [] p = 2 -> {<<Words(2), Words(1)>>, <<Words(1)>>}
    [] OTHER -> {Missing}]

Hit(file, line, score) == [file |-> file, line |-> line, score |-> score]
MCHitLists == {<<Hit(1, 2, 9), Hit(2, 1, 5), Hit(1, 2, 3), Hit(1, 0, 0 - 2)>>,
               <<Hit(3, 1, 4), Hit(2, 1, 4), Hit(2, 2, 1)>>, <<>>}

Seek(mode, pattern, max, lw, sw) ==
  [SearchIdle EXCEPT !.mode = mode, !.word = 7, !.pattern = pattern, !.max = max, !.lw = lw, !.sw = sw]
MCTextQueries ==
  {Seek(mode, pattern, max, 1, 2) : mode \in {"lexical", "semantic", "hybrid"},
     pattern \in {{1}, {1, 2, 3}}, max \in {1, 2, 4}} \cup
  {Seek("hybrid", {1, 2, 3}, max, w, 0) : max \in {1, 2}, w \in {0, 1}}
-----------------------------------------------------------------------------
NoGraph == tree = [p \in Paths |-> CHOOSE c \in Versions[p] : TRUE] /\ listed = {}
NoText == /\ corpus = [p \in Paths |-> CHOOSE c \in Contents[p] : TRUE]
          /\ indexed = {} /\ hits = <<>>

\* The tools of each part; the variables a part does not use have one value.
ToolsOf == [graph |-> {}, text |-> {}, bundle |-> {"bundle"}, diff |-> {"diff"}, table |-> {"rank", "pack", "up", "down"}]

MCInit ==
  /\ part \in DOMAIN ToolsOf
  /\ part # "graph" => NoGraph
  /\ part = "bundle" => symbols = MCUniverse
  /\ IF part = "text" THEN indexed \in {{1}, {1, 2}} ELSE NoText
  /\ part \in {"graph", "text"} => symbols = {}
  /\ part # "diff" => other = {}
  /\ part # "bundle" => text = Missing
  /\ RetrievalInit

MCNext ==
  /\ UNCHANGED part
  /\ \/ part = "graph" /\ GraphNext /\ UNCHANGED <<symbolVars, textVars>>
     \/ part = "text" /\ TextNext /\ UNCHANGED <<symbolVars, graphVars>>
     \/ SymbolNext /\ ask'.tool \in ToolsOf[part] /\ UNCHANGED <<graphVars, textVars>>

MCSpec == MCInit /\ [][MCNext]_<<part, retrievalVars>> /\ SymbolFairness
=============================================================================
