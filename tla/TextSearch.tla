----------------------------- MODULE TextSearch -----------------------------
(***************************************************************************)
(* search_text of orchestration/handlers_retrieval.go in its three modes.   *)
(* Lexical search reads the indexed files until it has enough lines,        *)
(* semantic search takes what the vector backend returns, hybrid search     *)
(* merges both; without vectors every mode is lexical.                      *)
(*                                                                         *)
(* A hit of the backend is a chunk: its file and first line when it was     *)
(* indexed, and a score, which is negative for opposed vectors.  Scores are *)
(* integers, weights small numbers; quotients are compared multiplied out.  *)
(***************************************************************************)
EXTENDS CodeBase, FiniteSetsExt, Integers

CONSTANTS Contents,     \* the contents each file may have
          HitLists,     \* what the backend may return, best first
          TextQueries,  \* bound: the queries
          MaxTextEdits  \* bound: edits while a query runs

VARIABLES corpus,   \* what is on disk
          indexed,  \* the files of the index
          hits,     \* what the backend finds for the query
          search,   \* the call under way
          before,   \* history: what each file was like since the call began
          tEdits    \* counter of the bound

textVars == <<corpus, indexed, hits, search, before, tEdits>>

SearchIdle == [at |-> "idle", mode |-> "lexical", word |-> 0, pattern |-> {}, max |-> 0,
               lw |-> 0, sw |-> 0, degraded |-> FALSE, todo |-> <<>>, lexical |-> <<>>, semantic |-> <<>>,
               merged |-> {}, rows |-> <<>>, truncated |-> FALSE]

\* The lines of a file, with how often each has the word that is looked for.
TextLines == [spec : Nat, names : SUBSET Nat, words : SUBSET Nat, count : Nat]

\* A query gives its arguments; a chunk has the line it starts at, and any score.
ASSUME TextAssumption ==
  /\ \A p \in Paths : Contents[p] \subseteq Seq(TextLines) \cup {Missing}
  /\ \A found \in HitLists : found \in Seq([file : Paths, line : Nat, score : Int])
  /\ \A q \in TextQueries :
       /\ q = [SearchIdle EXCEPT !.mode = q.mode, !.word = q.word, !.pattern = q.pattern,
                                 !.max = q.max, !.lw = q.lw, !.sw = q.sw]
       /\ q.mode \in {"lexical", "semantic", "hybrid"}
       /\ q.max \in Nat /\ q.lw \in Nat /\ q.sw \in Nat

TextInit ==
  /\ corpus \in [Paths -> UNION {Contents[p] : p \in Paths}]
  /\ \A p \in Paths : corpus[p] \in Contents[p]
  /\ indexed \in SUBSET Paths
  /\ hits \in HitLists
  /\ search = SearchIdle
  /\ before = [p \in Paths |-> {}]
  /\ tEdits = 0

EditText(p, content) ==
  /\ search.at \in {"vectors", "scan"}
  /\ tEdits < MaxTextEdits
  /\ content \in Contents[p] \ {corpus[p]}
  /\ corpus' = [corpus EXCEPT ![p] = content]
  /\ before' = [before EXCEPT ![p] = @ \cup {content}]
  /\ tEdits' = tEdits + 1
  /\ UNCHANGED <<indexed, hits, search>>

\* resolveSearchTextHybridWeights: two zero weights count the same.  Weights are finite here,
\* and so is their sum: an infinite one turns into NaN, which no answer can be encoded with.
Weights(q) == IF q.lw = 0 /\ q.sw = 0 THEN [q EXCEPT !.lw = 1, !.sw = 1] ELSE q

\* handleSearchText up to the choice of its mode.
StartSearch(q) ==
  /\ search.at = "idle"
  /\ search' = [Weights(q) EXCEPT !.at = IF q.mode = "lexical" THEN "scan" ELSE "vectors",
                                  !.todo = SortedFiles(indexed \cap q.pattern)]
  /\ before' = [p \in Paths |-> {corpus[p]}]
  /\ UNCHANGED <<corpus, indexed, hits, tEdits>>

\* collectSemanticSearchTextCandidates: a hit without a line counts as the first; its
\* snippet is the indexed chunk, whatever the file has become.
VectorsAnswer ==
  /\ search.at = "vectors"
  /\ LET found == InOrder({i \in DOMAIN hits : hits[i].file \in search.pattern}, <) IN
     search' = [search EXCEPT
       !.semantic = [i \in DOMAIN found |-> [hits[found[i]] EXCEPT !.line = IF @ = 0 THEN 1 ELSE @]],
       !.at = IF search.mode = "hybrid" THEN "scan" ELSE "rank"]
  /\ UNCHANGED <<corpus, indexed, hits, before, tEdits>>

\* The embedder or the backend is not configured, or fails after its retries: the search
\* degrades to a lexical one.
VectorsFail ==
  /\ search.at = "vectors"
  /\ search' = [search EXCEPT !.at = "scan", !.degraded = TRUE]
  /\ UNCHANGED <<corpus, indexed, hits, before, tEdits>>

IsLexical(q) == q.mode = "lexical" \/ q.degraded

\* A lexical search stops after max results, a hybrid one scans further.
ScanLimit(q) == IF IsLexical(q) THEN q.max ELSE 4 * q.max

Matches(f, content, word) ==
  LET lines == InOrder(Mentions(content, word), <) IN
  [i \in DOMAIN lines |-> [file |-> f, line |-> lines[i], score |-> content[lines[i]].count]]

\* collectLexicalSearchTextCandidates reads one file; the line that reaches the limit ends
\* the scan, and the answer counts as truncated.
ScanFile ==
  /\ search.at = "scan" /\ search.todo # <<>>
  /\ LET f == Head(search.todo)
         all == search.lexical \o Matches(f, corpus[f], search.word)
         full == Len(all) >= ScanLimit(search) IN
     search' = [search EXCEPT !.lexical = SubSeq(all, 1, ClampInt(Len(all), 0, ScanLimit(search))),
                              !.todo = IF full THEN <<>> ELSE Tail(@), !.truncated = full]
  /\ UNCHANGED <<corpus, indexed, hits, before, tEdits>>

EndScan ==
  /\ search.at = "scan" /\ search.todo = <<>>
  /\ search' = [search EXCEPT !.at = IF IsLexical(search) THEN "rank" ELSE "merge"]
  /\ UNCHANGED <<corpus, indexed, hits, before, tEdits>>
-----------------------------------------------------------------------------
(* Ranking. *)

Earlier(a, b) == a.file < b.file \/ (a.file = b.file /\ a.line < b.line)

Key(c) == <<c.file, c.line>>
Keys(seq) == {Key(c) : c \in ToSet(seq)}

\* The best score of a line among the candidates, 0 without a positive one.
BestScore(seq, key) ==
  CHOOSE n \in {0} \cup {c.score : c \in ToSet(seq)} :
    /\ n = 0 \/ (n > 0 /\ \E c \in ToSet(seq) : Key(c) = key /\ c.score = n)
    /\ \A c \in ToSet(seq) : Key(c) = key => c.score <= n

\* rankHybridSearchTextCandidates merges the candidates of each line,
MergeLines ==
  /\ search.at = "merge"
  /\ search' = [search EXCEPT !.at = "weigh", !.merged =
       {[file |-> k[1], line |-> k[2], lex |-> BestScore(search.lexical, k),
         sem |-> BestScore(search.semantic, k), score |-> 0] :
           k \in Keys(search.lexical) \cup Keys(search.semantic)}]
  /\ UNCHANGED <<corpus, indexed, hits, before, tEdits>>

\* normalizeSearchTextScores takes the scores to 0 .. 1, here times their span; a line
\* without a score has 0, as has the lowest, and equal scores are all 1.
SpanOf(scores) == IF Cardinality(scores) < 2 THEN 1 ELSE Max(scores) - Min(scores)
Normalized(score, scores) ==
  IF score = 0 THEN 0 ELSE IF Cardinality(scores) = 1 THEN 1 ELSE score - Min(scores)

\* weighs the two scores and adds them.
WeighLines ==
  /\ search.at = "weigh"
  /\ LET lexical == {c.lex : c \in search.merged} \ {0}
         semantic == {c.sem : c \in search.merged} \ {0}
         lex(c) == search.lw * Normalized(c.lex, lexical) * SpanOf(semantic)
         sem(c) == search.sw * Normalized(c.sem, semantic) * SpanOf(lexical) IN
     search' = [search EXCEPT !.at = "rank", !.merged =
       {[c EXCEPT !.lex = lex(c), !.sem = sem(c), !.score = lex(c) + sem(c)] : c \in search.merged}]
  /\ UNCHANGED <<corpus, indexed, hits, before, tEdits>>

\* Lines of equal score are ordered by the scores that count, then by place.
HybridFirst(a, b) ==
  IF a.score # b.score THEN a.score > b.score
  ELSE IF a.lex # b.lex THEN a.lex > b.lex
  ELSE IF a.sem # b.sem THEN a.sem > b.sem ELSE Earlier(a, b)

Better(a, b) == a.score > b.score \/ (a.score = b.score /\ Earlier(a, b))

RankedLines(q) ==
  IF IsLexical(q) THEN q.lexical
  ELSE IF q.mode = "semantic" THEN SortSeq(q.semantic, Better) ELSE InOrder(q.merged, HybridFirst)

\* buildSearchTextGroupedResults: the files in the order of their best lines.
Grouped(rows) ==
  LET best(f) == CHOOSE i \in DOMAIN rows : rows[i].file = f /\ \A j \in 1 .. i - 1 : rows[j].file # f
      order == InOrder({c.file : c \in ToSet(rows)}, LAMBDA f, g : best(f) < best(g)) IN
  [i \in DOMAIN order |-> [file |-> order[i], lines |-> {c \in ToSet(rows) : c.file = order[i]}]]

\* handleSearchText ranks and cuts; buildSearchTextLexicalResponse was cut by its scan.
RankLines ==
  /\ search.at = "rank"
  /\ \E ranked \in {RankedLines(search)} :
       search' = [search EXCEPT !.at = "group", !.rows = SubSeq(ranked, 1, ClampInt(Len(ranked), 0, search.max)),
                    !.truncated = IF IsLexical(search) THEN @ ELSE Len(ranked) > search.max]
  /\ UNCHANGED <<corpus, indexed, hits, before, tEdits>>

GroupLines ==
  /\ search.at = "group"
  /\ search' = [search EXCEPT !.at = "done", !.rows = Grouped(@)]
  /\ UNCHANGED <<corpus, indexed, hits, before, tEdits>>

SearchStep ==
  \/ VectorsAnswer \/ VectorsFail \/ ScanFile \/ EndScan
  \/ MergeLines \/ WeighLines \/ RankLines \/ GroupLines

TextNext ==
  \/ \E q \in TextQueries : StartSearch(q)
  \/ SearchStep
  \/ \E p \in Paths : \E content \in Contents[p] : EditText(p, content)

TextSpec == TextInit /\ [][TextNext]_textVars
-----------------------------------------------------------------------------
(* Properties. *)

Lines == UNION {g.lines : g \in ToSet(search.rows)}
Listed == {Key(c) : c \in Lines}

\* A lexical search reads files that change under it, one after the other
\* (collectLexicalSearchTextCandidates): each line it lists matched at some time during the
\* call, and a line that matched throughout is missing only from an answer that says it
\* was truncated.
TextBetweenSnapshots ==
  search.at = "done" /\ IsLexical(search) =>
    /\ \A c \in Lines : /\ c.file \in indexed \cap search.pattern
                        /\ \E v \in before[c.file] : c.line \in Mentions(v, search.word)
    /\ \A f \in indexed \cap search.pattern :
         \A i \in UNION {Mentions(c, search.word) : c \in before[f]} :
         (\A c \in before[f] : i \in Mentions(c, search.word)) =>
           <<f, i>> \in Listed \/ search.truncated

\* Two measures that are not comparable are normalised, weighted and added
\* (rankHybridSearchTextCandidates), and several chunks of one line merge: still a line
\* that is at least as good as another in both never scores below it, nor is it cut
\* while a line of a lower score stays.
HybridMonotone ==
  search.at = "done" /\ search.mode = "hybrid" /\ ~search.degraded =>
    LET asGood(seq, k, j) == \A c \in ToSet(seq) : Key(c) = j /\ c.score > 0 =>
                               \E d \in ToSet(seq) : Key(d) = k /\ d.score >= c.score IN
    \A b \in Lines : \A k \in Keys(search.lexical) \cup Keys(search.semantic) :
      asGood(search.lexical, k, Key(b)) /\ asGood(search.semantic, k, Key(b)) =>
        \/ \E a \in Lines : Key(a) = k /\ a.score >= b.score
        \/ k \notin Listed /\ \A a \in Lines : a.score >= b.score
=============================================================================
