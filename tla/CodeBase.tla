------------------------------ MODULE CodeBase ------------------------------
(***************************************************************************)
(* What the read tools of orchestration/handlers_retrieval.go share: the    *)
(* source files they read from the disk, long after the index was built,    *)
(* and the import statements and lines they find there.                     *)
(*                                                                         *)
(* Paths, import specifiers and words are numbers, in their order as text.  *)
(* A file is the sequence of its lines.  A line has the words it mentions   *)
(* and, when it is an import, its specifier and the names it imports.       *)
(***************************************************************************)
EXTENDS Naturals, SequencesExt

CONSTANTS Paths,    \* of the files of a repository, and of candidates
          Specs,    \* import specifiers
          Guesses,  \* the candidate paths of a specifier in each importing file
          Variants, \* the paths that are a candidate with an extension or /index.
          Missing   \* the content of a file that cannot be read

NoSpec == 0

ASSUME CodeAssumption ==
  /\ Paths \subseteq Nat \ {0} /\ IsFiniteSet(Paths)
  /\ Specs \subseteq Nat \ {NoSpec}
  /\ Guesses \in [Specs -> [Paths -> Seq(Paths)]]
  /\ Variants \in [Paths -> SUBSET Paths]

\* The elements of a finite set in a strict order: SetToSortSeq without its search through
\* all sequences.
InOrder(S, before(_, _)) ==
  [i \in 1 .. Cardinality(S) |-> CHOOSE x \in S : Cardinality({y \in S : before(y, x)}) = i - 1]

\* The indexed files in the order the handlers visit them.
SortedFiles(files) == InOrder(files, <)

ClampInt(value, low, high) == IF value < low THEN low ELSE IF value > high THEN high ELSE value

\* The lines a symbol has now; a symbol whose first line is gone has none.
SymbolSource(content, line, endLine) ==
  IF content = Missing THEN <<>>
  ELSE IF line = 0 \/ line > Len(content) THEN <<>>
  ELSE SubSeq(content, line, ClampInt(endLine, line, Len(content)))

Least(S) == {m \in S : \A n \in S : m <= n}

\* The file a specifier stands for: the first exact candidate, or else the first file that
\* completes a candidate, or none.
Resolved(spec, from, files) ==
  LET guess == Guesses[spec][from]
      ends(i) == Variants[guess[i]] \cap files
      exact == {i \in DOMAIN guess : guess[i] \in files}
      close == {i \in DOMAIN guess : ends(i) # {}} IN
  IF exact # {} THEN {guess[i] : i \in Least(exact)} ELSE UNION {Least(ends(i)) : i \in Least(close)}

\* The import statements of a file.
Imports(content) ==
  IF content = Missing THEN {} ELSE {l \in ToSet(content) : l.spec # NoSpec}

\* The import records of a file.
RecordsOf(file, content, files) ==
  {[source |-> file, spec |-> l.spec, names |-> l.names,
    resolved |-> Resolved(l.spec, file, files)] : l \in Imports(content)}

\* The import lines of a file as get_context_bundle shows them.
BundleImports(content) ==
  IF content = Missing THEN <<>> ELSE SelectSeq(content, LAMBDA l : l.spec # NoSpec)

Mentions(content, word) ==
  IF content = Missing THEN {} ELSE {i \in DOMAIN content : word \in content[i].words}
=============================================================================
