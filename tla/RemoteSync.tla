----------------------------- MODULE RemoteSync -----------------------------
(***************************************************************************)
(* index_repo: one run after the other over a repository on GitHub          *)
(* (handleIndexRepo of orchestration/handlers_indexing.go, with the         *)
(* acquirer of domain/indexing/github_acquirer.go).  A run reads             *)
(* .gitignore, the tree and then the files in separate requests, all of      *)
(* HEAD, and commits are pushed in between.  Requests fail, the call runs    *)
(* out of time, the cache is invalidated.                                    *)
(*                                                                           *)
(* A path is a number, in the order of compareFolderDiscoveryPriority; all   *)
(* have a source extension and lie in no skipped directory.  Ignore          *)
(* patterns are the paths they match, and a hash is its content.             *)
(***************************************************************************)
EXTENDS Naturals, FiniteSets

CONSTANTS Sources,       \* paths a tree may have
          Secrets,       \* those that isLikelySecretPath takes for secrets
          Texts,         \* contents that are text
          Trees,         \* the commits that may be pushed
          Ignores,       \* what extra_ignore_patterns may match
          MaxIndexFiles, \* MaxIndexFiles of the configuration
          MaxIndexRuns,  \* bound: calls of index_repo
          MaxPushes,     \* bound: pushes
          MaxErrors      \* bound: requests and saves that fail

Contents == Texts \cup {"binary", "large", "empty", "absent"}

ASSUME RemoteAssumption ==
  /\ Sources \subseteq Nat /\ IsFiniteSet(Sources) /\ Secrets \subseteq Sources
  /\ Texts \cap {"binary", "large", "empty", "absent", "no hash"} = {}
  /\ Trees \subseteq [files : [Sources -> Contents], ignore : SUBSET Sources]
  /\ Ignores \subseteq SUBSET Sources
  /\ MaxIndexFiles \in Nat /\ MaxIndexRuns \in Nat /\ MaxPushes \in Nat /\ MaxErrors \in Nat

VARIABLES remote,     \* the tree of HEAD
          repoIndex,  \* the persisted index
          at,         \* where the run is
          old,        \* existing: the index as the run has loaded it
          ignore,     \* what the run ignores
          asof,       \* the tree whose metadata the run got
          listed,     \* the run prefetched metadata, where another fetches the whole tree
          plan, todo, \* fetchPaths, and those not fetched yet
          got,        \* the contents the run has fetched
          failed,     \* the first error of the fetches
          cancelled,  \* the run's context has ended
          bad,        \* history: the paths not fetched as the metadata has them
          mem,        \* the index the run saves
          answer,     \* how the last run ended
          runs, pushes, errors  \* counters of the bounds

fetchVars == <<old, ignore, asof, listed, plan, todo, got, failed, bad, mem>>
remoteVars == <<remote, repoIndex, at, fetchVars, cancelled, answer, runs, pushes, errors>>

NoHash == "no hash"
NoBlob == <<"none", "none">>
Git(content) == <<"git", content>>
Sum(content) == <<"sum", content>>
Nothing == [p \in Sources |-> "absent"]

\* basis and suspect are history: the tree and the ignored paths an index was made from, and
\* the paths that a run did not fetch as that tree has them.
Index(files, blobs, head, basis, suspect) ==
  [there |-> TRUE, files |-> files, blobs |-> blobs, head |-> head,
   basis |-> basis, suspect |-> suspect]
NoIndex == [there |-> FALSE, files |-> [p \in Sources |-> NoHash],
            blobs |-> [p \in Sources |-> NoBlob], head |-> <<"none", "none">>,
            basis |-> [tree |-> [files |-> Nothing, ignore |-> {}], ignore |-> {},
                       listed |-> FALSE],
            suspect |-> {}]

First(paths) == {p \in paths : Cardinality({q \in paths : q < p}) < MaxIndexFiles}

\* The source files by their metadata, and by their contents.
Named(tree, ignored) ==
  {p \in Sources \ (Secrets \cup ignored) : tree.files[p] \notin {"absent", "large"}}
Readable(files, ignored) == {p \in Sources \ (Secrets \cup ignored) : files[p] \in Texts}
Candidates(tree, ignored) == First(Named(tree, ignored))
Discovered(files, ignored) == First(Readable(files, ignored))

MetadataBlobs(tree, ignored) ==
  [p \in Sources |-> IF p \in Candidates(tree, ignored) THEN Git(tree.files[p]) ELSE NoBlob]

HasBlobs(index) == \E p \in Sources : index.blobs[p] # NoBlob

FetchPaths(index, tree, ignored) ==
  LET blobs == MetadataBlobs(tree, ignored) IN
  IF HasBlobs(index)
  THEN {p \in Candidates(tree, ignored) : blobs[p] # index.blobs[p] \/ index.files[p] = NoHash}
  ELSE Candidates(tree, ignored)

Kept == IF listed THEN Candidates(asof, ignore) \ plan ELSE {}

\* A mutation: a file whose fetch brought no text keeps the hash it had.
MergedStale ==
  LET found == Discovered(got, ignore)
      kept == IF listed THEN Candidates(asof, ignore) \ found ELSE {} IN
  [p \in Sources |-> IF p \in found THEN got[p] ELSE IF p \in kept THEN old.files[p] ELSE NoHash]

\* The hashes of the files fetched, and of those whose blob has not changed.
Merged ==
  LET found == Discovered(got, ignore) IN
  [p \in Sources |-> IF p \in found THEN got[p] ELSE IF p \in Kept THEN old.files[p] ELSE NoHash]

\* A mutation: a listed file keeps its blob though its content did not arrive.
MergedBlobsAll(files) ==
  [p \in Sources |-> IF listed /\ p \in Candidates(asof, ignore) THEN Git(asof.files[p])
                     ELSE IF files[p] = NoHash THEN NoBlob
                     ELSE Sum(files[p])]

MergedBlobs(files) ==
  [p \in Sources |-> IF files[p] = NoHash THEN NoBlob
                     ELSE IF listed THEN Git(asof.files[p]) ELSE Sum(files[p])]

\* A mutation: files that are gone are no change.
ChangesLeft(index, files, blobs) ==
  IF HasBlobs(index) THEN {p \in Sources : blobs[p] \notin {index.blobs[p], NoBlob}}
  ELSE {p \in Sources : files[p] \notin {index.files[p], NoHash}}

\* diffFileHashes: by blob when the index has blobs, by content otherwise.
Changes(index, files, blobs) ==
  IF HasBlobs(index) THEN {p \in Sources : blobs[p] # index.blobs[p]}
  ELSE {p \in Sources : files[p] # index.files[p]}

\* Which files a full run leaves out at the limit depends on all it has fetched.
Limited(files) == Readable(files, ignore) # Discovered(files, ignore)
Suspect == IF listed THEN (old.suspect \cap Kept) \cup bad
           ELSE IF bad # {} /\ (Limited(got) \/ Limited(asof.files)) THEN Sources ELSE bad

\* Indexes of earlier releases: without blobs, or with hashes missing.
WithoutBlobs(tree) ==
  Index([p \in Sources |-> IF p \in Discovered(tree.files, {}) THEN tree.files[p] ELSE NoHash],
        [p \in Sources |-> NoBlob], <<"stale", "stale">>,
        [tree |-> tree, ignore |-> {}, listed |-> FALSE], {})
WithoutHash(tree, path) ==
  LET found == {p \in Candidates(tree, {}) : tree.files[p] \in Texts} IN
  Index([p \in Sources |-> IF p \in found \ {path} THEN tree.files[p] ELSE NoHash],
        [p \in Sources |-> IF p \in found THEN Git(tree.files[p]) ELSE NoBlob],
        <<"stale", "stale">>, [tree |-> tree, ignore |-> {}, listed |-> TRUE], {path})

RemoteInit ==
  /\ remote \in Trees
  /\ \/ repoIndex = NoIndex
     \/ repoIndex = WithoutBlobs(remote)
     \/ \E p \in Sources : repoIndex = WithoutHash(remote, p)
  /\ at = "idle" /\ old = NoIndex /\ ignore = {} /\ asof = remote /\ listed = FALSE
  /\ plan = {} /\ todo = {} /\ got = Nothing /\ failed = FALSE /\ cancelled = FALSE
  /\ bad = {} /\ mem = NoIndex /\ answer = "none" /\ runs = 0 /\ pushes = 0 /\ errors = 0
-----------------------------------------------------------------------------
Finish(how) == at' = "idle" /\ answer' = how
Step(place) == at' = place /\ UNCHANGED answer
Error == errors < MaxErrors /\ errors' = errors + 1

StartRepo ==
  /\ at = "idle" /\ runs < MaxIndexRuns /\ runs' = runs + 1
  /\ \E incremental \in BOOLEAN : old' = IF incremental THEN repoIndex ELSE NoIndex
  /\ ignore' \in Ignores
  /\ plan' = {} /\ todo' = {} /\ got' = Nothing /\ failed' = FALSE /\ cancelled' = FALSE
  /\ bad' = {} /\ mem' = NoIndex /\ listed' = FALSE
  /\ \/ Step("ignore") /\ UNCHANGED errors
     \/ Error /\ Finish("error")
  /\ UNCHANGED <<remote, repoIndex, asof, pushes>>

\* A request of a run that is out of time fails as one that GitHub refuses.
RequestFails == Error \/ (cancelled /\ UNCHANGED errors)

ReadGitignore ==
  /\ at = "ignore" /\ Step("list")
  /\ \/ ~cancelled /\ ignore' = ignore \cup remote.ignore /\ UNCHANGED errors
     \/ RequestFails /\ UNCHANGED ignore
  /\ UNCHANGED <<remote, repoIndex, old, asof, listed, plan, todo, got, failed, cancelled,
                 bad, mem, runs, pushes>>

Fetch(paths) == plan' = paths /\ todo' = paths /\ Step("fetch")

\* AcquireTreeMetadata, which AcquireTree calls too, and what the prefetch decides.
ListTree ==
  /\ at = "list"
  /\ \/ /\ ~cancelled /\ asof' = remote /\ listed' = old.there /\ UNCHANGED errors
        /\ \/ ~old.there /\ Fetch({p \in Sources : remote.files[p] # "absent"})
           \/ /\ old.there
              /\ IF Candidates(remote, ignore) = {} THEN Finish("no source files") /\ UNCHANGED <<plan, todo>>
                 ELSE IF \/ old.head = <<"tree", remote>>
                         \/ HasBlobs(old) /\ old.blobs = MetadataBlobs(remote, ignore)
                 THEN Finish("no changes") /\ UNCHANGED <<plan, todo>>
                 ELSE Fetch(FetchPaths(old, remote, ignore))
     \/ RequestFails /\ Finish("error") /\ UNCHANGED <<asof, listed, plan, todo>>
  /\ UNCHANGED <<remote, repoIndex, old, ignore, got, failed, cancelled, bad, mem, runs, pushes>>

\* fetchFileContent: an empty file counts as one that is not there.
Content(p) == IF remote.files[p] = "empty" THEN "absent" ELSE remote.files[p]

\* One request of acquireTreePaths, which run in any order.
FetchFile(p) ==
  /\ at = "fetch" /\ p \in todo /\ todo' = todo \ {p}
  /\ \/ /\ ~cancelled /\ UNCHANGED <<failed, errors>>
        /\ got' = [got EXCEPT ![p] = Content(p)]
        /\ bad' = IF remote.files[p] = asof.files[p] THEN bad ELSE bad \cup {p}
     \/ Error /\ failed' = TRUE /\ bad' = bad \cup {p} /\ UNCHANGED got
     \/ cancelled /\ failed' = TRUE /\ UNCHANGED <<bad, got, errors>>
  /\ UNCHANGED <<remote, repoIndex, at, old, ignore, asof, listed, plan, cancelled, mem,
                 answer, runs, pushes>>

\* No file came although some request failed, or the context ended: discovery looks at it.
Stopped == IF got = Nothing THEN plan # {} /\ (failed \/ cancelled) ELSE cancelled

Discover ==
  /\ at = "fetch" /\ todo = {}
  /\ LET files == Merged
         blobs == MergedBlobs(files)
         head == IF listed THEN <<"tree", asof>> ELSE <<"sum", blobs>> IN
     \/ Stopped /\ Finish("error") /\ UNCHANGED mem
     \/ ~Stopped /\ files = NoIndex.files /\ Finish("no source files") /\ UNCHANGED mem
     \/ /\ ~Stopped /\ files # NoIndex.files
        /\ old.there /\ Changes(old, files, blobs) = {} /\ Finish("no changes") /\ UNCHANGED mem
     \/ /\ ~Stopped /\ files # NoIndex.files /\ (old.there => Changes(old, files, blobs) # {})
        /\ mem' = Index(files, blobs, head,
                        [tree |-> asof, ignore |-> ignore, listed |-> listed], Suspect)
        /\ Step("save")
  /\ UNCHANGED <<remote, repoIndex, old, ignore, asof, listed, plan, todo, got, failed,
                 cancelled, bad, runs, pushes, errors>>

\* What the run sends to the vector store.
Upserts == {p \in Changes(old, mem.files, mem.blobs) : mem.blobs[p] # NoBlob}
Missing == {p \in Upserts : got[p] = "absent"}

\* A save that fails may have replaced the index (IndexStore has its steps).
SaveFails == Error /\ Finish("error") /\ repoIndex' \in {repoIndex, mem}

SaveRepo ==
  /\ at = "save"
  /\ \/ repoIndex' = mem /\ Step("vectors") /\ UNCHANGED errors
     \/ SaveFails
  /\ UNCHANGED <<remote, fetchVars, cancelled, runs, pushes>>

\* A synchronisation that fails is a warning, and its chunk IDs are not saved.
SyncVectors ==
  /\ at = "vectors"
  /\ \/ Missing = {} /\ ~cancelled /\ Step("save again") /\ UNCHANGED errors
     \/ (Missing # {} \/ cancelled) /\ Finish("indexed") /\ UNCHANGED errors
     \/ Error /\ Finish("indexed")
  /\ UNCHANGED <<remote, repoIndex, fetchVars, cancelled, runs, pushes>>

SaveAgain ==
  /\ at = "save again"
  /\ \/ repoIndex' = mem /\ Finish("indexed") /\ UNCHANGED errors
     \/ SaveFails
  /\ UNCHANGED <<remote, fetchVars, cancelled, runs, pushes>>
-----------------------------------------------------------------------------
Push ==
  /\ pushes < MaxPushes /\ pushes' = pushes + 1
  /\ remote' \in Trees \ {remote}
  /\ UNCHANGED <<repoIndex, at, fetchVars, cancelled, answer, runs, errors>>

\* The time of the call is over, or its client hung up.
EndContext ==
  /\ at # "idle" /\ ~cancelled /\ cancelled' = TRUE
  /\ UNCHANGED <<remote, repoIndex, at, fetchVars, answer, runs, pushes, errors>>

\* invalidate_cache, which does not wait for the run.
Invalidate ==
  /\ repoIndex # NoIndex /\ repoIndex' = NoIndex
  /\ UNCHANGED <<remote, at, fetchVars, cancelled, answer, runs, pushes, errors>>

RemoteNext ==
  \/ StartRepo \/ ReadGitignore \/ ListTree \/ (\E p \in Sources : FetchFile(p)) \/ Discover
  \/ SaveRepo \/ SyncVectors \/ SaveAgain \/ Push \/ EndContext \/ Invalidate

RemoteSpec == RemoteInit /\ [][RemoteNext]_remoteVars
-----------------------------------------------------------------------------
\* The index of a tree: of the files the metadata lists those that are text, or, where the
\* whole tree was fetched, the first files that are text.
IndexOf(basis) ==
  LET files == basis.tree.files
      found == IF basis.listed THEN Candidates(basis.tree, basis.ignore) \cap
                                    Readable(files, basis.ignore)
               ELSE Discovered(files, basis.ignore) IN
  [p \in Sources |-> IF p \in found THEN files[p] ELSE NoHash]

\* The index is that of one tree, over any number of incremental runs that fetch what has
\* changed: no file of an older tree stays, none is left out.  The exceptions are the files
\* whose own request failed or came after a push; a run that is out of time is no exception,
\* it saves nothing or has all its files.
IndexIsOneTree ==
  repoIndex.there =>
    \A p \in Sources \ repoIndex.suspect : repoIndex.files[p] = IndexOf(repoIndex.basis)[p]

\* A run that answers "No changes detected" has an index that agrees with the tree it has
\* seen, unless it was told to ignore other paths than the run that saved the index of this
\* very tree.
NoChangesIsTrue ==
  at = "idle" /\ answer = "no changes"
  /\ (old.head = <<"tree", asof>> => old.basis.ignore = ignore) =>
    \A p \in Sources \ (old.suspect \cup bad) :
      old.files[p] = IndexOf([tree |-> asof, ignore |-> ignore, listed |-> TRUE])[p]

\* Every file a run sends to the vector store is one it has fetched: the synchronisation
\* does not stop at a file whose content is missing.
UpsertsAreFetched == at \in {"vectors", "save again"} => Missing = {}
=============================================================================
