SPECIFICATION MCSpec
CONSTANTS
  Paths = {1, 2, 3, 4}
  Specs = {1, 2, 3}
  Guesses <- MCGuesses
  Variants <- MCVariants
  Missing = Missing
  Versions <- MCVersions
  Queries <- MCQueries
  DefinedIn <- MCDefinedIn
  MaxGraphEdits = 1
  Tables <- MCTables
  Searches <- MCSearches
  Classes = {1, 2, 3, 4}
  Bundles = {{1, 2, 3}}
  Workers = {1, 2}
  Texts0 <- MCTexts
  MaxBundleEdits = 2
  Contents <- MCContents
  HitLists <- MCHitLists
  TextQueries <- MCTextQueries
  MaxTextEdits = 1
INVARIANTS ReadsBetweenSnapshots NothingLeftOut
PROPERTIES HierarchyExact
CHECK_DEADLOCK FALSE
