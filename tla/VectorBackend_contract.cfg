SPECIFICATION FairSpec
CONSTANTS
  caller1 = caller1  caller2 = caller2  remote = remote  r1 = r1  r2 = r2
  Callers = {caller1, caller2, remote}
  ProcessOf <- MCProcessOf
  Records = {r1, r2}
  NamespaceOf <- MCNamespaceOf
  Dims = {1, 2}
  Asked <- MCAsked
  BatchSize = 1
  Texts = 3
  EmbedBatch = 2
  MaxAttempts = 2
  MaxCalls = 2
  MaxFaults = 1
INVARIANTS BootAgrees EmbeddingsInOrder
PROPERTIES KeepsContract CallEnds
CHECK_DEADLOCK FALSE
