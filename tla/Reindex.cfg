SPECIFICATION MCSpec
CONSTANTS
  mcpCall = mcpCall
  watcherCall = watcherCall
  worker = worker
  w1 = w1
  w2 = w2
  Nobody = Nobody
  Calls = {mcpCall, watcherCall}
  Workers = {worker}
  Waiters = {w1, w2}
  MaxRuns = 4
  MaxPanics = 1
  Sources = {1, 2, 3, 4}
  Secrets = {4}
  Texts = {"x", "y"}
  Trees <- MCTrees
  Ignores <- MCIgnores
  MaxIndexFiles = 2
  MaxIndexRuns = 2
  MaxPushes = 1
  MaxErrors = 1
INVARIANTS
  NoLostWakeup WokenAfterAwaited RepeatedFailureShows
  IndexIsOneTree NoChangesIsTrue UpsertsAreFetched
PROPERTIES
  FreshMeansSettled WokenWhenIdle
CHECK_DEADLOCK FALSE
