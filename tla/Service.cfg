SPECIFICATION MCSpec
CONSTANTS
  Messages <- MCMessages
  MaxMessages = 2
  Configs <- MCConfigs
  Tools = {"search", "stats"}
  NoRepoMeta = {"stats"}
  Properties <- MCProperties
  Required = {}
  ProjectFiles <- MCProjectFiles
  MaxItems = 3
  Workers = 2
  MaxCalls = 3
  MaxCallers = 2
  MaxPending = 2
  MaxAttempts = 2
  MaxFaults = 2
  MaxRestarts = 2
  Openers = {"o1", "o2"}
  Base = 2
  Horizon = 11
  Windows <- MCWindows
INVARIANTS ServerAccounts NilMeansAll ErrorIsPrimary NothingForgotten OldestRollOff
  CloseStoresAll ReadyMeansCurrent TrendsHonest
PROPERTIES TotalsNeverShrink EverythingEnds
CHECK_DEADLOCK FALSE
