SPECIFICATION ServerSpec
CONSTANTS
  Messages <- MCMessages
  MaxMessages = 1
  Configs <- MCConfigs
  Tools = {"search", "stats"}
  NoRepoMeta = {"stats"}
  Properties <- MCProperties
  Required = {}
  ProjectFiles <- MCProjectFiles
PROPERTIES SignalEnds
CHECK_DEADLOCK FALSE
