SPECIFICATION EmergeSpec
CONSTANTS
  NumCommands = 2
  NumKeys = 3
  KeyName <- MCKeyName
  Graphs <- MCGraphs
  Solutions <- MCSolutions
  Options <- MCOptions
  Makes = {1, 2}
  Custom <- MCCustom
  MaxFaults = 1
INVARIANTS
  MergedIsOwn
  DependenciesMergedFirst
CHECK_DEADLOCK FALSE
