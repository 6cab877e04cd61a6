SPECIFICATION CacheSpec
CONSTANTS
  Threads = {"t1", "t2"}
  NumVersions = 2
  Backends = {"sqlite", "memory"}
  MaxEntries = 1
  Mtime <- MCMtime
  MaxCalls = 3
  MaxEdits = 1
  MaxProcesses = 2
INVARIANTS ServedCurrent StructuresAgree
CHECK_DEADLOCK FALSE
