SPECIFICATION MCSpec
CONSTANTS
  Sessions <- MCSessions
  Namespaces <- MCNamespaces
  OldRows <- MCOldRows
  EventIds = {"a", "fixture"}
  TopK = 1
  Window = 3
  NumRuns = 3
  Givens <- MCGivens
  ActionIds = {"a"}
  TaskLists <- MCTaskLists
  Unregistered = {"bad"}
  MaxConcurrency = 2
  MaxExecutions = 2
  MaxCalls = 2
INVARIANTS
  HistoryTrue
  MemoryKept
  QueueSound
PROPERTIES
  ContextSound
  AllEnd
