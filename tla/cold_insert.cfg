SPECIFICATION Spec
INVARIANT InsertKeepsExtra
CONSTANTS
  Process = {"p"}
  Call = {"a", "b"}
  Task <- FirstInsertTasks
  HasDerived = TRUE
  HasExtraTable = TRUE
  CacheEnabled = TRUE
  CacheFaults = {}
  DbFaults = {}
  Evictions = FALSE
  Restarting = {}
