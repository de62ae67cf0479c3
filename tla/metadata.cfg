SPECIFICATION FairSpec
INVARIANTS MetaTypeOK ReadyMeansResolved PoorOnlyWhileResolving
PROPERTY EveryCallSettles
CONSTANTS
  Process = {"p", "q"}
  Call = {"a", "b", "c"}
  Task <- ColdTasks
  HasDerived = TRUE
  HasExtraTable = TRUE
  CacheEnabled = TRUE
  CacheFaults = {"a"}
  DbFaults = {"b"}
  Evictions = TRUE
  Restarting = {"p"}
