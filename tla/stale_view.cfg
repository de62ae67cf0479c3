SPECIFICATION Spec
INVARIANT InstanceDerivedAgrees
CONSTANTS
  BaseField <- MCBase
  ExtraField = {"bio"}
  DerivedField <- MCDerived
  Parents <- MCParents
  Computed <- MCComputed
  Value <- MCValue
  Literal <- MCLiteral
  Null = "NULL"
  Absent = "undefined"
  ExtraDefault = "x"
  ExtraOmitted = "x"
  SharedExtraKey = FALSE
  Call = {"l1", "l2", "u1"}
  Instance = {"i1", "i2"}
  Task <- LoadTasks
  MaxCasAttempts = 5
  CacheEnabled = TRUE
  Overlap = FALSE
  Evictions = FALSE
  CacheFaults = FALSE
  DbFaults = FALSE
  InitialRows <- MCRows
  InitialExtras <- MCSomeExtras
