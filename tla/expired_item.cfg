SPECIFICATION Spec
PROPERTY AckMeansStored
CONSTANTS
  BaseField <- MCBase
  ExtraField = {"bio"}
  DerivedField <- MCDerived
  Parents <- MCParents
  Computed <- MCComputed
  Value <- MCValue
  Literal <- MCLiteral
  Null = "NULL"
  Absent = "undefined"
  ExtraDefault = "x"
  ExtraOmitted = "x"
  SharedExtraKey = FALSE
  Call = {"l1", "u1", "u2"}
  Instance = {"i1"}
  Task <- TwoUpdateTasks
  MaxCasAttempts = 5
  CacheEnabled = TRUE
  Overlap = FALSE
  Evictions = TRUE
  CacheFaults = FALSE
  DbFaults = FALSE
  InitialRows <- MCRows
  InitialExtras <- MCSomeExtras
