SPECIFICATION Spec
INVARIANT IdleAgreement
CONSTANTS
  BaseField <- MCBase
  ExtraField = {"bio"}
  DerivedField <- MCDerived
  Parents <- MCParents
  Computed <- MCComputed
  Value <- MCValue
  Literal <- MCLiteral
  Null = "NULL"
  Absent = "undefined"
  ExtraDefault = "x"
  ExtraOmitted = "x"
  SharedExtraKey = FALSE
  Call = {"l1", "l2", "u1", "u2"}
  Instance = {"i1", "i2"}
  Task <- SameColumnTasks
  MaxCasAttempts = 5
  CacheEnabled = TRUE
  Overlap = FALSE
  Evictions = FALSE
  CacheFaults = FALSE
  DbFaults = FALSE
  InitialRows <- MCRows
  InitialExtras <- MCSomeExtras
