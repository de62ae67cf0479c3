SPECIFICATION Spec
INVARIANT IdleExtraAgreement
PROPERTY AckMeansStored
CONSTANTS
  BaseField <- MCBase
  ExtraField = {"bio", "tag"}
  DerivedField <- MCDerived
  Parents <- MCParents
  Computed <- MCComputed
  Value <- MCValue
  Literal <- MCLiteral
  Null = "NULL"
  Absent = "undefined"
  ExtraDefault = "x"
  ExtraOmitted = "x"
  SharedExtraKey = FALSE
  Call = {"l1", "l2", "u1", "u2"}
  Instance = {"i1", "i2"}
  Task <- WriterTasks
  MaxCasAttempts = 5
  CacheEnabled = TRUE
  Overlap = FALSE
  Evictions = FALSE
  CacheFaults = FALSE
  DbFaults = FALSE
  InitialRows <- MCRowOrNot
  InitialExtras <- MCSomeExtras
