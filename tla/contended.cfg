SPECIFICATION Spec
INVARIANTS TypeOK DerivedAgrees
PROPERTIES CasPreserves MarkerHolds
CONSTANTS
  BaseField <- MCBase
  ExtraField = {"bio"}
  DerivedField <- MCDerived
  Parents <- MCParents
  Computed <- MCComputed
  Value <- MCValue
  Literal <- MCLiteral
  Null = "NULL"
  Absent = "undefined"
  ExtraDefault = "x"
  ExtraOmitted = "x"
  SharedExtraKey = TRUE
  Call = {"l1", "l2", "m1", "m2"}
  Instance = {"i1", "i2"}
  Task <- ContendedTasks
  MaxCasAttempts = 5
  CacheEnabled = TRUE
  Overlap = FALSE
  Evictions = TRUE
  CacheFaults = TRUE
  DbFaults = FALSE
  InitialRows <- MCRows
  InitialExtras <- MCOneExtra
