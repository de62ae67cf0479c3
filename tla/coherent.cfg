SPECIFICATION Spec
INVARIANTS ColumnAgreement InstanceShowsRecord
PROPERTIES RefinesCoherentCache ReadYourWrites
CONSTANTS
  BaseField <- MCBase
  ExtraField = {}
  DerivedField <- MCDerived
  Parents <- MCParents
  Computed <- MCComputed
  Value <- MCValue
  Literal = {}
  Null = "NULL"
  Absent = "undefined"
  ExtraDefault = "x"
  ExtraOmitted = "x"
  SharedExtraKey = FALSE
  Call = {"l1", "l2", "u1", "u2", "u3", "r"}
  Instance = {"i1", "i2", "i3"}
  Task <- CoherentTasks
  MaxCasAttempts = 5
  CacheEnabled = TRUE
  Overlap = FALSE
  Evictions = FALSE
  CacheFaults = FALSE
  DbFaults = FALSE
  InitialRows <- MCRows
  InitialExtras <- MCNoExtras
