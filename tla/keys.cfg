SPECIFICATION Spec
INVARIANTS ServesItsRow CachedRowsExist InsertLoadsInserted
CONSTANTS
  PrimaryKeys <- MCPrimaryKeys
  Token <- MCToken
  LowerCase <- MCLowerCase
  Value <- MCValue
  IgnoresCase = TRUE
  AnyOrder = FALSE
  MaxOps = 3
