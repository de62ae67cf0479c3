SPECIFICATION Spec
INVARIANTS EventTypeOK OnceAtMostOnce DisposersBalance
PROPERTY Delivered
CONSTANTS
  Event = {"update", "changed", "other"}
  Listener = {"shared", "single", "audit"}
  FieldEvents <- MCFieldEvents
  Declared = {}
  Field = {"name", "age"}
  Method <- MCMethods
  Shared = {"shared"}
  Single = {"single"}
  Audit = "audit"
  MaxCalls = 2
  MaxOps = 3
