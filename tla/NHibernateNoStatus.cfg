SPECIFICATION Spec
CONSTANTS
  r1 = r1
  r2 = r2
  w1 = w1
  w2 = w2
  w3 = w3
  w4 = w4
  NoAttribute = NoAttribute
  NoTransaction = NoTransaction
  RootScope = RootScope
  SupportsStatus = FALSE
  Requests = {r1}
  Writes = {w1, w2}
  Actions = {"plain", "inherits", "overrides"}
  Levels = {"ReadCommitted", "Chaos"}
  IdentityWrites <- MCIdentityWrites
  Owner <- MCOwner
  Filters <- MCFilters
CHECK_DEADLOCK FALSE
INVARIANTS
  ClosedAfterAction
