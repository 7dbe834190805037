SPECIFICATION Spec
CONSTANTS
  r1 = r1
  r2 = r2
  w1 = w1
  NoAttribute = NoAttribute
  NoTransaction = NoTransaction
  NoRequest = NoRequest
  RootScope = RootScope
  SupportsStatus = TRUE
  StaleReads = TRUE
  Requests = {r1, r2}
  Writes = {w1}
  IdentityWrites = {}
  Actions = {"lenient", "strict"}
  Levels = {"ReadCommitted"}
  Owner <- MCOwner
  Filters <- MCFilters
CHECK_DEADLOCK FALSE
INVARIANTS
  RunsUnderItsPolicy
