SPECIFICATION Spec
CONSTANTS
  m1 = m1
  m2 = m2
  Managers = {m1, m2}
  Injected = m1
  Writes = {w1, w2}
  NoAttribute = NoAttribute
  NoTransaction = NoTransaction
  Actions = {"plain", "inherits", "overrides"}
  Levels = {"Unspecified", "ReadCommitted"}
  Filters <- MCFilters
SYMMETRY Symmetry
CHECK_DEADLOCK FALSE
INVARIANTS
  NoScopeOutlivesRequest
