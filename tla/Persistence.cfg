\* Three objects and a proxy, a class with and a class without signature.
\* Nothing happens when everything has been created or the host has stopped.
CONSTANTS
  Objects = {o1, o2, o3}
  Proxies = {proxy}
  Types = {signed, plain}
  SignedTypes = {signed}
  Ids = {i1, i2}
  NoId = NoId
  Values = {v1, v2}
  None = None
  Sessions = {i1, i2}
  RowValues = {1, 2}
  Unwritten = Unwritten
  MaxVersion = 5
  Entities = {"validated", "signed"}
  Validatable = {"validated", "signed"}
  UniqueSigned = {"signed"}
  Absent = Absent
  NoRow = NoRow
  RowIds = {o1, o2, o3}
  Columns = {"name", "code"}
  ColumnValues = {v1, v2}
  Null = Null
  Scopes = {i1, i2}
  Consumers = {v1, v2}
  Root = Root
SPECIFICATION PersistenceSpec
SYMMETRY Symmetry
INVARIANTS EntitiesAreIdentified FindersAreExact ServicesBelongToScopes
PROPERTIES IdentityIsStable SessionsKeepRows FlushIsGuarded
CHECK_DEADLOCK FALSE
