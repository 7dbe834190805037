\* Two sessions check for duplicates, in any order.
\* When every test has run nothing happens.
CONSTANTS
  Sessions = {s1, s2}
  Signatures = {v, w}
  NoRow = NoRow
  NullIsDistinct = TRUE
  NoDescriptor = NoDescriptor
  Threads = {"t1", "t2", "t3"}
  Types = {"entity", "ambiguous"}
  Ambiguous = {"ambiguous"}
  Descriptors = {1, 2, 3, 4, 5}
  Assemblies = {"a1", "a2"}
  Keys = {"dialect", "batch"}
  Settings = {"v1", "v2"}
  Files = {"site", "hibernate"}
  DefaultFile = "hibernate"
  DefaultName = "session"
  FileSettings <- InFile
  FileListeners <- OfFile
  Configurers <- OfDatabase
  Caches <- OfCache
  Models = {"model"}
  Exposed = {"audit"}
  Validator = "validator"
  Nothing = Nothing
  NotBuilt = NotBuilt
  MaxCalls = 4
  Classes = {"ca", "cb"}
  Runs = 2
SPECIFICATION LibrarySpec
INVARIANTS SignaturesUnique DescriptorsAgree TestsAreIsolated
PROPERTIES CheckIsSafe FactoryIsAsSaid
SYMMETRY Symmetry
CHECK_DEADLOCK FALSE
