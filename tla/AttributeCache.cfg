SPECIFICATION FairSpec
CONSTANTS
  Requests = {r1, r2, r3}
  NoRequest = NoRequest
  NoAttribute = NoAttribute
  StaleReads = FALSE
  Actions = {"plain", "inherits", "overrides"}
  Levels = {"ReadCommitted", "Chaos"}
  Filters <- MCFilters
INVARIANTS
  TypeOK
  AnswersRight
  AddNeverThrows
  AnswersAreKept
PROPERTIES
  EntriesStay
  EveryLookupEnds
