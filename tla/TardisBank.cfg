\* The account as an object keeps three transactions.
\* The parts stop at their bounds.
CONSTANTS
  MaxTransactions = 3
  Amounts = {1, 2}
  MaxBookings = 8
  PocketTransactions = 2
  ScheduledAmounts <- GiveOrTake
  MonthStarts <- ShortMonths
  DaysPerWeek = 2
  TicksPerDay = 3
  LastTick = 9
  MaxSchedules = 2
  Sessions = {"s1", "s2"}
  StoredTransactions = 2
  MaxMessages = 1
  Dues = 2
  MaxStored = 4
  Names = {"ann", "bob"}
  Requests = {"r1", "r2"}
  MaxUsers = 2
  Connections = {"c1", "c2"}
  Texts = {"hello", "bye"}
  Shown = 2
  MaxPublished = 2
  NoText = NoText
  Loading = Loading
SPECIFICATION TardisBankSpec
INVARIANTS AccountsAreRight BookingsAreRight UsersAreConsistent
PROPERTIES ImplementsLedger DueDatesGetPaid CommitsFollowTheAccount NewsPagesAreTrue
CHECK_DEADLOCK FALSE
