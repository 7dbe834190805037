------------------------------ MODULE TardisBank ----------------------------
(***************************************************************************)
(* Five parts of the TardisBank samples that share no state: the account   *)
(* as an object (extended here), the account with payment schedules and    *)
(* their scheduler, the account in the database under concurrent requests, *)
(* the users, and the news pages.  Which part moves is chosen at the       *)
(* start; the others rest in an initial state of theirs.                   *)
(***************************************************************************)
EXTENDS Account

CONSTANTS
  MaxBookings,   \* bound: bookings of the account as an object
  \* ScheduledPayments
  PocketTransactions,  \* transactions its account keeps
  ScheduledAmounts,    \* of BankSessions, too
  MonthStarts, DaysPerWeek, TicksPerDay, LastTick, MaxSchedules,
  \* BankSessions
  Sessions,
  StoredTransactions,  \* transactions its account keeps
  MaxMessages, Dues,
  MaxStored,     \* bound: bookings in its history
  \* Families
  Names, Requests, MaxUsers,
  \* NewsPages
  Connections, Texts, NoText, Loading, Shown, MaxPublished

VARIABLES
  moving,  \* the part that moves
  \* ScheduledPayments
  pocketOld, pocketTransactions, pocketArchived, now, schedules, plans,
  \* BankSessions
  storedOld, storedRows, nextDue, messages, request, booked, storedArchived, told,
  \* Families
  users, created, delivered, writes, missed, overlapped, smtpServer, publishThrows,
  \* NewsPages
  announcements, requests, links, details, clicked, overtaken, listed, form, page

Pocket == INSTANCE ScheduledPayments WITH
  MaxTransactions <- PocketTransactions,
  old <- pocketOld, transactions <- pocketTransactions, archived <- pocketArchived

Stored == INSTANCE BankSessions WITH
  MaxTransactions <- StoredTransactions, MaxBookings <- MaxStored,
  old <- storedOld, rows <- storedRows, next <- nextDue, archived <- storedArchived

Family == INSTANCE Families

News == INSTANCE NewsPages WITH Empty <- NoText, rows <- listed

ASSUME TardisBankAssumption ==
  /\ PocketTransactions \in Nat \ {0} /\ Pocket!CalendarAssumption
  /\ Stored!BankAssumption
  /\ Family!FamiliesAssumption
  /\ News!NewsAssumption

pocketVars == <<pocketOld, pocketTransactions, pocketArchived, now, schedules, plans>>
storedVars == <<storedOld, storedRows, nextDue, messages, request, booked, storedArchived, told>>
familyVars == <<users, created, delivered, writes, missed, overlapped, smtpServer, publishThrows>>
newsVars == <<announcements, requests, links, details, clicked, overtaken, listed, form, page>>

all == <<moving, account, pocketVars, storedVars, familyVars, newsVars>>

TardisBankInit ==
  /\ moving \in {"account", "pocket", "stored", "family", "news"}
  /\ Init
  /\ Pocket!BankInit /\ Stored!Init /\ Family!Init /\ News!Init
  /\ moving # "family" => smtpServer /\ publishThrows
  /\ moving # "news" => page = "view"

AccountMoves ==
  /\ moving = "account" /\ Len(Bookings) < MaxBookings /\ Next
  /\ UNCHANGED <<moving, pocketVars, storedVars, familyVars, newsVars>>

PocketRests == UNCHANGED <<moving, account, storedVars, familyVars, newsVars>>

PocketMoves == moving = "pocket" /\ Pocket!BankNext /\ PocketRests
SchedulerRuns == moving = "pocket" /\ Pocket!ExecuteUpdates /\ PocketRests
TimePasses == moving = "pocket" /\ Pocket!Tick /\ PocketRests

StoredMoves ==
  /\ moving = "stored" /\ Stored!Next
  /\ UNCHANGED <<moving, account, pocketVars, familyVars, newsVars>>

FamilyMoves ==
  /\ moving = "family" /\ Family!Next
  /\ UNCHANGED <<moving, account, pocketVars, storedVars, newsVars>>

NewsMoves ==
  /\ moving = "news" /\ News!Next
  /\ UNCHANGED <<moving, account, pocketVars, storedVars, familyVars>>

TardisBankNext == AccountMoves \/ PocketMoves \/ StoredMoves \/ FamilyMoves \/ NewsMoves

\* The job that calls the scheduler keeps calling it, and time passes.
TardisBankSpec ==
  /\ TardisBankInit /\ [][TardisBankNext]_all
  /\ WF_all(SchedulerRuns) /\ WF_all(TimePasses)

(***************************************************************************)
(* What the parts promise; ImplementsLedger of Account is in scope.        *)
(***************************************************************************)
\* The balance is what was ever booked, no withdrawal overdraws, archiving
\* starts when the list is full (Account); payments follow the plan of their
\* schedule, once, in order and never early, and are all booked
\* (SchedulerService.ExecuteUpdates).
AccountsAreRight ==
  /\ TypeOK /\ BalanceIsTotal /\ NeverOverdrawn /\ ArchivesWhenFull
  /\ Pocket!BankTypeOK /\ Pocket!PaymentsFollowPlan /\ Pocket!PaymentsAreBooked

\* A schedule that stays overdue is paid until it is not.
DueDatesGetPaid == Pocket!DueDatesGetPaid

\* Among concurrent requests, one that has missed no commit of another does to
\* the stored account what it would do to the object, withdrawals refused and
\* transactions archived included.
CommitsFollowTheAccount == Stored!CommitsFollowTheAccount

\* With concurrent requests a transaction is in the list or has been archived,
\* never both nor twice; the parent is told of every withdrawal and has the
\* newest messages; no due date is skipped; and an amount is lost, a list too
\* long or a date paid twice only after a request that had missed a commit.
BookingsAreRight ==
  /\ Stored!TypeOK /\ Stored!EachBookedOnce /\ Stored!OnlyMissedCommitsHarm
  /\ Stored!NewestMessagesKept /\ Stored!DueDatesPaidOnce

\* No name is given to two users unless they were registered at the same time;
\* a parent who has to activate was sent the key and can use it, unless two
\* requests wrote the user at the same time; where mail is in use, active
\* parents got theirs and somebody knows every password (UserController,
\* UserService).
UsersAreConsistent ==
  /\ Family!TypeOK /\ Family!NamesUnique /\ Family!NobodyLockedOut
  /\ Family!ActiveIsConfirmed /\ Family!PasswordsAreKnown

\* The editor sees no announcement twice, and a row leaves when it was clicked
\* and the server has deleted the announcement; the article shown is that of
\* the link clicked last unless an earlier answer came late; and a text stays
\* until it is published or the login has expired (the scripts of the two news
\* pages).
NewsPagesAreTrue ==
  /\ [](News!NoRowTwice /\ News!DetailsAreTheClicked)
  /\ News!RowsLeaveWhenDeleted
  /\ News!TextKeptUntilPublished
=============================================================================
