----------------------------- MODULE BankSessions ---------------------------
(***************************************************************************)
(* The account in the database, and the requests that work on it, each in  *)
(* a session and a transaction of its own at the level read committed: the *)
(* row of the account is read first, its transactions when the list is     *)
(* touched, and what changed is written by the flush of the commit.  The   *)
(* account has no version column: a request may commit although it has     *)
(* missed what another committed since it read.                            *)
(***************************************************************************)
EXTENDS Integers, SequencesExt

CONSTANTS
  Sessions,
  MaxTransactions,  \* transactions the account keeps
  MaxMessages,      \* messages the parent keeps
  Amounts,
  ScheduledAmounts,  \* what a schedule pays, possibly negative
  Dues,             \* bound: dates of the schedule that have come
  MaxBookings       \* bound: bookings in the history

BankAssumption ==
  /\ MaxTransactions \in Nat \ {0} /\ MaxMessages \in Nat \ {0}
  /\ Amounts \subseteq Nat \ {0} /\ ScheduledAmounts \subseteq Int
  /\ Dues \in Nat /\ MaxBookings \in Nat

VARIABLES
  old,       \* the row of the account
  rows,      \* its transactions, by number
  next,      \* the row of the payment schedule: the next due date
  messages,  \* the messages of the parent, by the number of the withdrawal
  request,   \* the request of every session
  booked,    \* what was committed, by number (history)
  archived,  \* the numbers folded into the old balance (history)
  told       \* the numbers the parent was told of (history)

database == <<old, rows, next, messages>>
history == <<booked, archived, told>>
vars == <<database, request, history>>

\* The amounts of the rows that these numbers stand for.
AmountsOf(numbers) == [i \in DOMAIN numbers |-> booked[numbers[i]].amount]

\* The row of the account with its transactions, seen as the object.
A == INSTANCE Account WITH
       transactions <- AmountsOf(rows), archived <- AmountsOf(archived)

Kinds == {"Receive", "Withdraw", "Accept", "Schedule"}
Idle == [at |-> "idle"]

AmountsFor(kind) == IF kind = "Schedule" THEN ScheduledAmounts ELSE Amounts

Init ==
  /\ old = 0 /\ rows = <<>> /\ next = 1 /\ messages = <<>>
  /\ request = [s \in Sessions |-> Idle]
  /\ booked = <<>> /\ archived = <<>> /\ told = <<>>

Put(s, r) == request' = [request EXCEPT ![s] = r]

Open == {s \in Sessions : request[s] # Idle}

\* A request reads the account, and the scheduler with it the schedule; missed
\* (history) says whether another has committed since.
LoadAccount(s, kind, amount) ==
  /\ request[s] = Idle
  /\ Len(booked) + Cardinality(Open) < MaxBookings
  /\ kind = "Schedule" => next <= Dues
  /\ Put(s, [at |-> "loaded", kind |-> kind, amount |-> amount, old |-> old, due |-> next,
            missed |-> FALSE])
  /\ UNCHANGED <<database, history>>

(***************************************************************************)
(* The operation of the domain on what has been read: the transactions now *)
(* and the account before.                                                 *)
(***************************************************************************)
Taken(r) == r.kind \in {"Withdraw", "Accept"}
Change(r) == IF Taken(r) THEN -r.amount ELSE r.amount

BalanceRead(r) == r.old + A!Total(AmountsOf(rows))

\* Not the code: a withdrawal is never refused.
RefusedNever(r) == FALSE

Refused(r) == Taken(r) /\ r.amount > BalanceRead(r)

\* Not the code: nothing is cut.
DropNothing(list, limit) == <<>>

\* Not the code: the newest goes.
DropNewest(list, limit) == IF Len(list) + 1 > limit THEN <<list[Len(list)]>> ELSE <<>>

\* The oldest of a list that would be too long with one more.
Drop(list, limit) == IF Len(list) + 1 > limit THEN <<Head(list)>> ELSE <<>>

Book(s) ==
  LET r == request[s]
  IN /\ r.at = "loaded"
     /\ Put(s, IF Refused(r) THEN Idle
               ELSE [at |-> "booked", kind |-> r.kind, amount |-> r.amount, old |-> r.old,
                     due |-> r.due, missed |-> r.missed, drop |-> Drop(rows, MaxTransactions),
                     dropMessage |-> IF r.kind = "Withdraw" THEN Drop(messages, MaxMessages) ELSE <<>>])
     /\ UNCHANGED <<database, history>>

(***************************************************************************)
(* The commit.  A delete that finds no row ends it: another session has    *)
(* deleted the row.                                                        *)
(***************************************************************************)
Without(list, drop) ==
  IF drop = <<>> THEN list
  ELSE RemoveAt(list, CHOOSE i \in DOMAIN list : list[i] = Head(drop))

Number == Len(booked) + 1

Stale(r) == ~(ToSet(r.drop) \subseteq ToSet(rows) /\ ToSet(r.dropMessage) \subseteq ToSet(messages))

\* Not the code: the date moves only when nothing is archived.
WriteScheduleSometimes(r) ==
  next' = IF r.kind = "Schedule" THEN r.due + (1 - Len(r.drop)) ELSE next

\* Not the code: the row is incremented, whatever was read.
WriteScheduleByOne(r) == next' = IF r.kind = "Schedule" THEN next + 1 ELSE next

\* The date as it was read, moved by one.
WriteSchedule(r) == next' = IF r.kind = "Schedule" THEN r.due + 1 ELSE next

WriteMessage(r) ==
  IF r.kind = "Withdraw"
  THEN /\ messages' = Append(Without(messages, r.dropMessage), Number)
       /\ told' = Append(told, Number)
  ELSE UNCHANGED <<messages, told>>

Record(r) == [kind |-> r.kind, amount |-> Change(r), due |-> r.due, missed |-> r.missed]

\* Not the code: what is dropped is not added to the old balance.
WriteAccountForgetful(r) ==
  /\ booked' = Append(booked, Record(r))
  /\ rows' = Append(Without(rows, r.drop), Number)
  /\ archived' = archived \o r.drop
  /\ UNCHANGED old

\* Not the code: what is dropped stays in the list.
WriteAccountKeeping(r) ==
  /\ booked' = Append(booked, Record(r))
  /\ rows' = Append(rows, Number)
  /\ archived' = archived \o r.drop
  /\ old' = IF r.drop = <<>> THEN old ELSE r.old + A!Total(AmountsOf(r.drop))

\* The old balance is written only when it has changed, and then as it was read
\* and changed.
WriteAccount(r) ==
  /\ booked' = Append(booked, Record(r))
  /\ rows' = Append(Without(rows, r.drop), Number)
  /\ archived' = archived \o r.drop
  /\ old' = IF r.drop = <<>> THEN old ELSE r.old + A!Total(AmountsOf(r.drop))

Finish(s) ==
  request' = [t \in Sessions |->
    IF t = s \/ request[t] = Idle THEN Idle ELSE [request[t] EXCEPT !.missed = TRUE]]

\* Not the code: when a delete finds no row, what was written before it stays.
CommitPartly(s) ==
  LET r == request[s]
  IN /\ r.at = "booked"
     /\ IF Stale(r) THEN UNCHANGED <<old, rows, messages, history>>
                    ELSE WriteAccount(r) /\ WriteMessage(r)
     /\ WriteSchedule(r)
     /\ Finish(s)

Commit(s) ==
  LET r == request[s]
  IN /\ r.at = "booked"
     /\ ~Stale(r)
     /\ WriteAccount(r)
     /\ WriteSchedule(r)
     /\ WriteMessage(r)
     /\ Finish(s)

\* The request fails, or its commit does: the transaction is rolled back.
RollBack(s) ==
  /\ request[s] # Idle
  /\ Put(s, Idle)
  /\ UNCHANGED <<database, history>>

SessionStep(s) ==
  \/ \E kind \in Kinds : \E amount \in AmountsFor(kind) : LoadAccount(s, kind, amount)
  \/ Book(s)
  \/ Commit(s)
  \/ RollBack(s)

Next == \E s \in Sessions : SessionStep(s)

Spec == Init /\ [][Next]_vars

(***************************************************************************)
(* Properties.  They hold for requests that overlap in any way; where a    *)
(* request may do harm because it had missed something, they say so.       *)
(***************************************************************************)
Missed == {n \in DOMAIN booked : booked[n].missed}

\* The requests keep their form.
TypeOK ==
  /\ \A s \in Sessions : request[s] = Idle \/ request[s].kind \in Kinds
  /\ old \in Int /\ next \in 1 .. Dues + 1

\* A transaction is in the list or has been archived, never both nor twice,
\* the oldest first.
EachBookedOnce == archived \o rows = [n \in DOMAIN booked |-> n]

\* No amount leaves the account, and its list does not grow beyond the limit,
\* unless some request committed although it had missed a commit.
OnlyMissedCommitsHarm ==
  Missed = {} => old = A!Total(AmountsOf(archived)) /\ Len(rows) <= MaxTransactions

\* The parent is told of the withdrawals that are booked and of no others, and
\* has the newest messages, as many as are kept; more than that only if some
\* withdrawal had missed a commit.
NewestMessagesKept ==
  LET first == Len(told) - Len(messages)
      Withdrawals == {n \in DOMAIN booked : booked[n].kind = "Withdraw"}
  IN /\ ToSet(told) = Withdrawals
     /\ first >= 0 /\ messages = SubSeq(told, first + 1, Len(told))
     /\ first > 0 => Len(messages) >= MaxMessages
     /\ Missed \cap Withdrawals = {} => Len(messages) <= MaxMessages

\* No due date is skipped, and one is paid twice only if a payment had missed
\* a commit, the second itself or one between the two.
DueDatesPaidOnce ==
  LET Payments == {n \in DOMAIN booked : booked[n].kind = "Schedule"}
  IN /\ \A due \in 1 .. next - 1 : \E n \in Payments : booked[n].due = due
     /\ \A i, j \in Payments :
          i < j /\ booked[i].due = booked[j].due =>
            \E k \in Payments : i < k /\ k <= j /\ booked[k].missed

\* What a request does to the account as an object.
FollowsTheAccount(r) == IF Taken(r) THEN A!Withdraw(r.amount) ELSE A!ReceivePayment(r.amount)

Commits(s) == request[s] # Idle /\ request'[s] = Idle /\ booked' # booked

\* Whatever others have done before: the commit of a request that has missed
\* nothing is a step of the account, so that it withdraws only what is there,
\* moves the balance by its amount and archives the oldest.
CommitsFollowTheAccount ==
  [][\A s \in Sessions : Commits(s) /\ ~request[s].missed => FollowsTheAccount(request[s])]_vars
=============================================================================
