------------------------------- MODULE Account ------------------------------
(***************************************************************************)
(* The account of a child in the TardisBank sample.  It keeps its newest   *)
(* transactions; when there is one too many, the oldest is folded into a   *)
(* balance and forgotten.  A withdrawal is refused when it exceeds the     *)
(* balance that the two make together.                                     *)
(***************************************************************************)
EXTENDS Integers, Sequences

CONSTANTS
  MaxTransactions,  \* transactions the account keeps
  Amounts           \* what is paid and withdrawn

ASSUME AccountAssumption ==
  /\ MaxTransactions \in Nat \ {0}
  /\ Amounts \subseteq Nat \ {0}

VARIABLES
  old,           \* OldTransactionsBalance
  transactions,  \* the amounts of Transactions
  archived       \* the amounts folded into the old balance (history)

account == <<old, transactions, archived>>

Bookings == archived \o transactions

\* The sum of a sequence of amounts.
Total(amounts) ==
  LET sum[n \in 0 .. Len(amounts)] == IF n = 0 THEN 0 ELSE sum[n - 1] + amounts[n]
  IN sum[Len(amounts)]

Balance == old + Total(transactions)

L == INSTANCE Ledger WITH bookings <- Bookings, balance <- Balance

TypeOK ==
  /\ old \in Int
  /\ transactions \in Seq(Int)
  /\ Len(transactions) <= MaxTransactions
  /\ archived \in Seq(Int)

Init ==
  /\ old = 0
  /\ transactions = <<>>
  /\ archived = <<>>

(***************************************************************************)
(* AddTransaction and RemoveOldTransactions: the account as it is after    *)
(* one more amount, from the account [old, transactions, archived].        *)
(***************************************************************************)
State == [old |-> old, transactions |-> transactions, archived |-> archived]

Become(a) ==
  /\ old' = a.old
  /\ transactions' = a.transactions
  /\ archived' = a.archived

Oldest(a) == Head(a.transactions)

\* Not the code: the oldest transaction is dropped without a trace.
RemoveForgetful(a) ==
  IF Len(a.transactions) <= MaxTransactions THEN a
  ELSE [a EXCEPT !.transactions = Tail(a.transactions), !.archived = Append(@, Oldest(a))]

\* Not the code: the newest transaction is folded into the old balance.
RemoveNewest(a) ==
  LET n == Len(a.transactions)
  IN IF n <= MaxTransactions THEN a
     ELSE [old |-> a.old + a.transactions[n],
           transactions |-> SubSeq(a.transactions, 1, n - 1),
           archived |-> Append(a.archived, a.transactions[n])]

\* Not the code: one transaction too many stays.
RemoveLate(a) ==
  IF Len(a.transactions) <= MaxTransactions + 1 THEN a
  ELSE [old |-> a.old + Oldest(a),
        transactions |-> Tail(a.transactions),
        archived |-> Append(a.archived, Oldest(a))]

\* Not the code: the last place stays empty.
RemoveEarly(a) ==
  IF Len(a.transactions) < MaxTransactions THEN a
  ELSE [old |-> a.old + Oldest(a),
        transactions |-> Tail(a.transactions),
        archived |-> Append(a.archived, Oldest(a))]

RemoveOldTransactions(a) ==
  IF Len(a.transactions) <= MaxTransactions THEN a
  ELSE [old |-> a.old + Oldest(a),
        transactions |-> Tail(a.transactions),
        archived |-> Append(a.archived, Oldest(a))]

AddTransaction(a, amount) ==
  RemoveOldTransactions([a EXCEPT !.transactions = Append(@, amount)])

(***************************************************************************)
(* The operations of the child.                                            *)
(***************************************************************************)
ReceivePayment(amount) == Become(AddTransaction(State, amount))

\* Not the code: the balance is not asked.
WithdrawUnchecked(amount) == Become(AddTransaction(State, -amount))

\* WithdrawInternal, after the parent has been checked.
Withdraw(amount) ==
  /\ amount <= Balance
  /\ Become(AddTransaction(State, -amount))

Next == \E amount \in Amounts : ReceivePayment(amount) \/ Withdraw(amount)

Spec == Init /\ [][Next]_account

(***************************************************************************)
(* Properties.                                                             *)
(***************************************************************************)
\* Archiving never changes the balance: it is the sum of all that was ever
\* booked.
BalanceIsTotal == Balance = Total(Bookings)

\* Payments and withdrawals in any order do not overdraw the account.
NeverOverdrawn == Balance >= 0

\* No transaction is archived before the account is full, and it stays full.
ArchivesWhenFull == archived # <<>> => Len(transactions) = MaxTransactions

\* The account implements the ledger: archiving neither loses an amount nor
\* changes their order, the balance moves by what is booked and by nothing
\* else, and no withdrawal exceeds it.
ImplementsLedger == L!Spec
=============================================================================
