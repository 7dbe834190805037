------------------------------- MODULE Ledger -------------------------------
(***************************************************************************)
(* What an account promises: amounts are booked one after the other, what  *)
(* is booked stays booked, the balance moves by every amount that is       *)
(* booked, and what is withdrawn was there.  How many bookings are still   *)
(* listed one by one is not the ledger's business.                         *)
(***************************************************************************)
EXTENDS Integers, Sequences

CONSTANT Amounts   \* what is paid and withdrawn

VARIABLES
  bookings,   \* the amounts booked so far
  balance

ledger == <<bookings, balance>>

Init == bookings = <<>> /\ balance = 0

Book(amount) ==
  /\ bookings' = Append(bookings, amount)
  /\ balance' = balance + amount

Pay(amount) == Book(amount)

Withdraw(amount) ==
  /\ amount <= balance
  /\ Book(-amount)

Next == \E amount \in Amounts : Pay(amount) \/ Withdraw(amount)

Spec == Init /\ [][Next]_ledger
=============================================================================
