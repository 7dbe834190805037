------------------------- MODULE TardisBank_proofs --------------------------
(***************************************************************************)
(* The parts of the TardisBank samples, for every value of the constants:  *)
(* the account as an object, its sums, the users, the account in the       *)
(* database under concurrent requests, the payment schedules, and the      *)
(* news pages.  Each part has an inductive invariant, and moves alone in   *)
(* the composition.                                                        *)
(***************************************************************************)
EXTENDS TardisBank, SequenceTheorems, FiniteSetTheorems, WellFoundedInduction, TLAPS

(***************************************************************************)
(* The account: whatever is archived, the archived amounts and the kept    *)
(* ones together are all that was booked, in order, for every number of    *)
(* transactions kept and any amounts.                                      *)
(***************************************************************************)
\* What goes from the front of one sequence to the end of the other leaves
\* their concatenation alone.
LEMMA MoveHead ==
  ASSUME NEW a \in Seq(Int), NEW s \in Seq(Int), s # <<>>
  PROVE  /\ Append(a, Head(s)) \in Seq(Int)
         /\ Tail(s) \in Seq(Int)
         /\ Len(Tail(s)) = Len(s) - 1
         /\ Append(a, Head(s)) \o Tail(s) = a \o s
<1>1. Append(a, Head(s)) \in Seq(Int) /\ Tail(s) \in Seq(Int) /\ Len(Tail(s)) = Len(s) - 1
  BY HeadTailProperties
<1>2. Len(Append(a, Head(s)) \o Tail(s)) = Len(a \o s)
  BY <1>1
<1>3. \A i \in 1 .. Len(a \o s) : (Append(a, Head(s)) \o Tail(s))[i] = (a \o s)[i]
  BY <1>1
<1> QED BY <1>1, <1>2, <1>3

LEMMA AppendToConcat ==
  ASSUME NEW a \in Seq(Int), NEW s \in Seq(Int), NEW x \in Int
  PROVE  /\ Append(s, x) \in Seq(Int)
         /\ Len(Append(s, x)) = Len(s) + 1
         /\ a \o Append(s, x) = Append(a \o s, x)
<1>1. Append(s, x) \in Seq(Int) /\ Len(Append(s, x)) = Len(s) + 1
  OBVIOUS
<1>2. Len(a \o Append(s, x)) = Len(Append(a \o s, x))
  OBVIOUS
<1>3. \A i \in 1 .. Len(a) + Len(s) + 1 : (a \o Append(s, x))[i] = Append(a \o s, x)[i]
  OBVIOUS
<1> QED BY <1>1, <1>2, <1>3

LEMMA AppendKeepsPrefix ==
  ASSUME NEW s \in Seq(Int), NEW x \in Int
  PROVE  SubSeq(Append(s, x), 1, Len(s)) = s
OBVIOUS

\* The account when there is nothing to archive, and when there is.
LEMMA AddedWithin ==
  ASSUME NEW x \in Int, TypeOK, Len(transactions) < MaxTransactions,
         Become(AddTransaction(State, x))
  PROVE  transactions' = Append(transactions, x) /\ archived' = archived /\ old' = old
<1> DEFINE s == Append(transactions, x)
<1>1. Len(s) <= MaxTransactions
  BY AccountAssumption DEF TypeOK
<1>2. AddTransaction(State, x) = [old |-> old, transactions |-> s, archived |-> archived]
  BY <1>1 DEF AddTransaction, RemoveOldTransactions, State
<1> QED BY <1>2 DEF Become

LEMMA AddedFull ==
  ASSUME NEW x \in Int, TypeOK, Len(transactions) = MaxTransactions,
         Become(AddTransaction(State, x))
  PROVE  LET s == Append(transactions, x)
         IN /\ old' = old + Head(s)
            /\ transactions' = Tail(s)
            /\ archived' = Append(archived, Head(s))
<1> DEFINE s == Append(transactions, x)
<1>1. ~(Len(s) <= MaxTransactions)
  BY AccountAssumption DEF TypeOK
<1>2. AddTransaction(State, x) =
        [old |-> old + Head(s), transactions |-> Tail(s), archived |-> Append(archived, Head(s))]
  BY <1>1 DEF AddTransaction, RemoveOldTransactions, State, Oldest
<1> QED BY <1>2 DEF Become

\* One booking appends one amount to all that was booked.
LEMMA Booked ==
  ASSUME NEW x \in Int, TypeOK, ArchivesWhenFull, Become(AddTransaction(State, x))
  PROVE  TypeOK' /\ ArchivesWhenFull' /\ Bookings' = Append(Bookings, x)
<1> DEFINE s == Append(transactions, x)
<1>0. archived \in Seq(Int) /\ transactions \in Seq(Int)
  BY DEF TypeOK
<1>1. s \in Seq(Int) /\ Len(s) = Len(transactions) + 1 /\ s # <<>>
  <2>1. s \in Seq(Int) /\ Len(s) = Len(transactions) + 1
    BY <1>0
  <2>2. s # <<>>
    BY <1>0, <2>1
  <2> QED BY <2>1, <2>2
<1>2. archived \o s = Append(Bookings, x)
  BY AppendToConcat DEF TypeOK, Bookings
<1> HIDE DEF s
<1>3. CASE Len(transactions) < MaxTransactions
  <2>1. transactions' = s /\ archived' = archived /\ old' = old
    BY <1>3, AddedWithin DEF s
  <2>2. TypeOK' /\ ArchivesWhenFull'
    BY <1>1, <1>3, <2>1, AccountAssumption DEF TypeOK, ArchivesWhenFull
  <2> QED BY <1>2, <2>1, <2>2 DEF Bookings
<1>4. CASE Len(transactions) = MaxTransactions
  <2>1. old' = old + Head(s) /\ transactions' = Tail(s) /\ archived' = Append(archived, Head(s))
    BY <1>4, AddedFull DEF s
  <2>2. /\ Append(archived, Head(s)) \in Seq(Int)
        /\ Tail(s) \in Seq(Int)
        /\ Len(Tail(s)) = Len(s) - 1
        /\ Append(archived, Head(s)) \o Tail(s) = archived \o s
    BY <1>1, MoveHead DEF TypeOK
  <2>3. Head(s) \in Int
    BY <1>1
  <2>4. TypeOK' /\ ArchivesWhenFull'
    BY <1>1, <1>4, <2>1, <2>2, <2>3, AccountAssumption DEF TypeOK, ArchivesWhenFull
  <2> QED BY <1>2, <2>1, <2>2, <2>4 DEF Bookings
<1> QED BY <1>3, <1>4, AccountAssumption DEF TypeOK

AccountInv == TypeOK /\ ArchivesWhenFull

LEMMA AccountStep ==
  AccountInv /\ [Next]_account
    => AccountInv' /\ (Bookings' = Bookings \/ \E x \in Int : Bookings' = Append(Bookings, x))
<1> SUFFICES ASSUME AccountInv, [Next]_account
             PROVE  AccountInv' /\ (Bookings' = Bookings \/ \E x \in Int : Bookings' = Append(Bookings, x))
  OBVIOUS
<1> USE DEF AccountInv
<1>1. CASE UNCHANGED account
  BY <1>1 DEF account, TypeOK, ArchivesWhenFull, Bookings
<1>2. ASSUME NEW amount \in Amounts, ReceivePayment(amount) \/ Withdraw(amount)
      PROVE  \E x \in Int : Become(AddTransaction(State, x))
  BY <1>2, AccountAssumption DEF ReceivePayment, Withdraw
<1>3. CASE Next
  <2>1. PICK x \in Int : Become(AddTransaction(State, x))
    BY <1>2, <1>3 DEF Next
  <2> QED BY <2>1, Booked
<1> QED BY <1>1, <1>3

LEMMA AccountInit == Init => AccountInv
BY AccountAssumption DEF Init, AccountInv, TypeOK, ArchivesWhenFull

\* Types, and the number of transactions kept, hold throughout.
THEOREM AccountTypeCorrect == Spec => []TypeOK
<1>1. AccountInv /\ [Next]_account => AccountInv'
  BY AccountStep
<1>2. AccountInv => TypeOK
  BY DEF AccountInv
<1> QED BY AccountInit, <1>1, <1>2, PTL DEF Spec

\* Nothing is archived before the account is full.
THEOREM AccountArchivesWhenFull == Spec => []ArchivesWhenFull
<1>1. AccountInv /\ [Next]_account => AccountInv'
  BY AccountStep
<1>2. AccountInv => ArchivesWhenFull
  BY DEF AccountInv
<1> QED BY AccountInit, <1>1, <1>2, PTL DEF Spec

(***************************************************************************)
(* Sums.  Sets of natural numbers have least elements, so a first place at *)
(* which two sums would differ can be picked: this is the induction that   *)
(* the totals of sequences of any length need.                             *)
(***************************************************************************)
LEMMA Least ==
  ASSUME NEW T \in SUBSET Nat, T # {}
  PROVE  \E n \in T : \A m \in T : n <= m
<1> DEFINE less == {pair \in Nat \X Nat : pair[1] < pair[2]}
<1>1. IsWellFoundedOn(less, Nat)
  BY NatLessThanWellFounded DEF OpToRel
<1>2. PICK n \in T : \A m \in T : <<m, n>> \notin less
  BY <1>1, WFMin
<1>3. \A m \in T : ~(m < n)
  BY <1>2
<1> QED BY <1>3

\* The running sums of a sequence.
Sums(a, f) ==
  /\ f \in [0 .. Len(a) -> Int]
  /\ f[0] = 0
  /\ \A i \in 1 .. Len(a) : f[i] = f[i - 1] + a[i]

LEMMA SumsExist == ASSUME NEW a \in Seq(Int) PROVE \E f : Sums(a, f)
<1> DEFINE Until(n, f) == /\ f \in [0 .. n -> Int] /\ f[0] = 0
                          /\ \A i \in 1 .. n : f[i] = f[i - 1] + a[i]
           T == {n \in 0 .. Len(a) : ~\E f : Until(n, f)}
<1>1. SUFFICES ASSUME T # {} PROVE FALSE
  <2>1. Len(a) \in 0 .. Len(a)
    OBVIOUS
  <2>2. \A f : Until(Len(a), f) => Sums(a, f)
    BY DEF Sums
  <2> HIDE DEF Until
  <2> QED BY <2>1, <2>2
<1>2. PICK n \in T : \A m \in T : n <= m
  <2>1. T \in SUBSET Nat
    OBVIOUS
  <2> HIDE DEF T
  <2> QED BY <1>1, <2>1, Least
<1>3. Until(0, [i \in 0 .. 0 |-> 0])
  OBVIOUS
<1>4. n # 0 /\ n \in 0 .. Len(a) /\ n - 1 \in 0 .. Len(a) /\ n - 1 \notin T
  <2>1. Len(a) \in Nat /\ n \in 0 .. Len(a) /\ 0 \notin T
    <3>1. Len(a) \in Nat /\ n \in 0 .. Len(a)
      OBVIOUS
    <3> HIDE DEF Until
    <3>2. 0 \notin T
      BY <1>3
    <3> QED BY <3>1, <3>2
  <2> HIDE DEF T
  <2>2. n # 0
    BY <2>1
  <2> QED BY <1>2, <2>1, <2>2
<1>5. PICK f : Until(n - 1, f)
  BY <1>4
<1> DEFINE g == [i \in 0 .. n |-> IF i = n THEN f[n - 1] + a[n] ELSE f[i]]
<1>6. a[n] \in Int /\ f[n - 1] \in Int
  BY <1>4, <1>5
<1>7. Until(n, g)
  <2>1. f \in [0 .. n - 1 -> Int] /\ f[0] = 0 /\ \A i \in 1 .. n - 1 : f[i] = f[i - 1] + a[i]
    BY <1>5
  <2>2. n \in Nat /\ n - 1 \in 0 .. n - 1 /\ \A i \in 0 .. n : i = n \/ i \in 0 .. n - 1
    BY <1>4
  <2>3. /\ g \in [0 .. n -> Int] /\ g[n] = f[n - 1] + a[n]
        /\ \A i \in 0 .. n - 1 : g[i] = f[i]
    BY <1>6, <2>1, <2>2
  <2> HIDE DEF g
  <2>4. g[0] = 0
    BY <1>4, <2>1, <2>2, <2>3
  <2>5. ASSUME NEW i \in 1 .. n PROVE g[i] = g[i - 1] + a[i]
    <3>1. i - 1 \in 0 .. n - 1 /\ (i = n \/ i \in 1 .. n - 1)
      BY <2>2
    <3>2. \A j \in 1 .. n - 1 : j \in 0 .. n - 1
      BY <2>2
    <3> QED BY <2>1, <2>3, <3>1, <3>2
  <2> QED BY <2>3, <2>4, <2>5
<1> QED BY <1>2, <1>7

LEMMA TotalIsSum ==
  ASSUME NEW a \in Seq(Int), NEW f, Sums(a, f)
  PROVE  Total(a) = f[Len(a)] /\ Total(a) \in Int
<1> DEFINE Recursion(g) == g = [n \in 0 .. Len(a) |-> IF n = 0 THEN 0 ELSE g[n - 1] + a[n]]
           g == CHOOSE g : Recursion(g)
<1>1. Recursion(f)
  <2>1. \A n \in 0 .. Len(a) : f[n] = IF n = 0 THEN 0 ELSE f[n - 1] + a[n]
    BY DEF Sums
  <2> QED BY <2>1 DEF Sums
<1>2. Recursion(g)
  BY <1>1
<1>3. Total(a) = g[Len(a)]
  BY Zenon DEF Total
<1> DEFINE T == {n \in 0 .. Len(a) : g[n] # f[n]}
<1> HIDE DEF g
<1>4. ASSUME T # {} PROVE FALSE
  <2>1. PICK n \in T : \A m \in T : n <= m
    <3>1. T \in SUBSET Nat
      OBVIOUS
    <3> HIDE DEF T
    <3> QED BY <1>4, <3>1, Least
  <2>2. n # 0 /\ n - 1 \in 0 .. Len(a) /\ n - 1 \notin T
    <3>1. Len(a) \in Nat /\ n \in 0 .. Len(a)
      OBVIOUS
    <3>2. n # 0
      BY <1>2, <3>1 DEF Sums
    <3> HIDE DEF T
    <3> QED BY <2>1, <3>1, <3>2
  <2>3. g[n] = g[n - 1] + a[n] /\ f[n] = f[n - 1] + a[n]
    <3>1. n \in 1 .. Len(a) /\ n \in 0 .. Len(a)
      BY <2>2
    <3> QED BY <1>2, <2>2, <3>1 DEF Sums
  <2> QED BY <2>2, <2>3
<1>5. Len(a) \notin T /\ Len(a) \in 0 .. Len(a)
  BY <1>4
<1> QED BY <1>3, <1>5 DEF Sums

LEMMA TotalType == ASSUME NEW a \in Seq(Int) PROVE Total(a) \in Int
BY SumsExist, TotalIsSum

LEMMA TotalEmpty == Total(<<>>) = 0
<1>1. Sums(<<>>, [i \in 0 .. 0 |-> 0])
  BY DEF Sums
<1> QED BY <1>1, TotalIsSum

LEMMA TotalAppend ==
  ASSUME NEW a \in Seq(Int), NEW x \in Int
  PROVE  Total(Append(a, x)) = Total(a) + x
<1>1. PICK f : Sums(a, f)
  BY SumsExist
<1> DEFINE b == Append(a, x)
           g == [i \in 0 .. Len(a) + 1 |-> IF i = Len(a) + 1 THEN f[Len(a)] + x ELSE f[i]]
<1>2. /\ b \in Seq(Int) /\ Len(b) = Len(a) + 1 /\ b[Len(a) + 1] = x
      /\ \A i \in 1 .. Len(a) : b[i] = a[i]
  OBVIOUS
<1>3. /\ g \in [0 .. Len(a) + 1 -> Int] /\ g[Len(a) + 1] = f[Len(a)] + x
      /\ \A i \in 0 .. Len(a) : g[i] = f[i]
  BY <1>1 DEF Sums
<1> HIDE DEF b, g
<1>4. Sums(b, g)
  <2>1. g[0] = 0 /\ Len(a) \in Nat
    BY <1>1, <1>3 DEF Sums
  <2>2. ASSUME NEW i \in 1 .. Len(a) + 1 PROVE g[i] = g[i - 1] + b[i]
    <3>1. CASE i = Len(a) + 1
      <4>1. i - 1 = Len(a) /\ Len(a) \in 0 .. Len(a)
        BY <2>1, <3>1
      <4> QED BY <1>2, <1>3, <3>1, <4>1
    <3>2. CASE i \in 1 .. Len(a)
      <4>1. i - 1 \in 0 .. Len(a) /\ i \in 0 .. Len(a)
        BY <2>1, <3>2
      <4> QED BY <1>1, <1>2, <1>3, <3>2, <4>1 DEF Sums
    <3> QED BY <2>1, <3>1, <3>2
  <2> QED BY <1>2, <1>3, <2>1, <2>2 DEF Sums
<1>5. Total(b) = g[Len(a) + 1] /\ Total(a) = f[Len(a)]
  BY <1>1, <1>2, <1>4, TotalIsSum
<1> QED BY <1>3, <1>5 DEF b

LEMMA TotalTail ==
  ASSUME NEW s \in Seq(Int), s # <<>>
  PROVE  Total(s) = Head(s) + Total(Tail(s))
<1>1. PICK f : Sums(s, f)
  BY SumsExist
<1> DEFINE t == Tail(s)
           g == [i \in 0 .. Len(s) - 1 |-> f[i + 1] - s[1]]
<1>2. /\ t \in Seq(Int) /\ Len(t) = Len(s) - 1 /\ Len(s) > 0
      /\ \A i \in 1 .. Len(s) - 1 : t[i] = s[i + 1]
  OBVIOUS
<1>3. s[1] \in Int /\ Head(s) = s[1]
  BY <1>2
<1>4. /\ g \in [0 .. Len(s) - 1 -> Int]
      /\ \A i \in 0 .. Len(s) - 1 : g[i] = f[i + 1] - s[1]
  BY <1>1, <1>3 DEF Sums
<1> HIDE DEF t, g
<1>5. g[0] = 0 /\ \A i \in 1 .. Len(s) - 1 : g[i] = g[i - 1] + t[i]
  <2>1. Len(s) \in Nat /\ f[0] = 0 /\ \A i \in 1 .. Len(s) : f[i] = f[i - 1] + s[i] /\ f[i] \in Int /\ f[i - 1] \in Int
    <3>1. Len(s) \in Nat /\ f[0] = 0 /\ f \in [0 .. Len(s) -> Int] /\ \A i \in 1 .. Len(s) : f[i] = f[i - 1] + s[i]
      BY <1>1 DEF Sums
    <3>2. ASSUME NEW i \in 1 .. Len(s) PROVE i \in 0 .. Len(s) /\ i - 1 \in 0 .. Len(s)
      BY <3>1
    <3> QED BY <3>1, <3>2
  <2>2. g[0] = 0
    BY <1>2, <1>3, <1>4, <2>1
  <2>3. ASSUME NEW i \in 1 .. Len(s) - 1 PROVE g[i] = g[i - 1] + t[i]
    <3>1. i + 1 \in 1 .. Len(s) /\ (i + 1) - 1 = i /\ i - 1 \in 0 .. Len(s) - 1 /\ (i - 1) + 1 = i /\ i \in 0 .. Len(s) - 1
      BY <2>1
    <3>2. g[i] = f[i + 1] - s[1] /\ g[i - 1] = f[i] - s[1] /\ t[i] = s[i + 1] /\ f[i + 1] = f[i] + s[i + 1]
      BY <1>2, <1>4, <2>1, <3>1
    <3>3. f[i] \in Int /\ f[i + 1] \in Int /\ s[i + 1] \in Int
      BY <2>1, <3>1
    <3> QED BY <1>3, <3>2, <3>3
  <2> QED BY <2>2, <2>3
<1>6. Sums(t, g)
  BY <1>2, <1>4, <1>5 DEF Sums
<1>7. Total(t) = g[Len(s) - 1] /\ Total(s) = f[Len(s)] /\ Total(t) \in Int
  BY <1>1, <1>2, <1>6, TotalIsSum
<1>8. Len(s) - 1 \in 0 .. Len(s) - 1 /\ (Len(s) - 1) + 1 = Len(s) /\ f[Len(s)] \in Int
  BY <1>1, <1>2 DEF Sums
<1>9. Total(t) = Total(s) - s[1]
  BY <1>4, <1>7, <1>8
<1>10. Total(s) \in Int
  BY TotalType
<1> QED BY <1>3, <1>7, <1>9, <1>10 DEF t

(***************************************************************************)
(* The balance.                                                            *)
(***************************************************************************)
\* One booking changes the balance by its amount, archiving or not.
LEMMA BalanceMoves ==
  ASSUME NEW x \in Int, TypeOK, Become(AddTransaction(State, x))
  PROVE  Balance' = Balance + x /\ Balance \in Int
<1> DEFINE s == Append(transactions, x)
<1>1. /\ transactions \in Seq(Int) /\ old \in Int /\ s \in Seq(Int) /\ s # <<>> /\ Head(s) \in Int
      /\ Tail(s) \in Seq(Int)
  <2>1. transactions \in Seq(Int) /\ old \in Int
    BY DEF TypeOK
  <2>2. s \in Seq(Int) /\ Len(s) = Len(transactions) + 1 /\ Len(transactions) \in Nat
    BY <2>1, AppendProperties
  <2> HIDE DEF s
  <2>3. s # <<>> /\ Len(s) > 0
    BY <2>2
  <2> QED BY <2>1, <2>2, <2>3, HeadTailProperties
<1>2. Total(transactions) \in Int /\ Total(s) = Total(transactions) + x
  BY <1>1, TotalType, TotalAppend
<1>3. Total(s) = Head(s) + Total(Tail(s)) /\ Total(Tail(s)) \in Int
  BY <1>1, TotalType, TotalTail
<1>4. \/ old' = old /\ transactions' = s
      \/ old' = old + Head(s) /\ transactions' = Tail(s)
  <2>1. CASE Len(transactions) < MaxTransactions
    BY <2>1, AddedWithin
  <2>2. CASE Len(transactions) = MaxTransactions
    BY <2>2, AddedFull
  <2>3. Len(transactions) \in Nat /\ MaxTransactions \in Nat /\ Len(transactions) <= MaxTransactions
    BY AccountAssumption DEF TypeOK
  <2> QED BY <2>1, <2>2, <2>3
<1> HIDE DEF s
<1>5. CASE old' = old /\ transactions' = s
  BY <1>1, <1>2, <1>5 DEF Balance
<1>6. CASE old' = old + Head(s) /\ transactions' = Tail(s)
  <2> DEFINE h == Head(s)
             t == Total(Tail(s))
             u == Total(transactions)
             v == Total(s)
  <2>1. h \in Int /\ t \in Int /\ u \in Int /\ old \in Int /\ v = u + x /\ v = h + t
    BY <1>1, <1>2, <1>3
  <2>2. Balance' = (old + h) + t /\ Balance = old + u
    BY <1>6 DEF Balance
  <2> HIDE DEF h, t, u, v
  <2> QED BY <2>1, <2>2
<1> QED BY <1>4, <1>5, <1>6

BalanceInv == AccountInv /\ BalanceIsTotal /\ NeverOverdrawn

LEMMA BalanceInvInit == Init => BalanceInv
<1> SUFFICES ASSUME Init PROVE BalanceInv
  OBVIOUS
<1>1. Balance = 0 /\ Bookings = <<>>
  BY TotalEmpty DEF Init, Balance, Bookings
<1> QED BY <1>1, AccountInit, TotalEmpty DEF BalanceInv, BalanceIsTotal, NeverOverdrawn

LEMMA BalanceInvStep == BalanceInv /\ [Next]_account => BalanceInv'
<1> SUFFICES ASSUME BalanceInv, [Next]_account PROVE BalanceInv'
  OBVIOUS
<1> USE DEF BalanceInv
<1>1. AccountInv'
  BY AccountStep
<1>2. CASE UNCHANGED account
  BY <1>1, <1>2 DEF account, BalanceIsTotal, NeverOverdrawn, Balance, Bookings
<1>3. ASSUME NEW x \in Int, Become(AddTransaction(State, x)), Balance + x >= 0 PROVE BalanceInv'
  <2>1. Balance' = Balance + x
    BY <1>3, BalanceMoves DEF AccountInv
  <2>2. Bookings' = Append(Bookings, x)
    BY <1>3, Booked DEF AccountInv
  <2>3. Bookings \in Seq(Int)
    BY DEF AccountInv, TypeOK, Bookings
  <2>4. Total(Bookings') = Total(Bookings) + x
    BY <2>2, <2>3, TotalAppend
  <2>5. Total(Bookings)' = Total(Bookings')
    BY Zenon DEF Total
  <2> QED BY <1>1, <1>3, <2>1, <2>4, <2>5 DEF BalanceIsTotal, NeverOverdrawn
<1>4. ASSUME NEW amount \in Amounts, ReceivePayment(amount) \/ Withdraw(amount) PROVE BalanceInv'
  <2>1. TypeOK /\ Balance >= 0 /\ amount \in Nat /\ amount \in Int /\ -amount \in Int
    BY AccountAssumption DEF AccountInv, NeverOverdrawn
  <2>2. CASE ReceivePayment(amount)
    <3>1. Become(AddTransaction(State, amount))
      BY <2>2 DEF ReceivePayment
    <3>2. Balance \in Int
      BY <2>1, <3>1, BalanceMoves
    <3> QED BY <1>3, <2>1, <3>1, <3>2
  <2>3. CASE Withdraw(amount)
    <3>1. Become(AddTransaction(State, -amount)) /\ amount <= Balance
      BY <2>3 DEF Withdraw
    <3>2. Balance \in Int
      BY <2>1, <3>1, BalanceMoves
    <3> QED BY <1>3, <2>1, <3>1, <3>2
  <2> QED BY <1>4, <2>2, <2>3
<1> QED BY <1>2, <1>4 DEF Next

\* However many payments and withdrawals come, in any order: the balance is
\* what was ever booked, archived or not (Account.Balance,
\* RemoveOldTransactions).
THEOREM AccountBalances == Spec => []BalanceIsTotal
<1>1. BalanceInv => BalanceIsTotal
  BY DEF BalanceInv
<1> QED BY BalanceInvInit, BalanceInvStep, <1>1, PTL DEF Spec

\* A withdrawal that is not refused never overdraws (Child.WithdrawInternal).
THEOREM AccountIsNotOverdrawn == Spec => []NeverOverdrawn
<1>1. BalanceInv => NeverOverdrawn
  BY DEF BalanceInv
<1> QED BY BalanceInvInit, BalanceInvStep, <1>1, PTL DEF Spec

\* A step of the account books one amount in the ledger, or none.
LEMMA AccountBooks == AccountInv /\ [Next]_account => [L!Next]_(L!ledger)
<1> SUFFICES ASSUME AccountInv, [Next]_account PROVE [L!Next]_(L!ledger)
  OBVIOUS
<1>1. CASE UNCHANGED account
  <2>1. Total(transactions)' = Total(transactions) /\ old' = old
    BY <1>1 DEF account
  <2> QED BY <1>1, <2>1 DEF account, L!ledger, Bookings, Balance
<1>2. ASSUME NEW amount \in Amounts, ReceivePayment(amount) PROVE L!Next
  <2>1. amount \in Int /\ Become(AddTransaction(State, amount))
    BY <1>2, AccountAssumption DEF ReceivePayment
  <2>2. Bookings' = Append(Bookings, amount) /\ Balance' = Balance + amount
    BY <2>1, Booked, BalanceMoves DEF AccountInv
  <2> QED BY <2>2 DEF L!Next, L!Pay, L!Book
<1>3. ASSUME NEW amount \in Amounts, Withdraw(amount) PROVE L!Next
  <2>1. -amount \in Int /\ amount <= Balance /\ Become(AddTransaction(State, -amount))
    BY <1>3, AccountAssumption DEF Withdraw
  <2>2. Bookings' = Append(Bookings, -amount) /\ Balance' = Balance + (-amount)
    BY <2>1, Booked, BalanceMoves DEF AccountInv
  <2> QED BY <2>1, <2>2 DEF L!Next, L!Withdraw, L!Book
<1> QED BY <1>1, <1>2, <1>3 DEF Next

LEMMA AccountStarts == Init => L!Init
BY TotalEmpty DEF Init, L!Init, Bookings, Balance

\* The account implements the ledger: archiving or not, what was booked stays
\* booked, in order, the balance moves by what is booked and by nothing else,
\* and no withdrawal exceeds it (Account.AddTransaction, Child).
THEOREM AccountImplementsLedger == Spec => ImplementsLedger
<1>1. AccountInv /\ [Next]_account => AccountInv'
  BY AccountStep
<1> QED BY AccountInit, AccountStarts, AccountBooks, <1>1, PTL DEF Spec, L!Spec, ImplementsLedger

(***************************************************************************)
(* Families: what a row must be like, whoever writes it and whatever       *)
(* others have written meanwhile, can be said of the row alone.  That a    *)
(* name is free, that a row still has its key: this was true when a        *)
(* request read it, and it is still true when the request commits, unless  *)
(* another request has committed a user of the same name since.            *)
(***************************************************************************)
\* The row of user i, when these keys have been mailed.
SoundUser(i, u, mailed) ==
  \/ u = Family!None
  \/ /\ u \in Family!Users
     /\ IF u.kind = "child" THEN u.parent \in Family!Ids \ {i} ELSE u.parent = 0
     /\ u.kind = "parent" /\ ~u.active => (publishThrows => i \in mailed)
     /\ smtpServer /\ u.kind = "parent" /\ u.active => i \in mailed
     /\ smtpServer => u.knownPassword

WriteKinds == {"nothing", "insert", "activate", "reset", "delete"}
RowSets == UNION {[ids -> Family!Users \cup {Family!None}] : ids \in SUBSET Family!Ids}

Locked(u) == u.kind = "parent" /\ ~u.active /\ ~u.hasKey

UsersInv ==
  /\ smtpServer \in BOOLEAN /\ publishThrows \in BOOLEAN
  /\ created \in 0 .. MaxUsers /\ delivered \subseteq 1 .. created
  /\ missed \in [Requests -> BOOLEAN] /\ overlapped \subseteq Family!Ids
  /\ users \in [Family!Ids -> Family!Users \cup {Family!None}]
  /\ \A i \in Family!Ids : users[i] # Family!None =>
       /\ SoundUser(i, users[i], delivered) /\ i <= created
       /\ users[i].kind = "child" => users[users[i].parent] # Family!None
       /\ Locked(users[i]) => i \in overlapped
  /\ \A i, j \in Family!Ids :
       users[i] # Family!None /\ users[j] # Family!None /\ users[i].name = users[j].name =>
         i = j \/ i \in overlapped \/ j \in overlapped

\* What request r is about to insert is the only row of its id, and its name
\* was free.
FitsInsert(r) ==
  \A i \in DOMAIN writes[r].rows :
    LET u == writes[r].rows[i]
    IN /\ u # Family!None /\ users[i] = Family!None /\ ~Locked(u)
       /\ \A j \in DOMAIN writes[r].rows : i = j
       /\ \A s \in Requests \ {r} : i \notin DOMAIN writes[s].rows
       /\ \A j \in Family!Ids : users[j] # Family!None /\ users[j].name = u.name => missed[r]

\* What it is about to update is that row, and the row has its key if the
\* request read it so.
FitsUpdate(r) ==
  \A i \in DOMAIN writes[r].rows :
    LET u == writes[r].rows[i]
    IN /\ u # Family!None
       /\ users[i] # Family!None =>
            /\ u.name = users[i].name /\ u.kind = users[i].kind /\ u.parent = users[i].parent
            /\ u.kind = "parent" /\ ~u.active =>
                 writes[r].kind = "reset" /\ (users[i].hasKey \/ missed[r] \/ i \in overlapped)

Fits(r) ==
  /\ writes[r].kind = "insert" => FitsInsert(r)
  /\ writes[r].kind \in {"activate", "reset"} => FitsUpdate(r)
  /\ writes[r].kind = "delete" => \A i \in DOMAIN writes[r].rows : writes[r].rows[i] = Family!None

Pending(r) ==
  /\ writes[r].kind = "nothing" => writes[r] = Family!Nothing
  /\ \A i \in DOMAIN writes[r].rows : i <= created /\ SoundUser(i, writes[r].rows[i], delivered)

PendingInv ==
  /\ writes \in [Requests -> [kind : WriteKinds, rows : RowSets]]
  /\ \A r \in Requests : Pending(r) /\ Fits(r)

FamilyInv == UsersInv /\ PendingInv

LEMMA FamilyFacts ==
  /\ Family!None.kind = "none" /\ Family!None \notin Family!Users
  /\ Family!Nothing.kind = "nothing" /\ DOMAIN Family!Nothing.rows = {}
  /\ Family!Nothing \in [kind : WriteKinds, rows : RowSets]
  /\ MaxUsers \in Nat /\ Family!Ids = 1 .. MaxUsers
<1>1. Family!None.kind = "none"
  BY DEF Family!None
<1>2. \A u \in Family!Users : u.kind \in {"parent", "child"}
  BY DEF Family!Users
<1>3. Family!Nothing.kind = "nothing" /\ Family!Nothing.rows = [i \in {} |-> Family!None]
  BY DEF Family!Nothing
<1>4. Family!Nothing.rows \in RowSets
  <2>1. Family!Nothing.rows \in [{} -> Family!Users \cup {Family!None}]
    BY <1>3
  <2> QED BY <2>1 DEF RowSets
<1>5. Family!Nothing \in [kind : WriteKinds, rows : RowSets]
  BY <1>4 DEF Family!Nothing, WriteKinds
<1>6. MaxUsers \in Nat /\ Family!Ids = 1 .. MaxUsers
  BY TardisBankAssumption DEF Family!FamiliesAssumption, Family!Ids
<1> QED BY <1>1, <1>2, <1>3, <1>5, <1>6

LEMMA RowSetIds == \A new \in RowSets : DOMAIN new \subseteq Family!Ids /\ \A i \in DOMAIN new : i \in Nat
<1> SUFFICES ASSUME NEW new \in RowSets PROVE DOMAIN new \subseteq Family!Ids /\ \A i \in DOMAIN new : i \in Nat
  OBVIOUS
<1>1. PICK ids \in SUBSET Family!Ids : new \in [ids -> Family!Users \cup {Family!None}]
  BY DEF RowSets
<1> QED BY <1>1, FamilyFacts

LEMMA FamilyInvInit == Family!Init => FamilyInv
<1> SUFFICES ASSUME Family!Init PROVE FamilyInv
  OBVIOUS
<1> USE FamilyFacts DEF Family!Init
<1>1. UsersInv
  BY DEF UsersInv
<1>2. PendingInv
  BY DEF PendingInv, Pending, Fits
<1> QED BY <1>1, <1>2 DEF FamilyInv

LEMMA SoundStays ==
  ASSUME delivered \subseteq delivered', UNCHANGED <<smtpServer, publishThrows>>
  PROVE  /\ \A i, u : SoundUser(i, u, delivered) => SoundUser(i, u, delivered)'
         /\ \A i, u : SoundUser(i, u, delivered') => SoundUser(i, u, delivered)'
BY DEF SoundUser

\* What a request is about to write stays fit while the users are as they were.
LEMMA FitStays ==
  ASSUME NEW r \in Requests, Fits(r), Pending(r), created \in Nat, created' \in Nat, created <= created',
         writes[r].rows \in RowSets, delivered \subseteq delivered',
         writes'[r] = writes[r], missed'[r] = missed[r],
         UNCHANGED <<smtpServer, publishThrows, users, overlapped>>,
         \A s \in Requests \ {r} : \A i \in DOMAIN writes'[s].rows :
           i \in DOMAIN writes[s].rows \/ users[i] # Family!None \/ i > created
  PROVE  Fits(r)' /\ Pending(r)'
<1>1. Pending(r)'
  BY RowSetIds, SoundStays DEF Pending
<1>2. \A i \in DOMAIN writes[r].rows : i \in Nat /\ i <= created
  BY RowSetIds DEF Pending
<1>3. ASSUME writes[r].kind = "insert", FitsInsert(r) PROVE FitsInsert(r)'
  BY <1>2, <1>3 DEF FitsInsert
<1>4. ASSUME FitsUpdate(r) PROVE FitsUpdate(r)'
  BY <1>4 DEF FitsUpdate
<1> QED BY <1>1, <1>3, <1>4 DEF Fits

\* A request that fails, or ends without a write.
LEMMA Unwritten ==
  ASSUME FamilyInv, UNCHANGED <<smtpServer, publishThrows, users, overlapped>>,
         created' \in created .. MaxUsers, delivered \subseteq delivered', delivered' \subseteq 1 .. created',
         missed' \in [Requests -> BOOLEAN], writes' \in [Requests -> [kind : WriteKinds, rows : RowSets]],
         \A s \in Requests : \/ writes'[s] = Family!Nothing
                             \/ writes'[s] = writes[s] /\ missed'[s] = missed[s]
  PROVE  FamilyInv'
<1> USE FamilyFacts DEF FamilyInv
<1>1. created \in Nat /\ created' \in Nat /\ created <= created' /\ created' <= MaxUsers
  BY DEF UsersInv
<1>2. UsersInv'
  BY <1>1, SoundStays DEF UsersInv
<1>3. ASSUME NEW s \in Requests, writes'[s] = Family!Nothing PROVE Pending(s)' /\ Fits(s)'
  BY <1>3 DEF Pending, Fits
<1>4. ASSUME NEW s \in Requests, writes'[s] = writes[s], missed'[s] = missed[s] PROVE Pending(s)' /\ Fits(s)'
  <2>1. Fits(s) /\ Pending(s) /\ writes[s].rows \in RowSets
    BY DEF PendingInv
  <2>2. \A t \in Requests : \A i \in DOMAIN writes'[t].rows : i \in DOMAIN writes[t].rows
    OBVIOUS
  <2> QED BY <1>1, <1>4, <2>1, <2>2, FitStays
<1> QED BY <1>2, <1>3, <1>4 DEF PendingInv

\* A request that has begun and prepared its write.
LEMMA Prepared ==
  ASSUME FamilyInv, NEW r \in Requests, NEW kind \in WriteKinds \ {"nothing"}, NEW new \in RowSets,
         Family!MayBegin(r), Family!Prepare(r, kind, new),
         UNCHANGED <<smtpServer, publishThrows, users, missed, overlapped>>,
         created' \in created .. MaxUsers, delivered \subseteq delivered', delivered' \subseteq 1 .. created',
         \A i \in DOMAIN new : /\ i <= created' /\ SoundUser(i, new[i], delivered')
                               /\ users[i] # Family!None \/ i > created,
         Fits(r)'
  PROVE  FamilyInv'
<1> USE FamilyFacts DEF FamilyInv
<1> DEFINE w == [kind |-> kind, rows |-> new]
<1>1. created \in Nat /\ created' \in Nat /\ created <= created' /\ created' <= MaxUsers
  BY DEF UsersInv
<1>2. UsersInv'
  BY <1>1, SoundStays DEF UsersInv
<1>3. w \in [kind : WriteKinds, rows : RowSets] /\ w.kind = kind /\ w.rows = new
  OBVIOUS
<1>4. writes' = [writes EXCEPT ![r] = w]
  BY DEF Family!Prepare
<1> HIDE DEF w
<1>5. /\ writes' \in [Requests -> [kind : WriteKinds, rows : RowSets]]
      /\ writes'[r] = w /\ \A s \in Requests \ {r} : writes'[s] = writes[s]
  BY <1>3, <1>4 DEF PendingInv
<1>6. Pending(r)'
  BY <1>3, <1>5, SoundStays DEF Pending
<1>7. ASSUME NEW s \in Requests \ {r} PROVE Pending(s)' /\ Fits(s)'
  <2>1. Fits(s) /\ Pending(s) /\ writes[s].rows \in RowSets
    BY DEF PendingInv
  <2>2. \A t \in Requests \ {s} : \A i \in DOMAIN writes'[t].rows :
          i \in DOMAIN writes[t].rows \/ users[i] # Family!None \/ i > created
    BY <1>3, <1>5
  <2> QED BY <1>1, <1>5, <2>1, <2>2, FitStays
<1> QED BY <1>2, <1>5, <1>6, <1>7 DEF PendingInv

LEMMA OneRow ==
  ASSUME NEW k \in Family!Ids, NEW u \in Family!Users \cup {Family!None}
  PROVE  LET new == [i \in {k} |-> u]
         IN new \in RowSets /\ DOMAIN new = {k} /\ new[k] = u
<1>1. [i \in {k} |-> u] \in [{k} -> Family!Users \cup {Family!None}]
  OBVIOUS
<1> QED BY <1>1 DEF RowSets

\* An insert of a user with a name that is free.
LEMMA InsertPrepared ==
  ASSUME FamilyInv, NEW r \in Requests, NEW u \in Family!Users,
         Family!MayBegin(r), created < MaxUsers, ~Family!NameTaken(u.name), ~Locked(u),
         created' = created + 1, delivered' \in {delivered, delivered \cup {created'}},
         Family!Prepare(r, "insert", [i \in {created'} |-> u]), SoundUser(created', u, delivered'),
         UNCHANGED <<smtpServer, publishThrows, users, missed, overlapped>>
  PROVE  FamilyInv'
<1> DEFINE k == created + 1
           new == [i \in {k} |-> u]
<1>1. /\ created \in Nat /\ k \in Family!Ids /\ created' \in created .. MaxUsers
      /\ delivered \subseteq 1 .. created /\ u # Family!None
  BY FamilyFacts DEF FamilyInv, UsersInv
<1>2. new \in RowSets /\ DOMAIN new = {k} /\ new[k] = u
  BY <1>1, OneRow
<1>3. delivered \subseteq delivered' /\ delivered' \subseteq 1 .. created'
  BY <1>1
<1>4. Family!Prepare(r, "insert", new)
  OBVIOUS
<1>5. \A i \in DOMAIN new : i <= created' /\ SoundUser(i, new[i], delivered') /\ i > created
  BY <1>1, <1>2
<1> HIDE DEF new
<1>6. /\ writes'[r].kind = "insert" /\ writes'[r].rows = new
      /\ \A s \in Requests \ {r} : writes'[s] = writes[s]
  BY <1>4 DEF Family!Prepare, FamilyInv, PendingInv
<1>7. users[k] = Family!None
  BY <1>1 DEF FamilyInv, UsersInv
<1>8. \A s \in Requests : \A i \in DOMAIN writes[s].rows : i \in Nat /\ i <= created
  BY RowSetIds DEF FamilyInv, PendingInv, Pending
<1>9. \A s \in Requests \ {r} : k \notin DOMAIN writes'[s].rows
  BY <1>1, <1>6, <1>8
<1>10. \A j \in Family!Ids : users[j] # Family!None => users[j].name # u.name
  BY DEF Family!NameTaken, Family!Existing
<1>11. Fits(r)'
  <2>1. (~Locked(u))'
    BY DEF Locked
  <2>2. FitsInsert(r)'
    BY <1>1, <1>2, <1>6, <1>7, <1>9, <1>10, <2>1 DEF FitsInsert
  <2> QED BY <1>6, <2>2 DEF Fits
<1> QED BY <1>1, <1>2, <1>3, <1>4, <1>5, <1>11, Prepared DEF WriteKinds

\* An update of one user, who keeps what does not change.
LEMMA UpdatePrepared ==
  ASSUME FamilyInv, NEW r \in Requests, NEW k \in Family!Ids, users[k] # Family!None,
         NEW u \in Family!Users, SoundUser(k, u, delivered), NEW kind \in {"activate", "reset"},
         u.name = users[k].name, u.kind = users[k].kind, u.parent = users[k].parent,
         u.active \/ (kind = "reset" /\ u.active = users[k].active),
         Family!MayBegin(r), Family!Prepare(r, kind, [i \in {k} |-> u]),
         UNCHANGED <<smtpServer, publishThrows, users, created, delivered, missed, overlapped>>
  PROVE  FamilyInv'
<1> DEFINE new == [i \in {k} |-> u]
<1>1. created \in Nat /\ created' \in created .. MaxUsers /\ k <= created /\ u # Family!None
  BY FamilyFacts DEF FamilyInv, UsersInv
<1>2. new \in RowSets /\ DOMAIN new = {k} /\ new[k] = u
  BY OneRow
<1>3. delivered \subseteq delivered' /\ delivered' \subseteq 1 .. created'
  BY DEF FamilyInv, UsersInv
<1>4. Family!Prepare(r, kind, new)
  OBVIOUS
<1> HIDE DEF new
<1>5. \A i \in DOMAIN new : i <= created' /\ SoundUser(i, new[i], delivered') /\ users[i] # Family!None
  BY <1>1, <1>2
<1>6. writes'[r].kind = kind /\ writes'[r].rows = new
  BY <1>4 DEF Family!Prepare, FamilyInv, PendingInv
<1>7. u.kind = "parent" /\ ~u.active => kind = "reset" /\ (users[k].hasKey \/ k \in overlapped)
  BY DEF FamilyInv, UsersInv, Locked
<1>8. FitsUpdate(r)'
  BY <1>1, <1>2, <1>6, <1>7 DEF FitsUpdate
<1>9. Fits(r)'
  BY <1>6, <1>8 DEF Fits
<1>10. kind \in WriteKinds \ {"nothing"}
  BY DEF WriteKinds
<1> QED BY <1>1, <1>2, <1>3, <1>4, <1>5, <1>9, <1>10, Prepared

\* A delete of some users.
LEMMA DeletePrepared ==
  ASSUME FamilyInv, NEW r \in Requests, NEW ids \in SUBSET Family!Ids,
         \A i \in ids : users[i] # Family!None,
         Family!MayBegin(r), Family!Prepare(r, "delete", [i \in ids |-> Family!None]),
         UNCHANGED <<smtpServer, publishThrows, users, created, delivered, missed, overlapped>>
  PROVE  FamilyInv'
<1> DEFINE new == [i \in ids |-> Family!None]
<1>1. created \in Nat /\ created' \in created .. MaxUsers /\ \A i \in ids : i <= created
  BY FamilyFacts DEF FamilyInv, UsersInv
<1>2. new \in RowSets /\ DOMAIN new = ids /\ \A i \in ids : new[i] = Family!None
  <2>1. new \in [ids -> Family!Users \cup {Family!None}]
    OBVIOUS
  <2> QED BY <2>1 DEF RowSets
<1>3. delivered \subseteq delivered' /\ delivered' \subseteq 1 .. created'
  BY DEF FamilyInv, UsersInv
<1>4. Family!Prepare(r, "delete", new)
  OBVIOUS
<1> HIDE DEF new
<1>5. \A i \in DOMAIN new : i <= created' /\ SoundUser(i, new[i], delivered') /\ users[i] # Family!None
  BY <1>1, <1>2 DEF SoundUser
<1>6. writes'[r].kind = "delete" /\ writes'[r].rows = new
  BY <1>4 DEF Family!Prepare, FamilyInv, PendingInv
<1>7. Fits(r)'
  BY <1>2, <1>6 DEF Fits
<1> QED BY <1>1, <1>2, <1>3, <1>4, <1>5, <1>7, Prepared DEF WriteKinds

(***************************************************************************)
(* A commit.                                                               *)
(***************************************************************************)
LEMMA NameShared ==
  ASSUME NEW r \in Requests, NEW s \in Requests,
         NEW i \in DOMAIN writes[r].rows, NEW j \in DOMAIN writes[s].rows,
         writes[r].rows[i] # Family!None, writes[s].rows[j] # Family!None,
         writes[r].rows[i].name = writes[s].rows[j].name
  PROVE  Family!SameName(r, s)
BY DEF Family!SameName, Family!NamesOf

\* The rows after a commit, seen from the write and from the rows before.
LEMMA Committed ==
  ASSUME FamilyInv, NEW r \in Requests, Family!Commit(r), NEW i \in Family!Ids
  PROVE  LET w == writes[r]
             u == w.rows[i]
         IN /\ users'[i] = Family!Written(r)[i]
            /\ i \notin DOMAIN w.rows => users'[i] = users[i]
            /\ i \in DOMAIN w.rows /\ w.kind \in {"insert", "delete"} => users'[i] = u
            /\ i \in DOMAIN w.rows /\ w.kind \in {"activate", "reset"} =>
                 /\ users[i] # Family!None /\ users'[i] \in Family!Users
                 /\ users'[i].name = users[i].name /\ users'[i].kind = users[i].kind
                 /\ users'[i].parent = users[i].parent
                 /\ users'[i].active = u.active /\ users'[i].knownPassword = u.knownPassword
                 /\ w.kind = "reset" => users'[i].hasKey = users[i].hasKey
<1> DEFINE u == writes[r].rows[i]
<1>1. users' = Family!Written(r)
  BY DEF Family!Commit
<1>2. users'[i] = IF i \notin DOMAIN writes[r].rows THEN users[i]
                  ELSE IF writes[r].kind \in {"activate", "reset"}
                       THEN Family!Updated(users[i], writes[r].kind, u)
                       ELSE u
  BY <1>1 DEF Family!Written
<1>3. ASSUME i \in DOMAIN writes[r].rows, writes[r].kind \in {"activate", "reset"}
      PROVE  /\ users[i] # Family!None /\ users'[i] \in Family!Users
             /\ users'[i].name = users[i].name /\ users'[i].kind = users[i].kind
             /\ users'[i].parent = users[i].parent
             /\ users'[i].active = u.active /\ users'[i].knownPassword = u.knownPassword
             /\ writes[r].kind = "reset" => users'[i].hasKey = users[i].hasKey
  <2>1. users[i] # Family!None /\ users[i] \in Family!Users
    BY <1>3 DEF Family!Commit, Family!Existing, FamilyInv, UsersInv
  <2>2. u \in Family!Users
    <3>1. Fits(r) /\ Pending(r)
      BY DEF FamilyInv, PendingInv
    <3>2. FitsUpdate(r)
      BY <1>3, <3>1 DEF Fits
    <3>3. u # Family!None /\ SoundUser(i, u, delivered)
      BY <1>3, <3>1, <3>2 DEF Pending, FitsUpdate
    <3> QED BY <3>3 DEF SoundUser
  <2> DEFINE stored == users[i]
             half == [stored EXCEPT !.active = u.active, !.knownPassword = u.knownPassword]
             whole == [half EXCEPT !.hasKey = u.hasKey]
  <2>3. users'[i] = IF writes[r].kind = "reset" THEN half ELSE whole
    BY <1>2, <1>3 DEF Family!Updated
  <2> HIDE DEF u
  <2>4. /\ half \in Family!Users /\ half.name = stored.name /\ half.kind = stored.kind
        /\ half.parent = stored.parent /\ half.active = u.active
        /\ half.knownPassword = u.knownPassword /\ half.hasKey = stored.hasKey
    <3> HIDE DEF stored
    <3>1. stored \in Family!Users
      BY <2>1 DEF stored
    <3> QED BY <2>2, <3>1 DEF Family!Users
  <2>5. /\ whole \in Family!Users /\ whole.name = half.name /\ whole.kind = half.kind
        /\ whole.parent = half.parent /\ whole.active = half.active
        /\ whole.knownPassword = half.knownPassword
    <3> HIDE DEF half
    <3> QED BY <2>2, <2>4 DEF Family!Users
  <2> HIDE DEF half, whole
  <2> QED BY <2>1, <2>3, <2>4, <2>5 DEF stored
<1> HIDE DEF u
<1> QED BY <1>1, <1>2, <1>3 DEF u

LEMMA CommitKeepsUsers ==
  ASSUME FamilyInv, NEW r \in Requests, Family!Commit(r), UNCHANGED <<smtpServer, publishThrows>>
  PROVE  UsersInv' /\ \A i \in Family!Ids : i \in overlapped /\ users'[i] # Family!None => i \in overlapped'
<1> USE FamilyFacts DEF FamilyInv
<1> DEFINE new == writes[r].rows
           kind == writes[r].kind
<1>1. /\ new \in RowSets /\ kind \in WriteKinds \ {"nothing"}
      /\ \A i \in DOMAIN new : i <= created /\ SoundUser(i, new[i], delivered)
      /\ Fits(r) /\ missed \in [Requests -> BOOLEAN]
  BY DEF PendingInv, Pending, Family!Commit, UsersInv
<1>2. /\ UNCHANGED <<created, delivered>>
      /\ missed' = [s \in Requests |-> s # r /\ (missed[s] \/ Family!SameName(r, s))]
      /\ overlapped' = {i \in Family!Existing' : i \in overlapped \/ (missed[r] /\ i \in DOMAIN new)}
      /\ users' = Family!Written(r)
  BY DEF Family!Commit
<1>3. missed' \in [Requests -> BOOLEAN]
  <2>1. \A s \in Requests : Family!SameName(r, s) \in BOOLEAN
    BY DEF Family!SameName
  <2>2. \A s \in Requests : (s # r /\ (missed[s] \/ Family!SameName(r, s))) \in BOOLEAN
    BY <1>1, <2>1
  <2> QED BY <1>2, <2>2
<1>4. overlapped' \subseteq Family!Ids
  BY <1>2 DEF Family!Existing
<1>5. \A i \in Family!Ids : users'[i] # Family!None /\ (i \in overlapped \/ (missed[r] /\ i \in DOMAIN new)) => i \in overlapped'
  BY <1>2 DEF Family!Existing
<1>6. ASSUME NEW i \in Family!Ids, users'[i] # Family!None
      PROVE  /\ users'[i] \in Family!Users
             /\ SoundUser(i, users'[i], delivered) /\ i <= created
             /\ Locked(users'[i]) => i \in overlapped'
  <2>1. CASE i \notin DOMAIN new
    <3>1. users'[i] = users[i]
      BY <2>1, Committed
    <3> QED BY <1>5, <1>6, <3>1 DEF UsersInv
  <2>2. CASE i \in DOMAIN new /\ kind \in {"insert", "delete"}
    <3>1. users'[i] = new[i]
      BY <2>2, Committed
    <3>2. kind = "insert"
      BY <1>1, <1>6, <2>2, <3>1 DEF Fits
    <3>3. ~Locked(new[i])
      BY <1>1, <2>2, <3>2 DEF Fits, FitsInsert
    <3> QED BY <1>1, <1>6, <2>2, <3>1, <3>3 DEF SoundUser
  <2>3. CASE i \in DOMAIN new /\ kind \in {"activate", "reset"}
    <3> DEFINE u == new[i]
               v == users'[i]
    <3>1. /\ users[i] # Family!None /\ v \in Family!Users
          /\ v.name = users[i].name /\ v.kind = users[i].kind /\ v.parent = users[i].parent
          /\ v.active = u.active /\ v.knownPassword = u.knownPassword
          /\ kind = "reset" => v.hasKey = users[i].hasKey
      BY <2>3, Committed
    <3>2. /\ SoundUser(i, u, delivered) /\ i <= created /\ u # Family!None
          /\ u.kind = users[i].kind /\ u.parent = users[i].parent
          /\ u.kind = "parent" /\ ~u.active =>
               kind = "reset" /\ (users[i].hasKey \/ missed[r] \/ i \in overlapped)
      BY <1>1, <2>3, <3>1 DEF Fits, FitsUpdate
    <3> HIDE DEF u, v, kind
    <3>3. SoundUser(i, v, delivered)
      BY <3>1, <3>2 DEF SoundUser
    <3>4. Locked(v) => missed[r] \/ i \in overlapped
      BY <3>1, <3>2 DEF Locked
    <3> QED BY <1>5, <1>6, <2>3, <3>1, <3>2, <3>3, <3>4 DEF v
  <2> QED BY <1>1, <2>1, <2>2, <2>3 DEF WriteKinds
<1>7. \A i \in Family!Ids : users'[i].kind = "child" => users'[users'[i].parent] # Family!None
  BY <1>2 DEF Family!Commit
<1>8. ASSUME NEW i \in Family!Ids, NEW j \in Family!Ids, users'[i] # Family!None, users'[j] # Family!None,
             users'[i].name = users'[j].name, i # j
      PROVE  i \in overlapped' \/ j \in overlapped'
  <2>1. ASSUME NEW k \in Family!Ids, users'[k] # Family!None, ~(k \in DOMAIN new /\ kind = "insert")
        PROVE  users[k] # Family!None /\ users[k].name = users'[k].name
    <3>1. CASE k \notin DOMAIN new
      BY <2>1, <3>1, Committed
    <3>2. CASE k \in DOMAIN new /\ kind \in {"activate", "reset"}
      BY <3>2, Committed
    <3>3. CASE k \in DOMAIN new /\ kind = "delete"
      BY <1>1, <2>1, <3>3, Committed DEF Fits
    <3> QED BY <1>1, <2>1, <3>1, <3>2, <3>3 DEF WriteKinds
  <2>2. ASSUME NEW k \in Family!Ids, NEW m \in Family!Ids, k # m, users'[k] # Family!None,
               users'[m] # Family!None, users'[k].name = users'[m].name, k \in DOMAIN new, kind = "insert"
        PROVE  k \in overlapped'
    <3>1. FitsInsert(r)
      BY <1>1, <2>2 DEF Fits
    <3>2. m \notin DOMAIN new
      BY <2>2, <3>1 DEF FitsInsert
    <3>3. users[m] = users'[m] /\ users'[k] = new[k]
      BY <2>2, <3>2, Committed
    <3>4. missed[r]
      BY <2>2, <3>1, <3>3 DEF FitsInsert
    <3> QED BY <1>5, <2>2, <3>4
  <2>3. CASE i \in DOMAIN new /\ kind = "insert"
    BY <1>8, <2>2, <2>3
  <2>4. CASE j \in DOMAIN new /\ kind = "insert"
    BY <1>8, <2>2, <2>4
  <2>5. CASE ~(i \in DOMAIN new /\ kind = "insert") /\ ~(j \in DOMAIN new /\ kind = "insert")
    <3>1. users[i] # Family!None /\ users[j] # Family!None /\ users[i].name = users[j].name
      BY <1>8, <2>1, <2>5
    <3> QED BY <1>5, <1>8, <3>1 DEF UsersInv
  <2> QED BY <2>3, <2>4, <2>5
<1>9. users' \in [Family!Ids -> Family!Users \cup {Family!None}]
  <2>1. users' = [i \in Family!Ids |-> users'[i]]
    BY <1>2 DEF Family!Written
  <2> QED BY <1>6, <2>1
<1>10. \A i, u : SoundUser(i, u, delivered) => SoundUser(i, u, delivered)'
  BY <1>2, SoundStays
<1>11. \A i \in Family!Ids : Locked(users[i])' = Locked(users'[i])
  BY DEF Locked
<1>12. UsersInv'
  BY <1>2, <1>3, <1>4, <1>6, <1>7, <1>8, <1>9, <1>10, <1>11 DEF UsersInv
<1> QED BY <1>5, <1>12

\* What the others are about to write.
LEMMA CommitKeepsPending ==
  ASSUME FamilyInv, NEW r \in Requests, Family!Commit(r), UNCHANGED <<smtpServer, publishThrows>>,
         \A i \in Family!Ids : i \in overlapped /\ users'[i] # Family!None => i \in overlapped'
  PROVE  PendingInv'
<1> USE FamilyFacts DEF FamilyInv
<1> DEFINE new == writes[r].rows
           kind == writes[r].kind
<1>1. /\ new \in RowSets /\ kind \in WriteKinds \ {"nothing"} /\ Fits(r)
      /\ \A i \in DOMAIN new : i <= created /\ SoundUser(i, new[i], delivered)
  BY DEF PendingInv, Pending, Family!Commit
<1>2. /\ UNCHANGED <<created, delivered>>
      /\ missed' = [s \in Requests |-> s # r /\ (missed[s] \/ Family!SameName(r, s))]
      /\ writes' = [writes EXCEPT ![r] = Family!Nothing]
  BY DEF Family!Commit
<1>3. /\ writes' \in [Requests -> [kind : WriteKinds, rows : RowSets]]
      /\ writes'[r] = Family!Nothing /\ \A s \in Requests \ {r} : writes'[s] = writes[s]
  BY <1>2 DEF PendingInv
<1>4. Pending(r)' /\ Fits(r)'
  BY <1>3 DEF Pending, Fits
<1>5. ASSUME NEW s \in Requests \ {r} PROVE Pending(s)' /\ Fits(s)'
  <2> DEFINE theirs == writes[s].rows
  <2>1. /\ Fits(s) /\ Pending(s) /\ theirs \in RowSets /\ writes'[s] = writes[s]
        /\ (missed[s] => missed'[s]) /\ (Family!SameName(r, s) => missed'[s])
    BY <1>2, <1>3 DEF PendingInv
  <2>2. Pending(s)'
    BY <1>2, <2>1, SoundStays DEF Pending
  <2>3. \A i \in DOMAIN theirs : i \in Family!Ids
    BY <2>1, RowSetIds
  <2>4. ASSUME NEW j \in Family!Ids, NEW i \in DOMAIN theirs, theirs[i] # Family!None,
               users'[j] # Family!None, users'[j].name = theirs[i].name
        PROVE  missed'[s] \/ (users[j] # Family!None /\ users[j].name = theirs[i].name)
    <3>1. CASE j \notin DOMAIN new
      BY <2>4, <3>1, Committed
    <3>2. CASE j \in DOMAIN new /\ kind \in {"activate", "reset"}
      BY <2>4, <3>2, Committed
    <3>3. CASE j \in DOMAIN new /\ kind \in {"insert", "delete"}
      <4>1. users'[j] = new[j]
        BY <3>3, Committed
      <4>2. Family!SameName(r, s)
        BY <2>4, <3>3, <4>1, NameShared
      <4> QED BY <2>1, <4>2
    <3> QED BY <1>1, <3>1, <3>2, <3>3 DEF WriteKinds
  <2>5. ASSUME writes[s].kind = "insert" PROVE FitsInsert(s)'
    <3>1. FitsInsert(s)
      BY <2>1, <2>5 DEF Fits
    <3>2. ASSUME NEW i \in DOMAIN theirs
          PROVE  /\ theirs[i] # Family!None /\ users'[i] = Family!None /\ ~Locked(theirs[i])
                 /\ \A j \in DOMAIN theirs : i = j
                 /\ \A t \in Requests \ {s} : i \notin DOMAIN writes'[t].rows
                 /\ \A j \in Family!Ids : users'[j] # Family!None /\ users'[j].name = theirs[i].name => missed'[s]
      <4>1. i \notin DOMAIN new /\ users[i] = Family!None
        BY <3>1, <3>2 DEF FitsInsert
      <4>2. users'[i] = Family!None
        BY <2>3, <4>1, Committed
      <4>3. \A t \in Requests \ {s} : i \notin DOMAIN writes'[t].rows
        BY <1>3, <3>1, <3>2 DEF FitsInsert
      <4>4. theirs[i] # Family!None /\ ~Locked(theirs[i]) /\ \A j \in DOMAIN theirs : i = j
        BY <3>1, <3>2 DEF FitsInsert
      <4>5. \A j \in Family!Ids : users[j] # Family!None /\ users[j].name = theirs[i].name => missed[s]
        BY <3>1, <3>2 DEF FitsInsert
      <4>6. \A j \in Family!Ids : users'[j] # Family!None /\ users'[j].name = theirs[i].name => missed'[s]
        BY <2>1, <2>4, <3>2, <4>4, <4>5
      <4> QED BY <4>2, <4>3, <4>4, <4>6
    <3>3. \A u : Locked(u)' <=> Locked(u)
      BY DEF Locked
    <3> QED BY <2>1, <3>2, <3>3 DEF FitsInsert, Locked
  <2>6. ASSUME writes[s].kind \in {"activate", "reset"} PROVE FitsUpdate(s)'
    <3>1. FitsUpdate(s)
      BY <2>1, <2>6 DEF Fits
    <3>2. ASSUME NEW i \in DOMAIN theirs, users'[i] # Family!None
          PROVE  LET u == theirs[i]
                 IN /\ u.name = users'[i].name /\ u.kind = users'[i].kind /\ u.parent = users'[i].parent
                    /\ u.kind = "parent" /\ ~u.active =>
                         writes[s].kind = "reset" /\ (users'[i].hasKey \/ missed'[s] \/ i \in overlapped')
      <4>1. i \in Family!Ids /\ theirs[i] # Family!None
        BY <2>3, <3>1, <3>2 DEF FitsUpdate
      <4>2. users[i] # Family!None /\ users'[i].name = users[i].name
            /\ users'[i].kind = users[i].kind /\ users'[i].parent = users[i].parent
            /\ (users'[i].hasKey = users[i].hasKey \/ i \in DOMAIN new)
        <5>1. CASE i \notin DOMAIN new
          BY <3>2, <4>1, <5>1, Committed
        <5>2. CASE i \in DOMAIN new /\ kind \in {"activate", "reset"}
          BY <4>1, <5>2, Committed
        <5>3. CASE i \in DOMAIN new /\ kind = "delete"
          BY <1>1, <3>2, <4>1, <5>3, Committed DEF Fits
        <5>4. kind = "insert" => i \notin DOMAIN new
          BY <1>1, <3>2 DEF Fits, FitsInsert
        <5> QED BY <1>1, <5>1, <5>2, <5>3, <5>4 DEF WriteKinds
      <4>3. /\ theirs[i].name = users[i].name /\ theirs[i].kind = users[i].kind /\ theirs[i].parent = users[i].parent
            /\ theirs[i].kind = "parent" /\ ~theirs[i].active =>
                 writes[s].kind = "reset" /\ (users[i].hasKey \/ missed[s] \/ i \in overlapped)
        BY <3>1, <3>2, <4>2 DEF FitsUpdate
      <4>4. i \in DOMAIN new => missed'[s]
        <5> SUFFICES ASSUME i \in DOMAIN new PROVE missed'[s]
          OBVIOUS
        <5>1. kind \in {"activate", "reset"}
          <6>1. kind # "delete"
            BY <1>1, <3>2, <4>1, Committed DEF Fits
          <6>2. kind # "insert"
            BY <1>1, <3>2 DEF Fits, FitsInsert
          <6> QED BY <1>1, <6>1, <6>2 DEF WriteKinds
        <5>2. new[i] # Family!None /\ new[i].name = users[i].name
          BY <1>1, <4>2, <5>1 DEF Fits, FitsUpdate
        <5>3. Family!SameName(r, s)
          BY <4>1, <4>3, <5>2, NameShared
        <5> QED BY <2>1, <5>3
      <4> QED BY <2>1, <3>2, <4>1, <4>2, <4>3, <4>4
    <3> QED BY <2>1, <3>1, <3>2 DEF FitsUpdate
  <2>7. writes[s].kind = "delete" => \A i \in DOMAIN writes'[s].rows : writes'[s].rows[i] = Family!None
    BY <2>1 DEF Fits
  <2> QED BY <2>1, <2>2, <2>5, <2>6, <2>7 DEF Fits
<1> QED BY <1>3, <1>4, <1>5 DEF PendingInv

LEMMA FamilyInvStep == FamilyInv /\ [Family!Next]_(Family!vars) => FamilyInv'
<1> SUFFICES ASSUME FamilyInv, [Family!Next]_(Family!vars) PROVE FamilyInv'
  OBVIOUS
<1>0. /\ created \in Nat /\ created .. MaxUsers \subseteq Nat /\ created \in created .. MaxUsers
      /\ delivered \subseteq 1 .. created /\ smtpServer \in BOOLEAN
      /\ users \in [Family!Ids -> Family!Users \cup {Family!None}]
      /\ \A i \in Family!Ids : users[i] # Family!None =>
           users[i] \in Family!Users /\ SoundUser(i, users[i], delivered) /\ i <= created
  BY FamilyFacts DEF FamilyInv, UsersInv
<1>a. missed \in [Requests -> BOOLEAN] /\ writes \in [Requests -> [kind : WriteKinds, rows : RowSets]]
  BY DEF FamilyInv, UsersInv, PendingInv
<1>1. CASE UNCHANGED Family!vars
  <2>1. UNCHANGED <<smtpServer, publishThrows, users, created, delivered, writes, missed, overlapped>>
    BY <1>1 DEF Family!vars, Family!setting
  <2> QED BY <1>0, <1>a, <2>1, Unwritten
<1> SUFFICES ASSUME NEW r \in Requests,
                    \/ /\ \/ \E name \in Names : Family!Register(r, name) \/ \E p \in Family!Existing : Family!AddChild(r, p, name)
                          \/ \E i \in Family!Ids : Family!Activate(r, i) \/ Family!Forgot(r, i) \/ Family!DeleteParent(r, i)
                          \/ \E p, c \in Family!Existing : Family!DeleteChild(r, p, c)
                       /\ UNCHANGED <<missed, overlapped>>
                    \/ Family!Commit(r) \/ Family!Fail(r),
                    UNCHANGED <<smtpServer, publishThrows>>
             PROVE  FamilyInv'
  BY <1>1 DEF Family!Next, Family!RequestStep, Family!setting
<1>2. ASSUME NEW name \in Names, Family!Register(r, name), UNCHANGED <<missed, overlapped>> PROVE FamilyInv'
  <2> DEFINE u == Family!NewParent(name, ~smtpServer)
  <2>1. PICK mail \in Family!SendEmail :
          /\ delivered' = IF mail = "sent" THEN delivered \cup {created'} ELSE delivered
          /\ IF mail = "threw" /\ publishThrows THEN UNCHANGED writes
             ELSE Family!Prepare(r, "insert", [i \in {created'} |-> u])
    BY <1>2 DEF Family!Register
  <2>2. /\ created < MaxUsers /\ created' = created + 1 /\ UNCHANGED users
        /\ Family!MayBegin(r) /\ ~Family!NameTaken(name)
    BY <1>2 DEF Family!Register
  <2>3. delivered' \in {delivered, delivered \cup {created'}}
    BY <2>1
  <2>4. CASE mail = "threw" /\ publishThrows
    <3>1. delivered \subseteq delivered' /\ delivered' \subseteq 1 .. created' /\ created' \in created .. MaxUsers
      BY <1>0, <2>2, <2>3, FamilyFacts
    <3> QED BY <1>2, <1>a, <2>1, <2>2, <2>4, <3>1, Unwritten
  <2>5. CASE ~(mail = "threw" /\ publishThrows)
    <3>1. u \in Family!Users /\ u.name = name
      BY <1>0 DEF Family!NewParent, Family!Users
    <3>2. mail \in (IF smtpServer THEN {"sent", "threw"} ELSE {"skipped"})
      BY DEF Family!SendEmail
    <3>3. SoundUser(created', u, delivered')
      BY <1>0, <2>1, <2>5, <3>1, <3>2 DEF SoundUser, Family!NewParent
    <3>4. ~Locked(u)
      BY <1>0, <3>1 DEF Locked, Family!NewParent
    <3> HIDE DEF u
    <3> QED BY <1>2, <2>1, <2>2, <2>3, <2>5, <3>1, <3>3, <3>4, InsertPrepared
  <2> QED BY <2>4, <2>5
<1>3. ASSUME NEW name \in Names, NEW p \in Family!Existing, Family!AddChild(r, p, name), UNCHANGED <<missed, overlapped>> PROVE FamilyInv'
  <2> DEFINE u == [kind |-> "child", name |-> name, active |-> TRUE,
                   hasKey |-> FALSE, parent |-> p, knownPassword |-> TRUE]
  <2>1. /\ created < MaxUsers /\ created' = created + 1 /\ UNCHANGED <<users, delivered>>
        /\ Family!MayBegin(r) /\ ~Family!NameTaken(name)
        /\ Family!Prepare(r, "insert", [i \in {created'} |-> u])
    BY <1>3 DEF Family!AddChild
  <2>2. p \in Family!Ids /\ p <= created /\ p # created'
    BY <1>0, <2>1, FamilyFacts DEF Family!Existing
  <2>3. u \in Family!Users /\ u.name = name
    BY <2>2 DEF Family!Users
  <2>4. SoundUser(created', u, delivered')
    BY <2>2, <2>3 DEF SoundUser
  <2>5. ~Locked(u)
    BY DEF Locked
  <2> HIDE DEF u
  <2> QED BY <1>3, <2>1, <2>3, <2>4, <2>5, InsertPrepared
<1>4. ASSUME NEW k \in Family!Ids, Family!Activate(r, k), UNCHANGED <<missed, overlapped>> PROVE FamilyInv'
  <2> DEFINE user == users[k]
             u == [user EXCEPT !.active = TRUE, !.hasKey = FALSE]
  <2>1. user.kind = "parent" /\ k \in delivered /\ Family!MayBegin(r) /\ UNCHANGED <<users, created, delivered>>
        /\ Family!Prepare(r, "activate", [i \in {k} |-> u])
    BY <1>4 DEF Family!Activate
  <2>2. user # Family!None /\ user \in Family!Users /\ SoundUser(k, user, delivered)
    BY <1>0, <2>1, FamilyFacts
  <2>3. u \in Family!Users /\ u.name = user.name /\ u.kind = user.kind /\ u.active = TRUE
        /\ u.parent = user.parent /\ u.knownPassword = user.knownPassword
    <3> HIDE DEF user
    <3> QED BY <2>2 DEF Family!Users
  <2> HIDE DEF u
  <2>4. SoundUser(k, u, delivered)
    <3> HIDE DEF user
    <3> QED BY <2>1, <2>2, <2>3, FamilyFacts DEF SoundUser
  <2> QED BY <1>4, <2>1, <2>2, <2>3, <2>4, UpdatePrepared
<1>5. ASSUME NEW k \in Family!Ids, Family!Forgot(r, k), UNCHANGED <<missed, overlapped>> PROVE FamilyInv'
  <2>1. PICK mail \in Family!SendEmail :
          /\ mail # "threw"
          /\ Family!Prepare(r, "reset", [i \in {k} |-> [users[k] EXCEPT !.knownPassword = mail = "sent"]])
    BY <1>5 DEF Family!Forgot
  <2> DEFINE user == users[k]
             u == [user EXCEPT !.knownPassword = mail = "sent"]
  <2>2. k \in Family!Existing /\ Family!MayBegin(r) /\ UNCHANGED <<users, created, delivered>>
        /\ Family!Prepare(r, "reset", [i \in {k} |-> u])
    BY <1>5, <2>1 DEF Family!Forgot
  <2>3. user # Family!None /\ user \in Family!Users /\ SoundUser(k, user, delivered)
    BY <1>0, <2>2 DEF Family!Existing
  <2>4. (mail = "sent") \in BOOLEAN /\ (smtpServer => mail = "sent")
    BY <2>1 DEF Family!SendEmail
  <2>5. u \in Family!Users /\ u.name = user.name /\ u.kind = user.kind /\ u.active = user.active
        /\ u.parent = user.parent /\ u.hasKey = user.hasKey /\ u.knownPassword = (mail = "sent")
    <3> HIDE DEF user
    <3> QED BY <2>3, <2>4 DEF Family!Users
  <2> HIDE DEF u
  <2>6. SoundUser(k, u, delivered)
    <3> HIDE DEF user
    <3> QED BY <2>3, <2>4, <2>5, FamilyFacts DEF SoundUser
  <2> QED BY <1>5, <2>2, <2>3, <2>5, <2>6, UpdatePrepared
<1>6. ASSUME NEW p \in Family!Ids, Family!DeleteParent(r, p), UNCHANGED <<missed, overlapped>> PROVE FamilyInv'
  <2> DEFINE ids == Family!ChildrenOf(p) \cup {p}
  <2>1. /\ users[p].kind = "parent" /\ Family!MayBegin(r) /\ UNCHANGED <<users, created, delivered>>
        /\ Family!Prepare(r, "delete", [i \in ids |-> Family!None])
    BY <1>6 DEF Family!DeleteParent
  <2>2. ids \in SUBSET Family!Ids /\ \A i \in ids : users[i] # Family!None
    BY <2>1, FamilyFacts DEF Family!ChildrenOf, Family!Existing
  <2> HIDE DEF ids
  <2> QED BY <1>6, <2>1, <2>2, DeletePrepared
<1>7. ASSUME NEW p \in Family!Existing, NEW c \in Family!Existing, Family!DeleteChild(r, p, c), UNCHANGED <<missed, overlapped>> PROVE FamilyInv'
  <2>1. /\ Family!MayBegin(r) /\ UNCHANGED <<users, created, delivered>>
        /\ Family!Prepare(r, "delete", [i \in {c} |-> Family!None])
    BY <1>7 DEF Family!DeleteChild
  <2>2. {c} \in SUBSET Family!Ids /\ \A i \in {c} : users[i] # Family!None
    BY DEF Family!Existing
  <2> QED BY <1>7, <2>1, <2>2, DeletePrepared
<1>8. ASSUME Family!Commit(r) PROVE FamilyInv'
  BY <1>8, CommitKeepsUsers, CommitKeepsPending DEF FamilyInv
<1>9. ASSUME Family!Fail(r) PROVE FamilyInv'
  <2>1. /\ UNCHANGED <<users, created, delivered, overlapped>> /\ writes' = [writes EXCEPT ![r] = Family!Nothing]
        /\ missed' = [missed EXCEPT ![r] = FALSE]
    BY <1>9 DEF Family!Fail
  <2>2. /\ missed' \in [Requests -> BOOLEAN] /\ writes' \in [Requests -> [kind : WriteKinds, rows : RowSets]]
        /\ \A s \in Requests : \/ writes'[s] = Family!Nothing
                               \/ writes'[s] = writes[s] /\ missed'[s] = missed[s]
    BY <1>a, <2>1, FamilyFacts
  <2> QED BY <1>0, <2>1, <2>2, Unwritten
<1> QED BY <1>2, <1>3, <1>4, <1>5, <1>6, <1>7, <1>8, <1>9

LEMMA FamilyInvImplies == FamilyInv => UsersAreConsistent
<1> SUFFICES ASSUME FamilyInv PROVE UsersAreConsistent
  OBVIOUS
<1> USE FamilyFacts DEF FamilyInv
<1>1. \A i \in Family!Existing : /\ i \in Family!Ids /\ users[i] # Family!None /\ users[i] \in Family!Users
                                 /\ SoundUser(i, users[i], delivered) /\ i <= created
  BY DEF Family!Existing, UsersInv
<1>2. Family!TypeOK
  <2>1. \A i \in Family!Existing : IF users[i].kind = "child" THEN users[i].parent \in Family!Existing \ {i}
                                                              ELSE users[i].parent = 0
    BY <1>1 DEF Family!Existing, UsersInv, SoundUser
  <2>2. ASSUME NEW r \in Requests
        PROVE  /\ writes[r].kind \in WriteKinds
               /\ \A i \in DOMAIN writes[r].rows : writes[r].rows[i] \in Family!Users \cup {Family!None}
    <3>1. writes[r].kind \in WriteKinds /\ writes[r].rows \in RowSets
      BY DEF PendingInv
    <3>2. PICK ids \in SUBSET Family!Ids : writes[r].rows \in [ids -> Family!Users \cup {Family!None}]
      BY <3>1 DEF RowSets
    <3> QED BY <3>1, <3>2
  <2> QED BY <2>1, <2>2 DEF Family!TypeOK, UsersInv, WriteKinds
<1>3. Family!NamesUnique
  BY <1>1 DEF Family!NamesUnique, UsersInv
<1>4. Family!NobodyLockedOut
  BY <1>1 DEF Family!NobodyLockedOut, SoundUser, UsersInv, Locked
<1>5. Family!ActiveIsConfirmed
  BY <1>1 DEF Family!ActiveIsConfirmed, SoundUser
<1>6. Family!PasswordsAreKnown
  BY <1>1 DEF Family!PasswordsAreKnown, SoundUser
<1> QED BY <1>2, <1>3, <1>4, <1>5, <1>6 DEF UsersAreConsistent

\* TardisBank moves the users by steps of their own.
LEMMA FamiliesMoveAlone ==
  /\ TardisBankInit => Family!Init
  /\ [TardisBankNext]_all => [Family!Next]_(Family!vars)
<1>1. TardisBankInit => Family!Init
  BY DEF TardisBankInit
<1>2. FamilyMoves => Family!Next
  BY DEF FamilyMoves
<1>3. AccountMoves \/ PocketMoves \/ StoredMoves \/ NewsMoves \/ UNCHANGED all
        => UNCHANGED <<users, created, delivered, writes, missed, overlapped, smtpServer, publishThrows>>
  BY DEF AccountMoves, PocketMoves, StoredMoves, Stored!Next, NewsMoves, PocketRests, all, familyVars
<1>4. UNCHANGED <<users, created, delivered, writes, missed, overlapped, smtpServer, publishThrows>>
        => UNCHANGED Family!vars
  BY DEF Family!vars, Family!setting
<1> QED BY <1>1, <1>2, <1>3, <1>4 DEF TardisBankNext

\* However many requests register, activate, delete and reset passwords at the
\* same time, and whichever mails and commits fail: users have their parents,
\* active parents are confirmed, and where a name is given twice, or a parent
\* locked out, two requests have written users of that name at the same time
\* (UserController, UserService).
THEOREM UsersStayConsistent == TardisBankSpec => []UsersAreConsistent
<1>1. TardisBankInit => FamilyInv
  BY FamiliesMoveAlone, FamilyInvInit
<1>2. FamilyInv /\ [TardisBankNext]_all => FamilyInv'
  BY FamiliesMoveAlone, FamilyInvStep
<1> QED BY <1>1, <1>2, FamilyInvImplies, PTL DEF TardisBankSpec

(***************************************************************************)
(* The account in the database.  The archive and the rows hold the         *)
(* bookings in order, without a gap: what a request is going to delete was *)
(* the oldest row once, so that it is the oldest still, or gone.  A        *)
(* request that has missed nothing knows what is in the database.          *)
(***************************************************************************)
\* The members of a sequence.
Members(a) == {a[i] : i \in DOMAIN a}

Entries == [kind : Stored!Kinds, amount : Int, due : 1 .. Dues + 1, missed : BOOLEAN]

LoadedRequests ==
  [at : {"loaded"}, kind : Stored!Kinds, amount : Int, old : Int, due : 1 .. Dues + 1,
   missed : BOOLEAN]
BookedRequests ==
  [at : {"booked"}, kind : Stored!Kinds, amount : Int, old : Int, due : 1 .. Dues + 1,
   missed : BOOLEAN, drop : Seq(Nat), dropMessage : Seq(Nat)]

Forms ==
  {r \in {Stored!Idle} \cup LoadedRequests \cup BookedRequests :
     r # Stored!Idle => /\ r.amount \in Stored!AmountsFor(r.kind)
                        /\ r.kind = "Schedule" => r.due <= Dues}

Paying == {n \in DOMAIN booked : booked[n].kind = "Schedule"}
Withdrawing == {n \in DOMAIN booked : booked[n].kind = "Withdraw"}

RowsInv ==
  /\ storedOld \in Int /\ booked \in Seq(Entries)
  /\ storedRows \in Seq(Nat) /\ storedArchived \in Seq(Nat)
  /\ Len(storedArchived) + Len(storedRows) = Len(booked)
  /\ \A i \in 1 .. Len(storedArchived) : storedArchived[i] = i
  /\ \A i \in 1 .. Len(storedRows) : storedRows[i] = Len(storedArchived) + i

PaidInv ==
  /\ nextDue \in 1 .. Dues + 1
  /\ Stored!DueDatesPaidOnce
  /\ \A i \in Paying : booked[i].due >= nextDue => \E k \in Paying : i < k /\ booked[k].missed

ToldInv ==
  /\ messages \in Seq(Nat) /\ told \in Seq(Nat) /\ Len(messages) <= Len(told)
  /\ \A i \in 1 .. Len(messages) : messages[i] = told[Len(told) - Len(messages) + i]
  /\ \A i, j \in 1 .. Len(told) : i < j => told[i] < told[j]
  /\ Members(told) = Withdrawing
  /\ Len(told) > Len(messages) => Len(messages) >= MaxMessages
  /\ Stored!Missed \cap Withdrawing = {} => Len(messages) <= MaxMessages

\* What a request is going to delete is the oldest, or gone.
Deletes(r) ==
  r \in BookedRequests =>
    /\ r.drop = <<>> \/ \E n \in 1 .. Len(storedArchived) + 1 : r.drop = <<n>>
    /\ \/ r.dropMessage = <<>>
       \/ /\ Len(messages) >= MaxMessages
          /\ \E j \in 1 .. Len(told) - Len(messages) + 1 : j <= Len(told) /\ r.dropMessage = <<told[j]>>

\* The dates before the one that a request has read are paid.
FollowsPaid(r) ==
  r # Stored!Idle => \A due \in 1 .. r.due - 1 : \E n \in Paying : booked[n].due = due

\* What a request that has missed nothing knows of the account.
Knows(r) ==
  /\ r # Stored!Idle /\ ~r.missed => r.old = storedOld /\ r.due = nextDue
  /\ r \in BookedRequests /\ ~r.missed =>
       /\ ~Stored!Refused(r)
       /\ r.drop = Stored!Drop(storedRows, StoredTransactions)
       /\ r.dropMessage = IF r.kind = "Withdraw" THEN Stored!Drop(messages, MaxMessages) ELSE <<>>

Sound(r) == Deletes(r) /\ FollowsPaid(r) /\ Knows(r)

StoredInv ==
  /\ request \in [Sessions -> Forms] /\ RowsInv /\ PaidInv /\ ToldInv
  /\ Stored!OnlyMissedCommitsHarm
  /\ \A s \in Sessions : Sound(request[s])

LEMMA StoredFacts ==
  /\ StoredTransactions \in Nat \ {0} /\ MaxMessages \in Nat \ {0} /\ Dues \in Nat
  /\ \A amount \in Amounts : amount \in Nat /\ amount > 0
  /\ \A kind \in Stored!Kinds : \A amount \in Stored!AmountsFor(kind) : amount \in Int
BY TardisBankAssumption DEF Stored!BankAssumption, Stored!AmountsFor

LEMMA SameTotal == ASSUME NEW a PROVE Stored!A!Total(a) = Total(a)
BY Zenon DEF Stored!A!Total, Total

(***************************************************************************)
(* Sequences.                                                              *)
(***************************************************************************)
LEMMA AppendAt ==
  ASSUME NEW S, NEW a \in Seq(S), NEW n \in S
  PROVE  /\ Append(a, n) \in Seq(S) /\ Len(Append(a, n)) = Len(a) + 1 /\ Len(a) \in Nat
         /\ Append(a, n)[Len(a) + 1] = n
         /\ \A i \in 1 .. Len(a) : Append(a, n)[i] = a[i]
         /\ DOMAIN Append(a, n) = 1 .. Len(a) + 1 /\ DOMAIN a = 1 .. Len(a)
OBVIOUS

LEMMA AppendTail ==
  ASSUME NEW a \in Seq(Nat), a # <<>>, NEW n \in Nat
  PROVE  LET b == Append(Tail(a), n)
         IN /\ b \in Seq(Nat) /\ Len(b) = Len(a) /\ b[Len(a)] = n /\ Len(a) \in Nat \ {0}
            /\ \A i \in 1 .. Len(a) - 1 : b[i] = a[i + 1]
<1> DEFINE t == Tail(a)
<1>1. Len(a) \in Nat \ {0}
  BY EmptySeq
<1>2. t \in Seq(Nat) /\ Len(t) = Len(a) - 1 /\ \A i \in 1 .. Len(a) - 1 : t[i] = a[i + 1]
  <2>1. t \in Seq(Nat) /\ Len(t) = Len(a) - 1 /\ \A i \in 1 .. Len(t) : t[i] = a[i + 1]
    BY HeadTailProperties
  <2> QED BY <2>1
<1> HIDE DEF t
<1>3. /\ Append(t, n) \in Seq(Nat) /\ Len(Append(t, n)) = Len(t) + 1
      /\ Append(t, n)[Len(t) + 1] = n /\ \A i \in 1 .. Len(t) : Append(t, n)[i] = t[i]
  BY <1>2, AppendAt
<1>4. Len(t) + 1 = Len(a)
  BY <1>1, <1>2
<1> QED BY <1>1, <1>2, <1>3, <1>4 DEF t

LEMMA Removed ==
  ASSUME NEW S, NEW a \in Seq(S), NEW k \in 1 .. Len(a)
  PROVE  LET r == SubSeq(a, 1, k - 1) \o SubSeq(a, k + 1, Len(a))
         IN /\ r \in Seq(S) /\ Len(r) = Len(a) - 1
            /\ \A i \in 1 .. Len(a) - 1 : r[i] = IF i < k THEN a[i] ELSE a[i + 1]
<1> DEFINE front == SubSeq(a, 1, k - 1)
           back == SubSeq(a, k + 1, Len(a))
<1>1. /\ front \in Seq(S) /\ Len(front) = k - 1
      /\ \A i \in 1 .. k - 1 : front[i] = a[i]
  OBVIOUS
<1>2. /\ back \in Seq(S) /\ Len(back) = Len(a) - k
      /\ \A i \in 1 .. Len(a) - k : back[i] = a[i + k]
  <2>1. k + 1 \in Int /\ Len(a) \in Nat /\ k \in Nat /\ k <= Len(a)
    OBVIOUS
  <2>2. back \in Seq(S) /\ Len(back) = Len(a) - k
    BY <2>1
  <2>3. ASSUME NEW i \in 1 .. Len(a) - k PROVE back[i] = a[i + k]
    <3>1. back[i] = a[(k + 1) + i - 1]
      BY <2>1, <2>2
    <3>2. (k + 1) + i - 1 = i + k
      BY <2>1
    <3> QED BY <3>1, <3>2
  <2> QED BY <2>2, <2>3
<1> HIDE DEF front, back
<1>both. \A i \in 1 .. Len(front) + Len(back) :
            (front \o back)[i] = IF i <= Len(front) THEN front[i] ELSE back[i - Len(front)]
  BY <1>1, <1>2, ConcatProperties
<1>4. ASSUME NEW i \in 1 .. Len(a) - 1
      PROVE  (front \o back)[i] = IF i < k THEN a[i] ELSE a[i + 1]
  <2>1. CASE i < k
    BY <1>1, <1>2, <2>1
  <2>2. CASE ~(i < k)
    <3>1. i - (k - 1) \in 1 .. Len(a) - k /\ (i - (k - 1)) + k = i + 1
      BY <2>2
    <3>2. i \in 1 .. Len(front) + Len(back) /\ ~(i <= Len(front))
      BY <1>1, <1>2, <2>2
    <3>3. (front \o back)[i] = back[i - Len(front)]
      BY <1>both, <3>2
    <3>4. (front \o back)[i] = back[i - (k - 1)]
      BY <1>1, <3>3
    <3>5. back[i - (k - 1)] = a[i + 1]
      BY <1>2, <3>1
    <3> QED BY <2>2, <3>4, <3>5
  <2> QED BY <2>1, <2>2
<1>5. Len(front \o back) = Len(a) - 1 /\ front \o back \in Seq(S)
  <2>1. Len(front) + Len(back) = Len(a) - 1
    BY <1>1, <1>2
  <2> QED BY <1>1, <1>2, <2>1, ConcatProperties
<1> QED BY <1>4, <1>5 DEF front, back

LEMMA RemovedAt ==
  ASSUME NEW a \in Seq(Nat), NEW k \in 1 .. Len(a)
  PROVE  /\ Stored!RemoveAt(a, k) \in Seq(Nat)
         /\ Len(Stored!RemoveAt(a, k)) = Len(a) - 1
         /\ \A i \in 1 .. Len(a) - 1 : Stored!RemoveAt(a, k)[i] = IF i < k THEN a[i] ELSE a[i + 1]
BY Removed DEF Stored!RemoveAt

\* Without its head a list of distinct members is its tail.
LEMMA WithoutHead ==
  ASSUME NEW a \in Seq(Nat), a # <<>>,
         \A i, j \in 1 .. Len(a) : a[i] = a[j] => i = j
  PROVE  Stored!Without(a, <<Head(a)>>) = Tail(a)
<1> DEFINE k == CHOOSE i \in DOMAIN a : a[i] = Head(a)
           w == Stored!Without(a, <<Head(a)>>)
<1>1. Len(a) \in Nat \ {0} /\ DOMAIN a = 1 .. Len(a) /\ Head(a) = a[1] /\ 1 \in 1 .. Len(a)
  BY EmptySeq
<1>2. k \in 1 .. Len(a) /\ a[k] = Head(a)
  BY <1>1
<1>3. k = 1
  <2> HIDE DEF k
  <2> QED BY <1>1, <1>2
<1>4. w = Stored!RemoveAt(a, 1)
  <2>1. w = Stored!RemoveAt(a, k)
    BY DEF Stored!Without
  <2> QED BY <1>3, <2>1
<1> HIDE DEF k, w
<1>5. /\ w \in Seq(Nat) /\ Len(w) = Len(a) - 1
      /\ \A i \in 1 .. Len(a) - 1 : w[i] = a[i + 1]
  <2>1. /\ Stored!RemoveAt(a, 1) \in Seq(Nat)
        /\ Len(Stored!RemoveAt(a, 1)) = Len(a) - 1
        /\ \A i \in 1 .. Len(a) - 1 : Stored!RemoveAt(a, 1)[i] = IF i < 1 THEN a[i] ELSE a[i + 1]
    BY <1>1, RemovedAt
  <2> QED BY <1>4, <2>1
<1>6. /\ Tail(a) \in Seq(Nat) /\ Len(Tail(a)) = Len(a) - 1
      /\ \A i \in 1 .. Len(a) - 1 : Tail(a)[i] = a[i + 1]
  <2>1. /\ Tail(a) \in Seq(Nat) /\ Len(Tail(a)) = Len(a) - 1
        /\ \A i \in 1 .. Len(Tail(a)) : Tail(a)[i] = a[i + 1]
    BY HeadTailProperties
  <2> QED BY <2>1
<1>7. \A i \in 1 .. Len(a) - 1 : w[i] = Tail(a)[i]
  BY <1>5, <1>6
<1>8. w = Tail(a)
  BY <1>5, <1>6, <1>7, SeqEqual
<1> QED BY <1>8 DEF w

LEMMA IncreasingDistinct ==
  ASSUME NEW a \in Seq(Nat), \A i, j \in 1 .. Len(a) : i < j => a[i] < a[j],
         NEW k \in 1 .. Len(a), NEW l \in 1 .. Len(a), a[k] = a[l]
  PROVE  k = l
<1>1. k \in Nat /\ l \in Nat /\ a[k] \in Nat
  OBVIOUS
<1>2. k < l => a[k] < a[l]
  OBVIOUS
<1>3. l < k => a[l] < a[k]
  OBVIOUS
<1>4. ~(a[k] < a[k])
  <2> DEFINE x == a[k]
  <2>1. x \in Nat
    BY <1>1
  <2> HIDE DEF x
  <2>2. ~(x < x)
    BY <2>1
  <2> QED BY <2>2 DEF x
<1>5. ~(k < l) /\ ~(l < k)
  BY <1>2, <1>3, <1>4
<1> QED BY <1>1, <1>5

LEMMA WithoutNone == ASSUME NEW a PROVE Stored!Without(a, <<>>) = a
BY DEF Stored!Without

LEMMA MembersAre == ASSUME NEW a PROVE Stored!ToSet(a) = Members(a)
BY DEF Stored!ToSet, Members

LEMMA Dropped ==
  ASSUME NEW list \in Seq(Nat), NEW limit \in Nat \ {0}
  PROVE  /\ Stored!Drop(list, limit) \in Seq(Nat) /\ Len(Stored!Drop(list, limit)) <= 1
         /\ Len(list) + 1 > limit => list # <<>> /\ Stored!Drop(list, limit) = <<Head(list)>>
         /\ ~(Len(list) + 1 > limit) => Stored!Drop(list, limit) = <<>>
<1>1. CASE Len(list) + 1 > limit
  <2>1. list # <<>> /\ Head(list) \in Nat
    BY <1>1
  <2>2. Stored!Drop(list, limit) = <<Head(list)>>
    BY <1>1 DEF Stored!Drop
  <2> QED BY <1>1, <2>1, <2>2
<1>2. CASE ~(Len(list) + 1 > limit)
  BY <1>2 DEF Stored!Drop
<1> QED BY <1>1, <1>2

\* The members of b at these places.
Picked(b, numbers) == [i \in DOMAIN numbers |-> b[numbers[i]]]

LEMMA PickedType ==
  ASSUME NEW b \in Seq(Int), NEW numbers \in Seq(Nat), Members(numbers) \subseteq DOMAIN b
  PROVE  /\ Picked(b, numbers) \in Seq(Int) /\ Len(Picked(b, numbers)) = Len(numbers)
         /\ \A i \in 1 .. Len(numbers) : Picked(b, numbers)[i] = b[numbers[i]]
<1>1. \A i \in 1 .. Len(numbers) : b[numbers[i]] \in Int
  BY DEF Members
<1>2. Picked(b, numbers) = [i \in 1 .. Len(numbers) |-> b[numbers[i]]]
  BY DEF Picked
<1> QED BY <1>1, <1>2

LEMMA PickedStays ==
  ASSUME NEW b \in Seq(Int), NEW c \in Int,
         NEW numbers \in Seq(Nat), Members(numbers) \subseteq DOMAIN b
  PROVE  Picked(Append(b, c), numbers) = Picked(b, numbers)
<1>1. \A i \in DOMAIN numbers : numbers[i] \in 1 .. Len(b)
  <2>1. \A i \in DOMAIN numbers : numbers[i] \in DOMAIN b
    BY DEF Members
  <2>2. DOMAIN b = 1 .. Len(b)
    OBVIOUS
  <2> QED BY <2>1, <2>2
<1>2. \A j \in 1 .. Len(b) : Append(b, c)[j] = b[j]
  OBVIOUS
<1> DEFINE more == Append(b, c)
<1> HIDE DEF more
<1>3. \A i \in DOMAIN numbers : more[numbers[i]] = b[numbers[i]]
  BY <1>1, <1>2 DEF more
<1>4. Picked(more, numbers) = Picked(b, numbers)
  BY <1>3 DEF Picked
<1> QED BY <1>4 DEF more

LEMMA PickedAppend ==
  ASSUME NEW b \in Seq(Int), NEW numbers \in Seq(Nat), Members(numbers) \subseteq DOMAIN b,
         NEW n \in DOMAIN b
  PROVE  Picked(b, Append(numbers, n)) = Append(Picked(b, numbers), b[n])
<1> DEFINE more == Append(numbers, n)
<1>1. n \in Nat /\ b[n] \in Int /\ Len(numbers) \in Nat
  OBVIOUS
<1>2. /\ more \in Seq(Nat) /\ Len(more) = Len(numbers) + 1 /\ more[Len(numbers) + 1] = n
      /\ \A i \in 1 .. Len(numbers) : more[i] = numbers[i]
  BY <1>1, AppendProperties
<1> HIDE DEF more
<1>3. /\ Picked(b, numbers) \in Seq(Int) /\ Len(Picked(b, numbers)) = Len(numbers)
      /\ \A i \in 1 .. Len(numbers) : Picked(b, numbers)[i] = b[numbers[i]]
  BY PickedType
<1> DEFINE p == Append(Picked(b, numbers), b[n])
<1>4. /\ p \in Seq(Int) /\ Len(p) = Len(numbers) + 1 /\ p[Len(numbers) + 1] = b[n]
      /\ \A i \in 1 .. Len(numbers) : p[i] = b[numbers[i]]
  BY <1>1, <1>3, AppendProperties
<1>5. Members(more) \subseteq DOMAIN b
  <2> SUFFICES ASSUME NEW i \in 1 .. Len(numbers) + 1 PROVE more[i] \in DOMAIN b
    BY <1>2 DEF Members
  <2>1. CASE i = Len(numbers) + 1
    BY <1>2, <2>1
  <2>2. CASE i \in 1 .. Len(numbers)
    <3>1. numbers[i] \in DOMAIN b
      BY <2>2 DEF Members
    <3> QED BY <1>2, <2>2, <3>1
  <2> QED BY <1>1, <2>1, <2>2
<1>6. /\ Picked(b, more) \in Seq(Int) /\ Len(Picked(b, more)) = Len(numbers) + 1
      /\ \A i \in 1 .. Len(numbers) + 1 : Picked(b, more)[i] = b[more[i]]
  <2>1. /\ Picked(b, more) \in Seq(Int) /\ Len(Picked(b, more)) = Len(more)
        /\ \A i \in 1 .. Len(more) : Picked(b, more)[i] = b[more[i]]
    BY <1>2, <1>5, PickedType
  <2> QED BY <1>2, <2>1
<1> HIDE DEF p
<1>7. ASSUME NEW i \in 1 .. Len(numbers) + 1 PROVE Picked(b, more)[i] = p[i]
  <2>1. CASE i = Len(numbers) + 1
    BY <1>2, <1>4, <1>6, <2>1
  <2>2. CASE i \in 1 .. Len(numbers)
    BY <1>2, <1>4, <1>6, <2>2
  <2> QED BY <1>1, <2>1, <2>2
<1>8. Picked(b, more) = p
  BY <1>4, <1>6, <1>7, SeqEqual
<1> QED BY <1>8 DEF more, p

LEMMA PickedTail ==
  ASSUME NEW b \in Seq(Int), NEW numbers \in Seq(Nat), Members(numbers) \subseteq DOMAIN b,
         numbers # <<>>
  PROVE  /\ Picked(b, Tail(numbers)) = Tail(Picked(b, numbers))
         /\ Picked(b, numbers) # <<>>
         /\ Head(Picked(b, numbers)) = b[Head(numbers)] /\ Head(numbers) \in DOMAIN b
         /\ Tail(numbers) \in Seq(Nat) /\ Members(Tail(numbers)) \subseteq DOMAIN b
<1> DEFINE rest == Tail(numbers)
           p == Picked(b, numbers)
<1>1. Len(numbers) \in Nat \ {0}
  BY EmptySeq
<1>2. /\ rest \in Seq(Nat) /\ Len(rest) = Len(numbers) - 1
      /\ \A i \in 1 .. Len(numbers) - 1 : rest[i] = numbers[i + 1]
  BY HeadTailProperties
<1>3. /\ p \in Seq(Int) /\ Len(p) = Len(numbers)
      /\ \A i \in 1 .. Len(numbers) : p[i] = b[numbers[i]]
  BY PickedType
<1> HIDE DEF p, rest
<1>4. p # <<>> /\ Head(p) = p[1] /\ Head(numbers) = numbers[1] /\ 1 \in 1 .. Len(numbers)
  BY <1>1, <1>3
<1>5. Head(p) = b[Head(numbers)] /\ Head(numbers) \in DOMAIN b
  <2>1. numbers[1] \in Members(numbers)
    BY <1>4 DEF Members
  <2> QED BY <1>3, <1>4, <2>1
<1>6. /\ Tail(p) \in Seq(Int) /\ Len(Tail(p)) = Len(numbers) - 1
      /\ \A i \in 1 .. Len(numbers) - 1 : Tail(p)[i] = p[i + 1]
  <2>1. /\ Tail(p) \in Seq(Int) /\ Len(Tail(p)) = Len(p) - 1
        /\ \A i \in 1 .. Len(Tail(p)) : Tail(p)[i] = p[i + 1]
    BY <1>3, <1>4, HeadTailProperties
  <2> QED BY <1>3, <2>1
<1>7. Members(rest) \subseteq DOMAIN b
  <2> SUFFICES ASSUME NEW i \in 1 .. Len(numbers) - 1 PROVE rest[i] \in DOMAIN b
    <3>1. DOMAIN rest = 1 .. Len(numbers) - 1
      BY <1>1, <1>2
    <3> QED BY <3>1 DEF Members
  <2>1. i + 1 \in DOMAIN numbers
    BY <1>1
  <2> QED BY <1>2, <2>1 DEF Members
<1>8. /\ Picked(b, rest) \in Seq(Int) /\ Len(Picked(b, rest)) = Len(numbers) - 1
      /\ \A i \in 1 .. Len(numbers) - 1 : Picked(b, rest)[i] = b[rest[i]]
  <2>1. /\ Picked(b, rest) \in Seq(Int) /\ Len(Picked(b, rest)) = Len(rest)
        /\ \A i \in 1 .. Len(rest) : Picked(b, rest)[i] = b[rest[i]]
    BY <1>2, <1>7, PickedType
  <2> QED BY <1>2, <2>1
<1>9. ASSUME NEW i \in 1 .. Len(numbers) - 1 PROVE Picked(b, rest)[i] = Tail(p)[i]
  <2>1. i + 1 \in 1 .. Len(numbers)
    BY <1>1
  <2> QED BY <1>2, <1>3, <1>6, <1>8, <2>1
<1>10. Picked(b, rest) = Tail(p)
  BY <1>6, <1>8, <1>9, SeqEqual
<1> QED BY <1>2, <1>4, <1>5, <1>7, <1>10 DEF p, rest

LEMMA TotalOne == ASSUME NEW x \in Int PROVE Total(<<x>>) = x
<1>1. <<>> \in Seq(Int) /\ Append(<<>>, x) = <<x>>
  OBVIOUS
<1>2. Total(Append(<<>>, x)) = Total(<<>>) + x
  BY <1>1, TotalAppend
<1> QED BY <1>1, <1>2, TotalEmpty

\* The amounts of the bookings, and those of some of them.
BookedAmounts == [n \in DOMAIN booked |-> booked[n].amount]

LEMMA AmountsArePicked ==
  ASSUME RowsInv, NEW numbers \in Seq(Nat), Members(numbers) \subseteq DOMAIN booked
  PROVE  /\ BookedAmounts \in Seq(Int) /\ DOMAIN BookedAmounts = DOMAIN booked
         /\ Len(BookedAmounts) = Len(booked)
         /\ Stored!AmountsOf(numbers) = Picked(BookedAmounts, numbers)
         /\ Stored!AmountsOf(numbers) \in Seq(Int)
         /\ Len(Stored!AmountsOf(numbers)) = Len(numbers)
<1>1. booked \in Seq(Entries) /\ DOMAIN booked = 1 .. Len(booked) /\ Len(booked) \in Nat
  BY DEF RowsInv
<1>2. \A n \in DOMAIN booked : booked[n].amount \in Int
  <2>1. \A n \in DOMAIN booked : booked[n] \in Entries
    BY <1>1
  <2> QED BY <2>1 DEF Entries
<1>3. /\ BookedAmounts \in Seq(Int) /\ DOMAIN BookedAmounts = DOMAIN booked
      /\ Len(BookedAmounts) = Len(booked)
      /\ \A n \in DOMAIN booked : BookedAmounts[n] = booked[n].amount
  <2>1. BookedAmounts = [n \in 1 .. Len(booked) |-> booked[n].amount]
    BY <1>1 DEF BookedAmounts
  <2>2. \A n \in 1 .. Len(booked) : booked[n].amount \in Int
    BY <1>1, <1>2
  <2> QED BY <1>1, <2>1, <2>2
<1>4. Stored!AmountsOf(numbers) = Picked(BookedAmounts, numbers)
  <2>1. \A i \in DOMAIN numbers : BookedAmounts[numbers[i]] = booked[numbers[i]].amount
    BY <1>3 DEF Members
  <2> QED BY <2>1 DEF Stored!AmountsOf, Picked
<1>5. Picked(BookedAmounts, numbers) \in Seq(Int) /\ Len(Picked(BookedAmounts, numbers)) = Len(numbers)
  BY <1>3, PickedType
<1> QED BY <1>3, <1>4, <1>5

LEMMA NumbersAreBooked ==
  ASSUME RowsInv
  PROVE  /\ Members(storedRows) \subseteq DOMAIN booked
         /\ Members(storedArchived) \subseteq DOMAIN booked
         /\ \A i, j \in 1 .. Len(storedRows) : storedRows[i] = storedRows[j] => i = j
<1>1. /\ DOMAIN booked = 1 .. Len(booked) /\ DOMAIN storedRows = 1 .. Len(storedRows)
      /\ DOMAIN storedArchived = 1 .. Len(storedArchived)
      /\ Len(booked) \in Nat /\ Len(storedRows) \in Nat /\ Len(storedArchived) \in Nat
      /\ Len(storedArchived) + Len(storedRows) = Len(booked)
      /\ \A i \in 1 .. Len(storedArchived) : storedArchived[i] = i
      /\ \A i \in 1 .. Len(storedRows) : storedRows[i] = Len(storedArchived) + i
  BY DEF RowsInv
<1>2. \A i \in 1 .. Len(storedRows) : storedRows[i] \in 1 .. Len(booked)
  BY <1>1
<1>3. \A i \in 1 .. Len(storedArchived) : storedArchived[i] \in 1 .. Len(booked)
  BY <1>1
<1>4. \A i, j \in 1 .. Len(storedRows) : storedRows[i] = storedRows[j] => i = j
  BY <1>1
<1> QED BY <1>1, <1>2, <1>3, <1>4 DEF Members

(***************************************************************************)
(* Initial states, and the steps that write nothing.                       *)
(***************************************************************************)
LEMMA FormsDiffer ==
  ASSUME NEW r \in Forms
  PROVE  /\ r.at = "loaded" => r \in LoadedRequests /\ r # Stored!Idle /\ r \notin BookedRequests
         /\ r.at = "booked" => r \in BookedRequests /\ r # Stored!Idle
         /\ r \in BookedRequests => r.at = "booked" /\ r # Stored!Idle
         /\ r = Stored!Idle => r \notin BookedRequests
BY DEF Forms, LoadedRequests, BookedRequests, Stored!Idle

LEMMA IdleIsSound == Stored!Idle \in Forms /\ Sound(Stored!Idle) /\ Stored!Idle \notin BookedRequests
<1>1. Stored!Idle \notin BookedRequests
  BY DEF Stored!Idle, BookedRequests
<1> QED BY <1>1 DEF Forms, Sound, Deletes, FollowsPaid, Knows

LEMMA StoredInvInit == Stored!Init => StoredInv
<1> SUFFICES ASSUME Stored!Init PROVE StoredInv
  OBVIOUS
<1> USE DEF Stored!Init
<1>1. request \in [Sessions -> Forms] /\ \A s \in Sessions : Sound(request[s])
  BY IdleIsSound
<1>2. RowsInv
  BY DEF RowsInv
<1>3. PaidInv
  BY StoredFacts DEF PaidInv, Paying, Stored!DueDatesPaidOnce
<1>4. ToldInv
  BY StoredFacts DEF ToldInv, Members, Withdrawing
<1>5. Stored!OnlyMissedCommitsHarm
  <2>1. Stored!AmountsOf(storedArchived) = <<>>
    BY DEF Stored!AmountsOf
  <2> QED BY <2>1, StoredFacts, SameTotal, TotalEmpty DEF Stored!OnlyMissedCommitsHarm
<1> QED BY <1>1, <1>2, <1>3, <1>4, <1>5 DEF StoredInv

LEMMA SoundSame ==
  ASSUME UNCHANGED <<Stored!database, Stored!history>>, NEW q
  PROVE  Sound(q)' <=> Sound(q)
<1> USE DEF Stored!database, Stored!history
<1>1. Stored!Refused(q)' <=> Stored!Refused(q)
  BY DEF Stored!Refused, Stored!Taken, Stored!BalanceRead, Stored!AmountsOf, Stored!A!Total
<1>2. (q \in BookedRequests)' <=> q \in BookedRequests
  BY DEF BookedRequests, Stored!Kinds
<1>3. /\ Stored!Drop(storedRows, StoredTransactions)' = Stored!Drop(storedRows, StoredTransactions)
      /\ Stored!Drop(messages, MaxMessages)' = Stored!Drop(messages, MaxMessages)
  BY DEF Stored!Drop
<1>4. Knows(q)' <=> Knows(q)
  BY <1>1, <1>2, <1>3 DEF Knows, Stored!Idle
<1>5. Deletes(q)' <=> Deletes(q)
  BY <1>2 DEF Deletes
<1>6. FollowsPaid(q)' <=> FollowsPaid(q)
  BY DEF FollowsPaid, Paying, Stored!Idle
<1> QED BY <1>4, <1>5, <1>6 DEF Sound

LEMMA NothingWritten ==
  ASSUME StoredInv, UNCHANGED <<Stored!database, Stored!history>>,
         request' \in [Sessions -> Forms], \A s \in Sessions : Sound(request'[s])
  PROVE  StoredInv'
<1> USE DEF Stored!database, Stored!history
<1>1. RowsInv' /\ PaidInv'
  BY DEF StoredInv, RowsInv, PaidInv, Paying, Entries, Stored!Kinds, Stored!DueDatesPaidOnce
<1>2. ToldInv'
  BY DEF StoredInv, ToldInv, Members, Withdrawing, Stored!Missed
<1>3. Stored!OnlyMissedCommitsHarm'
  BY DEF StoredInv, Stored!OnlyMissedCommitsHarm, Stored!Missed, Stored!AmountsOf, Stored!A!Total
<1>4. \A s \in Sessions : Sound(request[s])'
  <2> SUFFICES ASSUME NEW s \in Sessions PROVE Sound(request[s])'
    OBVIOUS
  <2> DEFINE q == request[s]
  <2>1. Sound(q')
    OBVIOUS
  <2>2. /\ (q' \in BookedRequests <=> (q \in BookedRequests)') /\ (q' # Stored!Idle <=> (q # Stored!Idle)')
        /\ (Stored!Refused(q') <=> Stored!Refused(q)')
    BY DEF BookedRequests, Stored!Kinds, Stored!Idle, Stored!Refused, Stored!Taken, Stored!BalanceRead,
           Stored!AmountsOf, Stored!A!Total
  <2>3. /\ Stored!Drop(storedRows, StoredTransactions)' = Stored!Drop(storedRows, StoredTransactions)
        /\ Stored!Drop(messages, MaxMessages)' = Stored!Drop(messages, MaxMessages)
    BY DEF Stored!Drop
  <2>4. Knows(q)'
    BY <2>1, <2>2, <2>3 DEF Sound, Knows
  <2>5. Deletes(q)'
    BY <2>1, <2>2 DEF Sound, Deletes
  <2>6. FollowsPaid(q)'
    BY <2>1, <2>2 DEF Sound, FollowsPaid, Paying
  <2> QED BY <2>4, <2>5, <2>6 DEF Sound
<1>5. (request \in [Sessions -> Forms])'
  BY DEF Forms, LoadedRequests, BookedRequests, Stored!Kinds, Stored!Idle, Stored!AmountsFor
<1> QED BY <1>1, <1>2, <1>3, <1>4, <1>5 DEF StoredInv

LEMMA PutKeeps ==
  ASSUME StoredInv, UNCHANGED <<Stored!database, Stored!history>>,
         NEW s \in Sessions, NEW r \in Forms, Sound(r), Stored!Put(s, r)
  PROVE  StoredInv'
<1>1. request' = [request EXCEPT ![s] = r] /\ request \in [Sessions -> Forms]
  BY DEF Stored!Put, StoredInv
<1>2. request' \in [Sessions -> Forms] /\ \A t \in Sessions : request'[t] = IF t = s THEN r ELSE request[t]
  BY <1>1
<1>3. \A t \in Sessions : Sound(request'[t])
  BY <1>2 DEF StoredInv
<1> QED BY <1>2, <1>3, NothingWritten

LEMMA LoadKeeps ==
  ASSUME StoredInv, NEW s \in Sessions, NEW kind \in Stored!Kinds,
         NEW amount \in Stored!AmountsFor(kind), Stored!LoadAccount(s, kind, amount)
  PROVE  StoredInv'
<1> DEFINE r == [at |-> "loaded", kind |-> kind, amount |-> amount, old |-> storedOld,
                 due |-> nextDue, missed |-> FALSE]
<1>1. /\ Stored!Put(s, r) /\ UNCHANGED <<Stored!database, Stored!history>>
      /\ kind = "Schedule" => nextDue <= Dues
  BY DEF Stored!LoadAccount
<1>2. /\ amount \in Int /\ storedOld \in Int /\ nextDue \in 1 .. Dues + 1
  BY StoredFacts DEF StoredInv, RowsInv, PaidInv
<1>3. r \in LoadedRequests /\ r \notin BookedRequests /\ r # Stored!Idle
  BY <1>2 DEF LoadedRequests, BookedRequests, Stored!Idle
<1>4. r \in Forms
  BY <1>1, <1>3 DEF Forms
<1>5. FollowsPaid(r)
  BY DEF FollowsPaid, StoredInv, PaidInv, Paying, Stored!DueDatesPaidOnce
<1>6. Sound(r)
  BY <1>3, <1>5 DEF Sound, Deletes, Knows
<1> HIDE DEF r
<1> QED BY <1>1, <1>4, <1>6, PutKeeps

LEMMA RollBackKeeps == ASSUME StoredInv, NEW s \in Sessions, Stored!RollBack(s) PROVE StoredInv'
BY IdleIsSound, PutKeeps DEF Stored!RollBack

LEMMA BookKeeps == ASSUME StoredInv, NEW s \in Sessions, Stored!Book(s) PROVE StoredInv'
<1> DEFINE r == request[s]
           message == IF r.kind = "Withdraw" THEN Stored!Drop(messages, MaxMessages) ELSE <<>>
           b == [at |-> "booked", kind |-> r.kind, amount |-> r.amount, old |-> r.old, due |-> r.due,
                 missed |-> r.missed, drop |-> Stored!Drop(storedRows, StoredTransactions),
                 dropMessage |-> message]
<1>1. /\ r.at = "loaded" /\ Stored!Put(s, IF Stored!Refused(r) THEN Stored!Idle ELSE b)
      /\ UNCHANGED <<Stored!database, Stored!history>>
  BY DEF Stored!Book
<1>2. r \in Forms /\ Sound(r) /\ RowsInv /\ ToldInv
  BY DEF StoredInv
<1>3. r \in LoadedRequests /\ r # Stored!Idle
  BY <1>1, <1>2, FormsDiffer
<1>4. CASE Stored!Refused(r)
  BY <1>1, <1>4, IdleIsSound, PutKeeps
<1>5. CASE ~Stored!Refused(r)
  <2>1. /\ storedRows \in Seq(Nat) /\ messages \in Seq(Nat) /\ told \in Seq(Nat)
        /\ Len(storedRows) \in Nat /\ Len(messages) \in Nat /\ Len(told) \in Nat /\ Len(storedArchived) \in Nat
    BY <1>2 DEF RowsInv, ToldInv
  <2>2. b.drop \in Seq(Nat) /\ b.dropMessage \in Seq(Nat)
    <3>1. Stored!Drop(storedRows, StoredTransactions) \in Seq(Nat) /\ Stored!Drop(messages, MaxMessages) \in Seq(Nat)
      BY <2>1, StoredFacts, Dropped
    <3> QED BY <3>1
  <2>3. b \in BookedRequests
    BY <1>3, <2>2 DEF BookedRequests, LoadedRequests
  <2>4. b \in Forms /\ b # Stored!Idle
    <3>1. b # Stored!Idle
      BY DEF Stored!Idle
    <3> QED BY <1>2, <1>3, <2>3, <3>1 DEF Forms
  <2>5. FollowsPaid(b)
    BY <1>2, <1>3 DEF Sound, FollowsPaid
  <2>6. Knows(b)
    <3>1. Stored!Refused(b) <=> Stored!Refused(r)
      BY DEF Stored!Refused, Stored!Taken, Stored!BalanceRead
    <3> QED BY <1>2, <1>3, <1>5, <3>1 DEF Sound, Knows
  <2>7. Deletes(b)
    <3>1. b.drop = <<>> \/ \E n \in 1 .. Len(storedArchived) + 1 : b.drop = <<n>>
      <4>1. CASE Len(storedRows) + 1 > StoredTransactions
        <5>1. storedRows # <<>> /\ b.drop = <<Head(storedRows)>>
          BY <2>1, <4>1, StoredFacts, Dropped
        <5>2. Head(storedRows) = Len(storedArchived) + 1
          <6>1. 1 \in 1 .. Len(storedRows) /\ Head(storedRows) = storedRows[1]
            BY <2>1, <5>1, EmptySeq
          <6> QED BY <1>2, <6>1 DEF RowsInv
        <5> QED BY <2>1, <5>1, <5>2
      <4>2. CASE ~(Len(storedRows) + 1 > StoredTransactions)
        BY <2>1, <4>2, StoredFacts, Dropped
      <4> QED BY <4>1, <4>2
    <3>2. \/ b.dropMessage = <<>>
          \/ /\ Len(messages) >= MaxMessages
             /\ \E j \in 1 .. Len(told) - Len(messages) + 1 : j <= Len(told) /\ b.dropMessage = <<told[j]>>
      <4>1. CASE r.kind = "Withdraw" /\ Len(messages) + 1 > MaxMessages
        <5>1. messages # <<>> /\ b.dropMessage = <<Head(messages)>>
          BY <2>1, <4>1, StoredFacts, Dropped
        <5>2. 1 \in 1 .. Len(messages) /\ Head(messages) = messages[1]
          BY <2>1, <5>1, EmptySeq
        <5> DEFINE j == Len(told) - Len(messages) + 1
        <5>3. Head(messages) = told[j] /\ j \in 1 .. j /\ j <= Len(told)
          BY <1>2, <2>1, <5>2 DEF ToldInv
        <5>4. Len(messages) >= MaxMessages
          BY <2>1, <4>1, StoredFacts
        <5> HIDE DEF b, message
        <5>5. b.dropMessage = <<told[j]>>
          BY <5>1, <5>3
        <5> QED BY <5>3, <5>4, <5>5
      <4>2. CASE ~(r.kind = "Withdraw" /\ Len(messages) + 1 > MaxMessages)
        <5>1. r.kind = "Withdraw" => Stored!Drop(messages, MaxMessages) = <<>>
          BY <2>1, <4>2, StoredFacts, Dropped
        <5>2. b.dropMessage = message
          OBVIOUS
        <5> QED BY <5>1, <5>2
      <4> QED BY <4>1, <4>2
    <3> QED BY <3>1, <3>2 DEF Deletes
  <2>8. Sound(b)
    BY <2>5, <2>6, <2>7 DEF Sound
  <2>9. Stored!Put(s, b)
    BY <1>1, <1>5
  <2> HIDE DEF b
  <2> QED BY <1>1, <2>4, <2>8, <2>9, PutKeeps
<1> QED BY <1>4, <1>5

(***************************************************************************)
(* The commit.                                                             *)
(***************************************************************************)
\* What a commit finds, and what it writes.
LEMMA CommitFinds ==
  ASSUME StoredInv, NEW s \in Sessions, Stored!Commit(s)
  PROVE  LET r == request[s]
             e == Stored!Record(r)
             n == Len(booked) + 1
         IN /\ r \in BookedRequests /\ r # Stored!Idle /\ r \in Forms /\ Sound(r)
            /\ ~Stored!Stale(r)
            /\ e \in Entries /\ e.kind = r.kind /\ e.due = r.due /\ e.missed = r.missed
            /\ e.amount = Stored!Change(r) /\ e.amount \in Int
            /\ booked' = Append(booked, e) /\ booked' \in Seq(Entries)
            /\ Len(booked') = n /\ n \in Nat /\ booked'[n] = e
            /\ DOMAIN booked' = DOMAIN booked \cup {n} /\ n \notin DOMAIN booked
            /\ \A i \in DOMAIN booked : booked'[i] = booked[i] /\ i \in Nat /\ i < n
            /\ nextDue' = IF r.kind = "Schedule" THEN r.due + 1 ELSE nextDue
<1> DEFINE r == request[s]
           e == Stored!Record(r)
           n == Len(booked) + 1
<1>1. /\ r.at = "booked" /\ ~Stored!Stale(r) /\ r \in Forms /\ Sound(r)
      /\ booked' = Append(booked, e)
      /\ nextDue' = IF r.kind = "Schedule" THEN r.due + 1 ELSE nextDue
  BY DEF Stored!Commit, Stored!WriteAccount, Stored!WriteSchedule, StoredInv
<1>2. r \in BookedRequests /\ r # Stored!Idle
  BY <1>1, FormsDiffer
<1>3. r.amount \in Int /\ Stored!Change(r) \in Int /\ r.kind \in Stored!Kinds /\ r.due \in 1 .. Dues + 1
      /\ r.missed \in BOOLEAN
  BY <1>2 DEF BookedRequests, Stored!Change
<1>4. e = [kind |-> r.kind, amount |-> Stored!Change(r), due |-> r.due, missed |-> r.missed]
  BY DEF Stored!Record
<1>5. /\ e \in Entries /\ e.kind = r.kind /\ e.due = r.due /\ e.missed = r.missed
      /\ e.amount = Stored!Change(r)
  <2> HIDE DEF r
  <2> QED BY <1>3, <1>4 DEF Entries
<1> HIDE DEF e, r
<1>6. booked \in Seq(Entries)
  BY DEF StoredInv, RowsInv
<1>7. /\ Append(booked, e) \in Seq(Entries) /\ Len(Append(booked, e)) = n /\ Len(booked) \in Nat
      /\ Append(booked, e)[n] = e
      /\ \A i \in 1 .. Len(booked) : Append(booked, e)[i] = booked[i]
      /\ DOMAIN Append(booked, e) = 1 .. n /\ DOMAIN booked = 1 .. Len(booked)
  BY <1>5, <1>6, AppendAt
<1>8. 1 .. n = 1 .. Len(booked) \cup {n} /\ n \in Nat /\ \A i \in 1 .. Len(booked) : i \in Nat /\ i < n
  BY <1>7
<1>9. n \notin 1 .. Len(booked)
  BY <1>7
<1> QED BY <1>1, <1>2, <1>3, <1>5, <1>7, <1>8, <1>9 DEF e, r

\* The commit takes the oldest row or none, and adds one.
LEMMA CommitRows ==
  ASSUME StoredInv, NEW s \in Sessions, Stored!Commit(s)
  PROVE  LET r == request[s]
             n == Len(booked) + 1
         IN \/ /\ r.drop = <<>> /\ storedOld' = storedOld
               /\ storedRows' = Append(storedRows, n) /\ storedArchived' = storedArchived
            \/ /\ storedRows # <<>> /\ r.drop = <<Head(storedRows)>>
               /\ Head(storedRows) \in DOMAIN booked
               /\ storedOld' = r.old + booked[Head(storedRows)].amount
               /\ storedRows' = Append(Tail(storedRows), n)
               /\ storedArchived' = Append(storedArchived, Head(storedRows))
<1> DEFINE r == request[s]
           n == Len(booked) + 1
           h == Head(storedRows)
<1>1. /\ storedRows' = Append(Stored!Without(storedRows, r.drop), n)
      /\ storedArchived' = storedArchived \o r.drop
      /\ storedOld' = IF r.drop = <<>> THEN storedOld
                      ELSE r.old + Total(Stored!AmountsOf(r.drop))
  BY SameTotal DEF Stored!Commit, Stored!WriteAccount, Stored!Number
<1>2. /\ r \in BookedRequests /\ ~Stored!Stale(r)
      /\ r.drop = <<>> \/ \E k \in 1 .. Len(storedArchived) + 1 : r.drop = <<k>>
  BY CommitFinds DEF Sound, Deletes
<1>3. RowsInv /\ storedRows \in Seq(Nat) /\ storedArchived \in Seq(Nat)
  BY DEF StoredInv, RowsInv
<1> HIDE DEF r
<1>4. CASE r.drop = <<>>
  <2>1. Stored!Without(storedRows, r.drop) = storedRows /\ storedArchived \o r.drop = storedArchived
    BY <1>3, <1>4, WithoutNone, ConcatEmptySeq
  <2> QED BY <1>1, <1>4, <2>1 DEF r
<1>5. ASSUME NEW k \in 1 .. Len(storedArchived) + 1, r.drop = <<k>>
      PROVE  /\ storedRows # <<>> /\ r.drop = <<h>> /\ h \in DOMAIN booked
             /\ storedOld' = r.old + booked[h].amount
             /\ storedRows' = Append(Tail(storedRows), n)
             /\ storedArchived' = Append(storedArchived, h)
  <2>1. k \in Members(storedRows)
    <3>1. Members(r.drop) = {k}
      BY <1>5 DEF Members
    <3> QED BY <1>2, <3>1, MembersAre DEF Stored!Stale
  <2>2. PICK i \in 1 .. Len(storedRows) : storedRows[i] = k
    BY <1>3, <2>1 DEF Members
  <2>3. i = 1
    BY <1>3, <1>5, <2>2 DEF RowsInv
  <2>4. storedRows # <<>> /\ h = k
    <3>1. 1 \in 1 .. Len(storedRows) /\ storedRows[1] = k
      BY <2>2, <2>3
    <3> QED BY <1>3, <3>1
  <2>5. h \in Members(storedRows) /\ h \in DOMAIN booked /\ h \in Nat
    BY <1>3, <1>5, <2>1, <2>4, NumbersAreBooked
  <2>6. Stored!Without(storedRows, <<h>>) = Tail(storedRows)
    BY <1>3, <2>4, NumbersAreBooked, WithoutHead
  <2>7. storedArchived \o <<h>> = Append(storedArchived, h)
    BY <1>3, <2>5, AppendIsConcat
  <2>8. Total(Stored!AmountsOf(<<h>>)) = booked[h].amount
    <3>1. Stored!AmountsOf(<<h>>) = <<booked[h].amount>>
      BY DEF Stored!AmountsOf
    <3>2. booked[h] \in Entries
      BY <1>3, <2>5 DEF RowsInv
    <3>3. booked[h].amount \in Int
      BY <3>2 DEF Entries
    <3> QED BY <3>1, <3>3, TotalOne
  <2>9. r.drop = <<h>> /\ r.drop # <<>>
    BY <1>5, <2>4
  <2> HIDE DEF h
  <2> QED BY <1>1, <2>4, <2>5, <2>6, <2>7, <2>8, <2>9
<1> QED BY <1>2, <1>4, <1>5 DEF r

LEMMA CommitKeepsRows ==
  ASSUME StoredInv, NEW s \in Sessions, Stored!Commit(s)
  PROVE  RowsInv' /\ Len(storedArchived) <= Len(storedArchived')
<1> DEFINE r == request[s]
           n == Len(booked) + 1
           h == Head(storedRows)
           a == Len(storedArchived)
           k == Len(storedRows)
<1>1. RowsInv /\ storedRows \in Seq(Nat) /\ storedArchived \in Seq(Nat) /\ booked \in Seq(Entries)
  BY DEF StoredInv, RowsInv
<1>2. /\ a \in Nat /\ k \in Nat /\ Len(booked) \in Nat /\ a + k = Len(booked) /\ storedOld \in Int
      /\ \A i \in 1 .. a : storedArchived[i] = i
      /\ \A i \in 1 .. k : storedRows[i] = a + i
  BY <1>1 DEF RowsInv
<1>3. booked' \in Seq(Entries) /\ Len(booked') = n /\ n \in Nat /\ r \in BookedRequests
  BY CommitFinds
<1>4. r.old \in Int
  BY <1>3 DEF BookedRequests
<1> SUFFICES /\ storedOld' \in Int
             /\ storedRows' \in Seq(Nat) /\ storedArchived' \in Seq(Nat)
             /\ Len(storedArchived') + Len(storedRows') = n /\ a <= Len(storedArchived')
             /\ \A i \in 1 .. Len(storedArchived') : storedArchived'[i] = i
             /\ \A i \in 1 .. Len(storedRows') : storedRows'[i] = Len(storedArchived') + i
  <2>1. Entries' = Entries
    BY DEF Entries, Stored!Kinds
  <2> QED BY <1>3, <2>1 DEF RowsInv
<1> HIDE DEF r
<1>5. CASE /\ r.drop = <<>> /\ storedOld' = storedOld
           /\ storedRows' = Append(storedRows, n) /\ storedArchived' = storedArchived
  <2>1. /\ storedRows' \in Seq(Nat) /\ Len(storedRows') = k + 1 /\ storedRows'[k + 1] = n
        /\ \A i \in 1 .. k : storedRows'[i] = storedRows[i]
    BY <1>1, <1>3, <1>5, AppendAt
  <2>2. ASSUME NEW i \in 1 .. k + 1 PROVE storedRows'[i] = a + i
    <3>1. i \in 1 .. k \/ i = k + 1
      BY <1>2
    <3> HIDE DEF a, k, n
    <3>2. a + (k + 1) = n
      BY <1>2 DEF n
    <3> QED BY <1>2, <2>1, <3>1, <3>2
  <2>3. a + (k + 1) = n
    BY <1>2
  <2> HIDE DEF a, k, n
  <2> QED BY <1>1, <1>2, <1>5, <2>1, <2>2, <2>3 DEF a
<1>6. CASE /\ storedRows # <<>> /\ r.drop = <<h>>
           /\ h \in DOMAIN booked
           /\ storedOld' = r.old + booked[h].amount
           /\ storedRows' = Append(Tail(storedRows), n)
           /\ storedArchived' = Append(storedArchived, h)
  <2>1. /\ storedRows' \in Seq(Nat) /\ Len(storedRows') = k /\ storedRows'[k] = n /\ k \in Nat \ {0}
        /\ \A i \in 1 .. k - 1 : storedRows'[i] = storedRows[i + 1]
    BY <1>1, <1>3, <1>6, AppendTail
  <2>2. h = a + 1 /\ h \in Nat
    <3>1. h = storedRows[1] /\ 1 \in 1 .. k
      BY <1>1, <2>1
    <3> QED BY <1>2, <3>1
  <2>3. /\ storedArchived' \in Seq(Nat) /\ Len(storedArchived') = a + 1 /\ storedArchived'[a + 1] = h
        /\ \A i \in 1 .. a : storedArchived'[i] = storedArchived[i]
    BY <1>1, <1>6, <2>2, AppendAt
  <2>4. booked[h] \in Entries /\ booked[h].amount \in Int
    <3>1. booked[h] \in Entries
      BY <1>1, <1>6
    <3> QED BY <3>1 DEF Entries
  <2>5. storedOld' \in Int
    BY <1>4, <1>6, <2>4
  <2> HIDE DEF a, k, h
  <2>6. ASSUME NEW i \in 1 .. a + 1 PROVE storedArchived'[i] = i
    <3>1. i \in 1 .. a \/ i = a + 1
      BY <1>2
    <3> QED BY <1>2, <2>2, <2>3, <3>1
  <2>7. ASSUME NEW i \in 1 .. k PROVE storedRows'[i] = (a + 1) + i
    <3>1. CASE i = k
      <4>1. (a + 1) + k = n
        BY <1>2 DEF n
      <4> QED BY <2>1, <3>1, <4>1
    <3>2. CASE i \in 1 .. k - 1
      <4>1. i + 1 \in 1 .. k
        BY <2>1, <3>2
      <4>2. storedRows'[i] = a + (i + 1)
        BY <1>2, <2>1, <3>2, <4>1
      <4> QED BY <1>2, <3>2, <4>2
    <3> QED BY <2>1, <3>1, <3>2
  <2>8. (a + 1) + k = n /\ a <= a + 1
    BY <1>2
  <2> HIDE DEF n
  <2> QED BY <2>1, <2>3, <2>5, <2>6, <2>7, <2>8
<1>7. \/ /\ r.drop = <<>> /\ storedOld' = storedOld
         /\ storedRows' = Append(storedRows, n) /\ storedArchived' = storedArchived
      \/ /\ storedRows # <<>> /\ r.drop = <<h>> /\ h \in DOMAIN booked
         /\ storedOld' = r.old + booked[h].amount
         /\ storedRows' = Append(Tail(storedRows), n)
         /\ storedArchived' = Append(storedArchived, h)
  BY CommitRows DEF r
<1> QED BY <1>5, <1>6, <1>7

\* The payments of a schedule that a commit adds to.
LEMMA CommitPaying ==
  ASSUME StoredInv, NEW s \in Sessions, Stored!Commit(s)
  PROVE  LET r == request[s]
             n == Len(booked) + 1
         IN /\ Paying' = IF r.kind = "Schedule" THEN Paying \cup {n} ELSE Paying
            /\ Withdrawing' = IF r.kind = "Withdraw" THEN Withdrawing \cup {n} ELSE Withdrawing
            /\ Stored!Missed' = IF r.missed THEN Stored!Missed \cup {n} ELSE Stored!Missed
<1> DEFINE r == request[s]
           n == Len(booked) + 1
<1>1. /\ DOMAIN booked' = DOMAIN booked \cup {n} /\ n \notin DOMAIN booked
      /\ \A i \in DOMAIN booked : booked'[i] = booked[i]
      /\ booked'[n].kind = r.kind /\ booked'[n].missed = r.missed
  BY CommitFinds
<1>2. /\ Paying' = {i \in DOMAIN booked' : booked'[i].kind = "Schedule"}
      /\ Withdrawing' = {i \in DOMAIN booked' : booked'[i].kind = "Withdraw"}
      /\ Stored!Missed' = {i \in DOMAIN booked' : booked'[i].missed}
  BY DEF Paying, Withdrawing, Stored!Missed
<1> HIDE DEF r, n
<1>3. Paying' = IF r.kind = "Schedule" THEN Paying \cup {n} ELSE Paying
  BY <1>1, <1>2 DEF Paying
<1>4. Withdrawing' = IF r.kind = "Withdraw" THEN Withdrawing \cup {n} ELSE Withdrawing
  BY <1>1, <1>2 DEF Withdrawing
<1>5. Stored!Missed' = IF r.missed THEN Stored!Missed \cup {n} ELSE Stored!Missed
  BY <1>1, <1>2 DEF Stored!Missed
<1> QED BY <1>3, <1>4, <1>5 DEF r, n

LEMMA CommitKeepsPaid ==
  ASSUME StoredInv, NEW s \in Sessions, Stored!Commit(s)
  PROVE  PaidInv'
<1> DEFINE r == request[s]
           n == Len(booked) + 1
<1>1. /\ r \in BookedRequests /\ r # Stored!Idle /\ r \in Forms /\ Sound(r)
      /\ booked'[n].due = r.due /\ booked'[n].missed = r.missed /\ n \in Nat
      /\ \A i \in DOMAIN booked : booked'[i] = booked[i] /\ i \in Nat /\ i < n
      /\ nextDue' = IF r.kind = "Schedule" THEN r.due + 1 ELSE nextDue
  BY CommitFinds
<1>2. /\ r.due \in 1 .. Dues + 1 /\ r.missed \in BOOLEAN /\ (r.kind = "Schedule" => r.due <= Dues)
  BY <1>1 DEF BookedRequests, Forms
<1>3. Paying' = IF r.kind = "Schedule" THEN Paying \cup {n} ELSE Paying
  BY CommitPaying
<1>4. /\ \A due \in 1 .. r.due - 1 : \E m \in Paying : booked[m].due = due
      /\ ~r.missed => r.due = nextDue
  BY <1>1 DEF Sound, FollowsPaid, Knows
<1>5. /\ nextDue \in 1 .. Dues + 1
      /\ \A due \in 1 .. nextDue - 1 : \E m \in Paying : booked[m].due = due
      /\ \A i, j \in Paying : i < j /\ booked[i].due = booked[j].due =>
           \E k \in Paying : i < k /\ k <= j /\ booked[k].missed
      /\ \A i \in Paying : booked[i].due >= nextDue => \E k \in Paying : i < k /\ booked[k].missed
  BY DEF StoredInv, PaidInv, Stored!DueDatesPaidOnce, Paying
<1>6. /\ Paying \subseteq DOMAIN booked /\ Dues \in Nat
      /\ \A i \in Paying : booked'[i] = booked[i] /\ i \in Nat /\ i < n /\ booked[i].due \in Nat
  <2>1. \A i \in DOMAIN booked : booked[i] \in Entries
    BY DEF StoredInv, RowsInv
  <2>2. \A i \in Paying : booked[i].due \in Nat
    BY <2>1, StoredFacts DEF Paying, Entries
  <2> QED BY <1>1, <2>2, StoredFacts DEF Paying
<1> SUFFICES /\ nextDue' \in 1 .. Dues + 1
             /\ \A due \in 1 .. nextDue' - 1 : \E m \in Paying' : booked'[m].due = due
             /\ \A i, j \in Paying' : i < j /\ booked'[i].due = booked'[j].due =>
                  \E k \in Paying' : i < k /\ k <= j /\ booked'[k].missed
             /\ \A i \in Paying' : booked'[i].due >= nextDue' => \E k \in Paying' : i < k /\ booked'[k].missed
  <2>1. Paying' = {m \in DOMAIN booked' : booked'[m].kind = "Schedule"}
    BY DEF Paying
  <2> QED BY <2>1 DEF PaidInv, Stored!DueDatesPaidOnce
<1> HIDE DEF r, n
<1>7. CASE r.kind # "Schedule"
  <2>1. Paying' = Paying /\ nextDue' = nextDue
    BY <1>1, <1>3, <1>7
  <2> QED BY <1>5, <1>6, <2>1
<1>8. CASE r.kind = "Schedule"
  <2>1. Paying' = Paying \cup {n} /\ nextDue' = r.due + 1 /\ r.due <= Dues
    BY <1>1, <1>2, <1>3, <1>8
  <2>2. nextDue' \in 1 .. Dues + 1
    BY <1>2, <1>6, <2>1
  <2>3. ASSUME NEW due \in 1 .. nextDue' - 1 PROVE \E m \in Paying' : booked'[m].due = due
    <3>1. due \in 1 .. r.due - 1 \/ due = r.due
      BY <1>2, <2>1
    <3>2. CASE due = r.due
      BY <1>1, <2>1, <3>2
    <3>3. CASE due \in 1 .. r.due - 1
      BY <1>4, <1>6, <2>1, <3>3
    <3> QED BY <3>1, <3>2, <3>3
  \* What is due again was paid again, or is now by one who had missed a commit.
  <2>4. ASSUME NEW i \in Paying, booked[i].due >= r.due
        PROVE  \E k \in Paying' : i < k /\ k <= n /\ booked'[k].missed
    <3>1. CASE r.missed
      <4>1. n \in Paying' /\ i < n /\ n <= n /\ booked'[n].missed
        BY <1>1, <1>6, <2>1, <3>1
      <4> QED BY <4>1
    <3>2. CASE ~r.missed
      <4>1. PICK k \in Paying : i < k /\ booked[k].missed
        BY <1>4, <1>5, <2>4, <3>2
      <4>2. k \in Paying' /\ booked'[k].missed /\ k <= n
        BY <1>1, <1>6, <2>1, <4>1
      <4> QED BY <4>1, <4>2
    <3> QED BY <3>1, <3>2
  <2>5. ASSUME NEW i \in Paying', NEW j \in Paying', i < j, booked'[i].due = booked'[j].due
        PROVE  \E k \in Paying' : i < k /\ k <= j /\ booked'[k].missed
    <3>1. i \in Paying
      <4>1. i \in Paying \/ i = n
        BY <2>1
      <4>2. j \in Paying \/ j = n
        BY <2>1
      <4>3. i # n
        BY <1>1, <1>6, <2>5, <4>2
      <4> QED BY <4>1, <4>3
    <3>2. CASE j \in Paying
      <4>1. PICK k \in Paying : i < k /\ k <= j /\ booked[k].missed
        BY <1>5, <1>6, <2>5, <3>1, <3>2
      <4>2. k \in Paying' /\ booked'[k].missed
        BY <1>6, <2>1, <4>1
      <4> QED BY <4>1, <4>2
    <3>3. CASE j = n
      <4>1. booked[i].due >= r.due
        BY <1>1, <1>2, <1>6, <2>5, <3>1, <3>3
      <4> QED BY <2>4, <3>1, <3>3, <4>1
    <3> QED BY <2>1, <3>2, <3>3
  <2>6. ASSUME NEW i \in Paying', booked'[i].due >= nextDue'
        PROVE  \E k \in Paying' : i < k /\ booked'[k].missed
    <3>1. i \in Paying
      BY <1>1, <1>2, <2>1, <2>6
    <3>2. booked[i].due >= r.due
      BY <1>2, <1>6, <2>1, <2>6, <3>1
    <3> QED BY <2>4, <3>1, <3>2
  <2> QED BY <2>2, <2>3, <2>5, <2>6
<1> QED BY <1>7, <1>8

\* The commit of a withdrawal takes the oldest message or none, and adds one.
LEMMA CommitMessages ==
  ASSUME StoredInv, NEW s \in Sessions, Stored!Commit(s)
  PROVE  LET r == request[s]
             n == Len(booked) + 1
         IN IF r.kind = "Withdraw"
            THEN /\ told' = Append(told, n)
                 /\ \/ r.dropMessage = <<>> /\ messages' = Append(messages, n)
                    \/ /\ messages # <<>> /\ r.dropMessage # <<>> /\ Len(messages) >= MaxMessages
                       /\ messages' = Append(Tail(messages), n)
            ELSE UNCHANGED <<messages, told>>
<1> DEFINE r == request[s]
           n == Len(booked) + 1
<1>1. IF r.kind = "Withdraw"
      THEN /\ messages' = Append(Stored!Without(messages, r.dropMessage), n)
           /\ told' = Append(told, n)
      ELSE UNCHANGED <<messages, told>>
  BY DEF Stored!Commit, Stored!WriteMessage, Stored!Number
<1>2. /\ ~Stored!Stale(r)
      /\ \/ r.dropMessage = <<>>
         \/ /\ Len(messages) >= MaxMessages
            /\ \E j \in 1 .. Len(told) - Len(messages) + 1 : j <= Len(told) /\ r.dropMessage = <<told[j]>>
  BY CommitFinds DEF Sound, Deletes
<1>3. ToldInv
  BY DEF StoredInv
<1> DEFINE first == Len(told) - Len(messages)
<1>4. /\ messages \in Seq(Nat) /\ told \in Seq(Nat) /\ first \in Nat
      /\ Len(messages) \in Nat /\ Len(told) \in Nat
      /\ \A i \in 1 .. Len(messages) : messages[i] = told[first + i] /\ first + i \in 1 .. Len(told)
      /\ \A i, j \in 1 .. Len(told) : i < j => told[i] < told[j]
      /\ \A i \in 1 .. Len(told) : told[i] \in Nat
  BY <1>3 DEF ToldInv
<1> HIDE DEF r
<1>5. CASE r.dropMessage = <<>>
  BY <1>1, <1>5, WithoutNone DEF r
<1>6. CASE r.dropMessage # <<>>
  <2>1. PICK j \in 1 .. first + 1 : j <= Len(told) /\ r.dropMessage = <<told[j]>>
    BY <1>2, <1>6
  <2>2. told[j] \in Members(messages)
    <3>1. Members(r.dropMessage) = {told[j]}
      BY <2>1 DEF Members
    <3> QED BY <1>2, <3>1, MembersAre DEF Stored!Stale
  <2>3. PICK i \in 1 .. Len(messages) : messages[i] = told[j]
    BY <1>4, <2>2 DEF Members
  <2>4. first + i = j
    <3>1. first + i \in 1 .. Len(told) /\ j \in 1 .. Len(told) /\ told[first + i] = told[j]
      BY <1>4, <2>1, <2>3
    <3> HIDE DEF first
    <3> QED BY <1>4, <3>1, IncreasingDistinct
  <2>5. i = 1
    BY <1>4, <2>1, <2>3, <2>4
  <2>6. messages # <<>> /\ Head(messages) = told[j]
    <3>1. 1 \in 1 .. Len(messages) /\ messages[1] = told[j]
      BY <2>3, <2>5
    <3>2. messages # <<>>
      BY <1>4, <3>1, EmptySeq
    <3>3. Head(messages) = messages[1]
      BY <1>4, <3>2
    <3> QED BY <3>1, <3>2, <3>3
  <2>7. \A k, l \in 1 .. Len(messages) : messages[k] = messages[l] => k = l
    <3> SUFFICES ASSUME NEW k \in 1 .. Len(messages), NEW l \in 1 .. Len(messages), messages[k] = messages[l]
                 PROVE  k = l
      OBVIOUS
    <3>1. /\ first + k \in 1 .. Len(told) /\ first + l \in 1 .. Len(told)
          /\ told[first + k] = told[first + l]
      BY <1>4
    <3> HIDE DEF first
    <3>2. first + k = first + l
      BY <1>4, <3>1, IncreasingDistinct
    <3> QED BY <1>4, <3>2
  <2>8. Stored!Without(messages, <<Head(messages)>>) = Tail(messages)
    BY <1>4, <2>6, <2>7, WithoutHead
  <2>9. r.dropMessage = <<Head(messages)>>
    BY <2>1, <2>6
  <2> QED BY <1>1, <1>2, <1>6, <2>6, <2>8, <2>9 DEF r
<1> QED BY <1>5, <1>6

LEMMA CommitKeepsTold ==
  ASSUME StoredInv, NEW s \in Sessions, Stored!Commit(s)
  PROVE  /\ ToldInv' /\ Len(messages) <= Len(messages')
         /\ Len(told) - Len(messages) <= Len(told') - Len(messages')
         /\ Len(told) <= Len(told') /\ \A j \in 1 .. Len(told) : told'[j] = told[j]
<1> DEFINE r == request[s]
           n == Len(booked) + 1
           m == Len(messages)
           t == Len(told)
<1>1. /\ r \in BookedRequests /\ Sound(r) /\ n \in Nat
      /\ DOMAIN booked' = DOMAIN booked \cup {n}
      /\ \A i \in DOMAIN booked : i \in Nat /\ i < n
  BY CommitFinds
<1>2. IF r.kind = "Withdraw"
      THEN /\ told' = Append(told, n)
           /\ \/ r.dropMessage = <<>> /\ messages' = Append(messages, n)
              \/ /\ messages # <<>> /\ r.dropMessage # <<>> /\ m >= MaxMessages
                 /\ messages' = Append(Tail(messages), n)
      ELSE UNCHANGED <<messages, told>>
  BY CommitMessages
<1>3. /\ Withdrawing' = IF r.kind = "Withdraw" THEN Withdrawing \cup {n} ELSE Withdrawing
      /\ Stored!Missed' = IF r.missed THEN Stored!Missed \cup {n} ELSE Stored!Missed
  BY CommitPaying
<1>4. /\ messages \in Seq(Nat) /\ told \in Seq(Nat) /\ m \in Nat /\ t \in Nat /\ m <= t
      /\ \A i \in 1 .. m : messages[i] = told[t - m + i]
      /\ \A i, j \in 1 .. t : i < j => told[i] < told[j]
      /\ Members(told) = Withdrawing
      /\ t > m => m >= MaxMessages
      /\ Stored!Missed \cap Withdrawing = {} => m <= MaxMessages
  BY DEF StoredInv, ToldInv
<1>5. r.missed \in BOOLEAN /\ MaxMessages \in Nat \ {0} /\ Withdrawing \subseteq DOMAIN booked
  BY <1>1, StoredFacts DEF BookedRequests, Withdrawing
<1>6. r.kind = "Withdraw" /\ ~r.missed => r.dropMessage = Stored!Drop(messages, MaxMessages)
  BY <1>1 DEF Sound, Knows
<1> HIDE DEF r
<1>7. CASE r.kind # "Withdraw"
  <2>1. messages' = messages /\ told' = told /\ Withdrawing' = Withdrawing
    BY <1>2, <1>3, <1>7
  <2>2. Stored!Missed' \cap Withdrawing = {} => Stored!Missed \cap Withdrawing = {}
    BY <1>3
  <2>3. Members(told)' = Members(told)
    BY <2>1 DEF Members
  <2> QED BY <1>4, <2>1, <2>2, <2>3 DEF ToldInv
<1>8. CASE r.kind = "Withdraw"
  <2>1. /\ told' \in Seq(Nat) /\ Len(told') = t + 1 /\ told'[t + 1] = n
        /\ \A i \in 1 .. t : told'[i] = told[i]
        /\ DOMAIN told' = 1 .. t + 1 /\ DOMAIN told = 1 .. t
    <3>1. told' = Append(told, n)
      BY <1>2, <1>8
    <3> HIDE DEF n
    <3> QED BY <1>1, <1>4, <3>1, AppendAt
  <2>2. Members(told)' = Withdrawing'
    <3>1. Members(told)' = Members(told) \cup {n}
      <4>1. Members(told)' = {told'[i] : i \in 1 .. t + 1} /\ Members(told) = {told[i] : i \in 1 .. t}
        BY <2>1 DEF Members
      <4>2. 1 .. t + 1 = 1 .. t \cup {t + 1}
        BY <1>4
      <4> HIDE DEF n, t
      <4> QED BY <2>1, <4>1, <4>2
    <3> QED BY <1>3, <1>4, <1>8, <3>1
  <2>3. ASSUME NEW i \in 1 .. t + 1, NEW j \in 1 .. t + 1, i < j PROVE told'[i] < told'[j]
    <3>1. i \in 1 .. t /\ (j \in 1 .. t \/ j = t + 1)
      <4> HIDE DEF t
      <4> QED BY <1>4, <2>3
    <3>2. told[i] < n
      <4>1. told[i] \in Members(told)
        BY <2>1, <3>1 DEF Members
      <4> QED BY <1>1, <1>4, <1>5, <4>1
    <3> HIDE DEF n, t
    <3> QED BY <1>4, <2>1, <2>3, <3>1, <3>2
  <2>4. CASE r.dropMessage = <<>> /\ messages' = Append(messages, n)
    <3>1. /\ messages' \in Seq(Nat) /\ Len(messages') = m + 1 /\ messages'[m + 1] = n
          /\ \A i \in 1 .. m : messages'[i] = messages[i]
      BY <1>1, <1>4, <2>4, AppendAt
    <3>2. ASSUME NEW i \in 1 .. m + 1 PROVE messages'[i] = told'[(t + 1) - (m + 1) + i]
      <4>1. CASE i = m + 1
        <5>1. (t + 1) - (m + 1) + i = t + 1
          BY <1>4, <4>1
        <5> QED BY <2>1, <3>1, <4>1, <5>1
      <4>2. CASE i \in 1 .. m
        <5>1. (t + 1) - (m + 1) + i = t - m + i /\ t - m + i \in 1 .. t
          BY <1>4, <4>2
        <5> QED BY <1>4, <2>1, <3>1, <4>2, <5>1
      <4> QED BY <1>4, <4>1, <4>2
    <3>3. Stored!Missed' \cap Withdrawing' = {} => m + 1 <= MaxMessages
      <4> SUFFICES ASSUME Stored!Missed' \cap Withdrawing' = {} PROVE m + 1 <= MaxMessages
        OBVIOUS
      <4>1. ~r.missed
        BY <1>3, <1>8
      <4>2. Stored!Drop(messages, MaxMessages) = <<>>
        BY <1>6, <1>8, <2>4, <4>1
      <4>3. ~(m + 1 > MaxMessages)
        <5>1. m + 1 > MaxMessages => Stored!Drop(messages, MaxMessages) = <<Head(messages)>>
          BY <1>4, <1>5, Dropped
        <5>2. <<Head(messages)>> # <<>>
          OBVIOUS
        <5> QED BY <4>2, <5>1, <5>2
      <4> QED BY <1>4, <1>5, <4>3
    <3>4. t + 1 > m + 1 => m + 1 >= MaxMessages
      BY <1>4, <1>5
    <3>5. m + 1 <= t + 1 /\ m <= m + 1 /\ t <= t + 1 /\ t - m <= (t + 1) - (m + 1)
      BY <1>4
    <3> HIDE DEF m, t, n
    <3> QED BY <2>1, <2>2, <2>3, <3>1, <3>2, <3>3, <3>4, <3>5 DEF ToldInv, m, t
  <2>5. CASE /\ messages # <<>> /\ r.dropMessage # <<>> /\ m >= MaxMessages
             /\ messages' = Append(Tail(messages), n)
    <3>1. /\ messages' \in Seq(Nat) /\ Len(messages') = m /\ messages'[m] = n /\ m \in Nat \ {0}
          /\ \A i \in 1 .. m - 1 : messages'[i] = messages[i + 1]
      BY <1>1, <1>4, <2>5, AppendTail
    <3>2. ASSUME NEW i \in 1 .. m PROVE messages'[i] = told'[(t + 1) - m + i]
      <4>1. CASE i = m
        <5>1. (t + 1) - m + i = t + 1
          BY <1>4, <4>1
        <5> QED BY <2>1, <3>1, <4>1, <5>1
      <4>2. CASE i \in 1 .. m - 1
        <5>1. (t + 1) - m + i = t - m + (i + 1) /\ t - m + (i + 1) \in 1 .. t /\ i + 1 \in 1 .. m
          BY <1>4, <4>2
        <5>2. told'[(t + 1) - m + i] = told[t - m + (i + 1)]
          BY <2>1, <5>1
        <5>3. messages[i + 1] = told[t - m + (i + 1)]
          BY <1>4, <5>1
        <5> QED BY <3>1, <4>2, <5>2, <5>3
      <4> QED BY <3>1, <4>1, <4>2
    <3>3. Stored!Missed' \cap Withdrawing' = {} => m <= MaxMessages
      BY <1>3, <1>4
    <3>4. m <= t + 1 /\ m <= m /\ t <= t + 1 /\ t - m <= (t + 1) - m
      BY <1>4
    <3> HIDE DEF m, t, n
    <3> QED BY <2>1, <2>2, <2>3, <2>5, <3>1, <3>2, <3>3, <3>4 DEF ToldInv, m, t
  <2> QED BY <1>2, <1>8, <2>4, <2>5
<1> QED BY <1>7, <1>8

\* What a commit does to the account as the object sees it.
LEMMA CommitAmounts ==
  ASSUME StoredInv, NEW s \in Sessions, Stored!Commit(s)
  PROVE  LET r == request[s]
             c == Stored!Change(r)
             before == Stored!AmountsOf(storedRows)
             gone == Stored!AmountsOf(storedArchived)
         IN /\ before \in Seq(Int) /\ Len(before) = Len(storedRows) /\ gone \in Seq(Int) /\ c \in Int
            /\ \/ /\ r.drop = <<>>
                  /\ storedOld' = storedOld
                  /\ Stored!AmountsOf(storedRows)' = Append(before, c)
                  /\ Stored!AmountsOf(storedArchived)' = gone
               \/ /\ r.drop # <<>> /\ before # <<>>
                  /\ storedOld' = r.old + Head(before)
                  /\ Stored!AmountsOf(storedRows)' = Append(Tail(before), c)
                  /\ Stored!AmountsOf(storedArchived)' = Append(gone, Head(before))
<1> DEFINE r == request[s]
           c == Stored!Change(r)
           n == Len(booked) + 1
           h == Head(storedRows)
           b == BookedAmounts
           d == Append(b, c)
           before == Picked(b, storedRows)
           gone == Picked(b, storedArchived)
<1>1. \/ /\ r.drop = <<>> /\ storedOld' = storedOld
         /\ storedRows' = Append(storedRows, n) /\ storedArchived' = storedArchived
      \/ /\ storedRows # <<>> /\ r.drop = <<h>> /\ h \in DOMAIN booked
         /\ storedOld' = r.old + booked[h].amount
         /\ storedRows' = Append(Tail(storedRows), n)
         /\ storedArchived' = Append(storedArchived, h)
  BY CommitRows
<1>2. RowsInv /\ RowsInv'
  BY CommitKeepsRows DEF StoredInv
<1>3. /\ storedRows \in Seq(Nat) /\ storedArchived \in Seq(Nat) /\ Len(booked) \in Nat
      /\ DOMAIN booked = 1 .. Len(booked)
      /\ Members(storedRows) \subseteq DOMAIN booked /\ Members(storedArchived) \subseteq DOMAIN booked
  BY <1>2, NumbersAreBooked DEF RowsInv
<1>4. /\ b \in Seq(Int) /\ DOMAIN b = DOMAIN booked /\ Len(b) = Len(booked)
      /\ Stored!AmountsOf(storedRows) = before /\ before \in Seq(Int) /\ Len(before) = Len(storedRows)
      /\ Stored!AmountsOf(storedArchived) = gone /\ gone \in Seq(Int)
  BY <1>2, <1>3, AmountsArePicked
<1>5. /\ c \in Int /\ booked'[n].amount = c /\ n \in Nat
      /\ DOMAIN booked' = DOMAIN booked \cup {n}
      /\ \A i \in DOMAIN booked : booked'[i] = booked[i]
  BY CommitFinds
<1>6. /\ d \in Seq(Int) /\ Len(d) = n /\ d[n] = c
      /\ \A i \in DOMAIN booked : d[i] = b[i]
      /\ DOMAIN d = DOMAIN booked \cup {n} /\ n \in DOMAIN d
  <2>1. /\ d \in Seq(Int) /\ Len(d) = Len(b) + 1 /\ d[Len(b) + 1] = c
        /\ \A i \in 1 .. Len(b) : d[i] = b[i]
        /\ DOMAIN d = 1 .. Len(b) + 1
    BY <1>4, <1>5, AppendAt
  <2>2. 1 .. Len(booked) + 1 = 1 .. Len(booked) \cup {Len(booked) + 1}
    BY <1>3
  <2> QED BY <1>3, <1>4, <2>1, <2>2
<1>7. /\ Stored!AmountsOf(storedRows)' = Picked(d, storedRows')
      /\ Stored!AmountsOf(storedArchived)' = Picked(d, storedArchived')
  <2>1. \A m \in DOMAIN booked' : booked'[m].amount = d[m]
    <3>1. \A m \in DOMAIN booked : booked[m].amount = b[m]
      BY DEF BookedAmounts
    <3> QED BY <1>5, <1>6, <3>1
  <2>2. Members(storedRows)' \subseteq DOMAIN booked' /\ Members(storedArchived)' \subseteq DOMAIN booked'
    <3>1. (Members(storedRows) \subseteq DOMAIN booked /\ Members(storedArchived) \subseteq DOMAIN booked)'
      BY <1>2, NumbersAreBooked, PTL
    <3> QED BY <3>1
  <2>3. /\ Stored!AmountsOf(storedRows)' = [i \in DOMAIN storedRows' |-> booked'[storedRows'[i]].amount]
        /\ Stored!AmountsOf(storedArchived)' = [i \in DOMAIN storedArchived' |-> booked'[storedArchived'[i]].amount]
    BY DEF Stored!AmountsOf
  <2>4. /\ \A i \in DOMAIN storedRows' : storedRows'[i] \in DOMAIN booked'
        /\ \A i \in DOMAIN storedArchived' : storedArchived'[i] \in DOMAIN booked'
    BY <2>2 DEF Members
  <2> HIDE DEF d
  <2> QED BY <2>1, <2>3, <2>4 DEF Picked
<1>8. Picked(d, storedRows) = before /\ Picked(d, storedArchived) = gone
  BY <1>3, <1>4, <1>5, PickedStays
<1> HIDE DEF r, c, b, n, d, before, gone
<1>9. CASE /\ r.drop = <<>> /\ storedOld' = storedOld
           /\ storedRows' = Append(storedRows, n) /\ storedArchived' = storedArchived
  <2>1. Members(storedRows) \subseteq DOMAIN d
    BY <1>3, <1>6
  <2>2. Picked(d, Append(storedRows, n)) = Append(Picked(d, storedRows), d[n])
    BY <1>3, <1>6, <2>1, PickedAppend
  <2> QED BY <1>4, <1>5, <1>6, <1>7, <1>8, <1>9, <2>2 DEF r, c
<1>10. CASE /\ storedRows # <<>> /\ r.drop = <<h>> /\ h \in DOMAIN booked
            /\ storedOld' = r.old + booked[h].amount
            /\ storedRows' = Append(Tail(storedRows), n)
            /\ storedArchived' = Append(storedArchived, h)
  <2>1. /\ Picked(b, Tail(storedRows)) = Tail(before) /\ before # <<>> /\ Head(before) = b[h]
        /\ Tail(storedRows) \in Seq(Nat) /\ Members(Tail(storedRows)) \subseteq DOMAIN booked
    BY <1>3, <1>4, <1>10, PickedTail DEF before
  <2>2. b[h] = booked[h].amount
    BY <1>10 DEF b, BookedAmounts
  <2>3. Stored!AmountsOf(storedRows)' = Append(Tail(before), c)
    <3>1. Picked(d, Tail(storedRows)) = Tail(before)
      BY <1>4, <1>5, <2>1, PickedStays DEF d
    <3>2. Members(Tail(storedRows)) \subseteq DOMAIN d
      BY <1>6, <2>1
    <3>3. Picked(d, Append(Tail(storedRows), n)) = Append(Picked(d, Tail(storedRows)), d[n])
      BY <1>6, <2>1, <3>2, PickedAppend
    <3> QED BY <1>6, <1>7, <1>10, <3>1, <3>3
  <2>4. Stored!AmountsOf(storedArchived)' = Append(gone, Head(before))
    <3>1. Members(storedArchived) \subseteq DOMAIN d /\ h \in DOMAIN d /\ d[h] = b[h]
      BY <1>3, <1>6, <1>10
    <3>2. Picked(d, Append(storedArchived, h)) = Append(Picked(d, storedArchived), d[h])
      BY <1>3, <1>6, <3>1, PickedAppend
    <3> QED BY <1>7, <1>8, <1>10, <2>1, <3>1, <3>2
  <2>5. r.drop # <<>>
    BY <1>10
  <2> QED BY <1>4, <1>5, <1>10, <2>1, <2>2, <2>3, <2>4, <2>5 DEF r, c
<1> QED BY <1>1, <1>9, <1>10

LEMMA CommitHarms ==
  ASSUME StoredInv, NEW s \in Sessions, Stored!Commit(s)
  PROVE  Stored!OnlyMissedCommitsHarm'
<1> DEFINE r == request[s]
           c == Stored!Change(r)
           n == Len(booked) + 1
           before == Stored!AmountsOf(storedRows)
           gone == Stored!AmountsOf(storedArchived)
<1> SUFFICES ASSUME Stored!Missed' = {}
             PROVE  /\ storedOld' = Total(Stored!AmountsOf(storedArchived)')
                    /\ Len(storedRows') <= StoredTransactions
  <2>1. Stored!A!Total(Stored!AmountsOf(storedArchived))' = Total(Stored!AmountsOf(storedArchived)')
    BY Zenon DEF Stored!A!Total, Total
  <2> QED BY <2>1 DEF Stored!OnlyMissedCommitsHarm
<1>1. Stored!Missed = {} /\ ~r.missed
  BY CommitPaying
<1>2. storedOld = Total(gone) /\ Len(storedRows) <= StoredTransactions
  BY <1>1, SameTotal DEF StoredInv, Stored!OnlyMissedCommitsHarm
<1>3. r.old = storedOld /\ r.drop = Stored!Drop(storedRows, StoredTransactions)
  BY <1>1, CommitFinds DEF Sound, Knows
<1>4. /\ before \in Seq(Int) /\ gone \in Seq(Int)
      /\ \/ /\ r.drop = <<>>
            /\ storedOld' = storedOld
            /\ Stored!AmountsOf(storedArchived)' = gone
         \/ /\ r.drop # <<>> /\ before # <<>>
            /\ storedOld' = r.old + Head(before)
            /\ Stored!AmountsOf(storedArchived)' = Append(gone, Head(before))
  BY CommitAmounts
<1>5. storedRows \in Seq(Nat) /\ n \in Nat /\ Len(storedRows) \in Nat /\ StoredTransactions \in Nat \ {0}
  BY StoredFacts DEF StoredInv, RowsInv
<1>6. \/ r.drop = <<>> /\ storedRows' = Append(storedRows, n)
      \/ storedRows # <<>> /\ r.drop # <<>> /\ storedRows' = Append(Tail(storedRows), n)
  <2>1. \/ r.drop = <<>> /\ storedRows' = Append(storedRows, n)
        \/ storedRows # <<>> /\ r.drop = <<Head(storedRows)>> /\ storedRows' = Append(Tail(storedRows), n)
    BY CommitRows
  <2>2. <<Head(storedRows)>> # <<>>
    OBVIOUS
  <2> HIDE DEF r, n
  <2> QED BY <2>1, <2>2
<1> HIDE DEF r, before, gone, n
<1>7. CASE r.drop = <<>>
  <2>1. ~(Len(storedRows) + 1 > StoredTransactions)
    <3>1. Len(storedRows) + 1 > StoredTransactions =>
            Stored!Drop(storedRows, StoredTransactions) = <<Head(storedRows)>>
      BY <1>5, Dropped
    <3>2. <<Head(storedRows)>> # <<>>
      OBVIOUS
    <3> QED BY <1>3, <1>7, <3>1, <3>2
  <2>2. Len(storedRows') = Len(storedRows) + 1
    BY <1>5, <1>6, <1>7, AppendAt
  <2> QED BY <1>2, <1>4, <1>5, <1>7, <2>1, <2>2
<1>8. CASE r.drop # <<>>
  <2>1. Len(storedRows') = Len(storedRows)
    BY <1>5, <1>6, <1>8, AppendTail
  <2>2. Head(before) \in Int
    <3>1. before # <<>>
      BY <1>4, <1>8
    <3> QED BY <1>4, <3>1
  <2>3. Total(Append(gone, Head(before))) = Total(gone) + Head(before)
    BY <1>4, <2>2, TotalAppend
  <2> QED BY <1>2, <1>3, <1>4, <1>8, <2>1, <2>3
<1> QED BY <1>7, <1>8

\* A request under way has now missed something; what it read of the past is
\* still past.
LEMMA MissedForm ==
  ASSUME NEW r \in Forms, r # Stored!Idle
  PROVE  LET q == [r EXCEPT !.missed = TRUE]
         IN /\ q \in Forms /\ q # Stored!Idle /\ q.missed /\ q.due = r.due
            /\ q \in BookedRequests =>
                 r \in BookedRequests /\ q.drop = r.drop /\ q.dropMessage = r.dropMessage
<1> DEFINE q == [r EXCEPT !.missed = TRUE]
<1>1. CASE r \in LoadedRequests
  <2>1. q \in LoadedRequests /\ q.missed /\ q.due = r.due /\ q.kind = r.kind /\ q.amount = r.amount
    BY <1>1 DEF LoadedRequests
  <2> HIDE DEF q
  <2>2. q # Stored!Idle /\ q \notin BookedRequests
    BY <2>1 DEF LoadedRequests, BookedRequests, Stored!Idle
  <2>3. q \in Forms
    BY <2>1 DEF Forms
  <2> QED BY <2>1, <2>2, <2>3 DEF q
<1>2. CASE r \in BookedRequests
  <2>1. /\ q \in BookedRequests /\ q.missed /\ q.due = r.due /\ q.kind = r.kind /\ q.amount = r.amount
        /\ q.drop = r.drop /\ q.dropMessage = r.dropMessage
    BY <1>2 DEF BookedRequests
  <2> HIDE DEF q
  <2>2. q # Stored!Idle
    BY <2>1 DEF BookedRequests, Stored!Idle
  <2>3. q \in Forms
    BY <2>1 DEF Forms
  <2> QED BY <1>2, <2>1, <2>2, <2>3 DEF q
<1> QED BY <1>1, <1>2 DEF Forms

LEMMA CommitSound ==
  ASSUME StoredInv, NEW s \in Sessions, Stored!Commit(s)
  PROVE  (request \in [Sessions -> Forms] /\ \A t \in Sessions : Sound(request[t]))'
<1>1. request' = [t \in Sessions |->
        IF t = s \/ request[t] = Stored!Idle THEN Stored!Idle ELSE [request[t] EXCEPT !.missed = TRUE]]
  BY DEF Stored!Commit, Stored!Finish
<1>2. Forms' = Forms /\ BookedRequests' = BookedRequests /\ Stored!Idle' = Stored!Idle
  BY DEF Forms, LoadedRequests, BookedRequests, Stored!Kinds, Stored!Idle, Stored!AmountsFor
<1>3. ASSUME NEW t \in Sessions
      PROVE  /\ request'[t] \in Forms
             /\ request'[t] = Stored!Idle \/
                  /\ request[t] \in Forms /\ request[t] # Stored!Idle /\ Sound(request[t])
                  /\ request'[t] = [request[t] EXCEPT !.missed = TRUE]
  BY <1>1, MissedForm, IdleIsSound DEF StoredInv
<1>4. ASSUME NEW t \in Sessions PROVE Sound(request[t])'
  <2> DEFINE r == request[t]
             q == request'[t]
  <2>1. CASE q = Stored!Idle
    <3>1. q \notin BookedRequests
      BY <2>1, IdleIsSound
    <3> HIDE DEF q
    <3>2. request[t]' = q
      BY DEF q
    <3> QED BY <1>2, <2>1, <3>1, <3>2 DEF Sound, Deletes, FollowsPaid, Knows
  <2>2. CASE /\ r \in Forms /\ r # Stored!Idle /\ Sound(r) /\ q = [r EXCEPT !.missed = TRUE]
    <3>1. /\ q # Stored!Idle /\ q.missed /\ q.due = r.due
          /\ q \in BookedRequests => r \in BookedRequests /\ q.drop = r.drop /\ q.dropMessage = r.dropMessage
      BY <2>2, MissedForm
    <3>2. request[t]' = q /\ Sound(r)
      BY <2>2
    <3> HIDE DEF q, r
    <3>3. Knows(request[t])'
      BY <1>2, <3>1, <3>2 DEF Knows
    <3>4. FollowsPaid(request[t])'
      <4>1. \A due \in 1 .. r.due - 1 : \E m \in Paying : booked[m].due = due
        BY <2>2 DEF Sound, FollowsPaid
      <4>2. Paying \subseteq Paying' /\ \A m \in Paying : booked'[m] = booked[m]
        BY CommitPaying, CommitFinds DEF Paying
      <4>3. \A due \in 1 .. q.due - 1 : \E m \in Paying' : booked'[m].due = due
        BY <3>1, <4>1, <4>2
      <4> QED BY <1>2, <3>2, <4>3 DEF FollowsPaid
    <3>5. Deletes(request[t])'
      <4> SUFFICES ASSUME q \in BookedRequests
                   PROVE  /\ q.drop = <<>> \/ \E n \in 1 .. Len(storedArchived') + 1 : q.drop = <<n>>
                          /\ \/ q.dropMessage = <<>>
                             \/ /\ Len(messages') >= MaxMessages
                                /\ \E j \in 1 .. Len(told') - Len(messages') + 1 :
                                     j <= Len(told') /\ q.dropMessage = <<told'[j]>>
        BY <1>2, <3>2 DEF Deletes
      <4>1. /\ r.drop = <<>> \/ \E n \in 1 .. Len(storedArchived) + 1 : r.drop = <<n>>
            /\ \/ r.dropMessage = <<>>
               \/ /\ Len(messages) >= MaxMessages
                  /\ \E j \in 1 .. Len(told) - Len(messages) + 1 : j <= Len(told) /\ r.dropMessage = <<told[j]>>
            /\ q.drop = r.drop /\ q.dropMessage = r.dropMessage
        BY <3>1, <3>2 DEF Sound, Deletes
      <4>2. /\ Len(storedArchived) <= Len(storedArchived')
            /\ Len(messages) <= Len(messages')
            /\ Len(told) - Len(messages) <= Len(told') - Len(messages')
            /\ Len(told) <= Len(told') /\ \A j \in 1 .. Len(told) : told'[j] = told[j]
            /\ RowsInv' /\ ToldInv'
        BY CommitKeepsRows, CommitKeepsTold
      <4>3. /\ Len(storedArchived) \in Nat /\ Len(storedArchived') \in Nat
            /\ Len(messages) \in Nat /\ Len(messages') \in Nat /\ Len(told) \in Nat /\ Len(told') \in Nat
            /\ MaxMessages \in Nat
        <5>1. RowsInv /\ ToldInv
          BY DEF StoredInv
        <5>2. Len(storedArchived) \in Nat /\ Len(storedArchived') \in Nat
          BY <4>2, <5>1 DEF RowsInv
        <5>3. Len(messages) \in Nat /\ Len(messages') \in Nat /\ Len(told) \in Nat /\ Len(told') \in Nat
          BY <4>2, <5>1 DEF ToldInv
        <5>4. MaxMessages \in Nat
          BY StoredFacts
        <5> QED BY <5>2, <5>3, <5>4
      <4>4. q.drop = <<>> \/ \E n \in 1 .. Len(storedArchived') + 1 : q.drop = <<n>>
        <5>1. \A n \in 1 .. Len(storedArchived) + 1 : n \in 1 .. Len(storedArchived') + 1
          <6> DEFINE a == Len(storedArchived)
                     b == Len(storedArchived')
          <6>1. a \in Nat /\ b \in Nat /\ a <= b
            BY <4>2, <4>3
          <6> HIDE DEF a, b
          <6>2. \A n \in 1 .. a + 1 : n \in 1 .. b + 1
            BY <6>1
          <6> QED BY <6>2 DEF a, b
        <5> QED BY <4>1, <5>1
      <4>5. CASE /\ Len(messages) >= MaxMessages
                 /\ \E j \in 1 .. Len(told) - Len(messages) + 1 : j <= Len(told) /\ r.dropMessage = <<told[j]>>
        <5>1. PICK j \in 1 .. Len(told) - Len(messages) + 1 : j <= Len(told) /\ r.dropMessage = <<told[j]>>
          BY <4>5
        <5>2. /\ j \in 1 .. Len(told') - Len(messages') + 1 /\ j <= Len(told')
              /\ j \in 1 .. Len(told) /\ Len(messages') >= MaxMessages
          BY <4>2, <4>3, <4>5, <5>1
        <5>3. q.dropMessage = <<told'[j]>>
          BY <4>1, <4>2, <5>1, <5>2
        <5> QED BY <4>4, <5>2, <5>3
      <4> QED BY <4>1, <4>4, <4>5
    <3> QED BY <3>3, <3>4, <3>5 DEF Sound
  <2> QED BY <1>3, <2>1, <2>2
<1>5. request' \in [Sessions -> Forms]
  BY <1>1, <1>3
<1> QED BY <1>2, <1>4, <1>5

LEMMA StoredInvStep == StoredInv /\ [Stored!Next]_(Stored!vars) => StoredInv'
<1> SUFFICES ASSUME StoredInv, [Stored!Next]_(Stored!vars) PROVE StoredInv'
  OBVIOUS
<1>1. CASE UNCHANGED Stored!vars
  <2>1. UNCHANGED <<Stored!database, Stored!history>> /\ request' = request
    BY <1>1 DEF Stored!vars
  <2> QED BY <2>1, NothingWritten DEF StoredInv
<1>2. CASE Stored!Next
  <2>1. PICK s \in Sessions : Stored!SessionStep(s)
    BY <1>2 DEF Stored!Next
  <2>2. CASE \E kind \in Stored!Kinds : \E amount \in Stored!AmountsFor(kind) :
               Stored!LoadAccount(s, kind, amount)
    BY <2>2, LoadKeeps
  <2>3. CASE Stored!Book(s)
    BY <2>3, BookKeeps
  <2>4. CASE Stored!Commit(s)
    BY <2>4, CommitKeepsRows, CommitKeepsPaid, CommitKeepsTold, CommitHarms, CommitSound DEF StoredInv
  <2>5. CASE Stored!RollBack(s)
    BY <2>5, RollBackKeeps
  <2> QED BY <2>1, <2>2, <2>3, <2>4, <2>5 DEF Stored!SessionStep
<1> QED BY <1>1, <1>2

LEMMA StoredInvImplies == StoredInv => BookingsAreRight
<1> SUFFICES ASSUME StoredInv PROVE BookingsAreRight
  OBVIOUS
<1>1. Stored!TypeOK
  <2>1. ASSUME NEW s \in Sessions PROVE request[s] = Stored!Idle \/ request[s].kind \in Stored!Kinds
    <3>1. request[s] \in Forms
      BY DEF StoredInv
    <3> QED BY <3>1 DEF Forms, LoadedRequests, BookedRequests
  <2> QED BY <2>1 DEF StoredInv, RowsInv, PaidInv, Stored!TypeOK
<1>2. Stored!EachBookedOnce
  <2> DEFINE a == storedArchived \o storedRows
             b == [n \in DOMAIN booked |-> n]
  <2>1. /\ storedRows \in Seq(Nat) /\ storedArchived \in Seq(Nat) /\ booked \in Seq(Entries)
        /\ Len(storedArchived) + Len(storedRows) = Len(booked)
        /\ \A i \in 1 .. Len(storedArchived) : storedArchived[i] = i
        /\ \A i \in 1 .. Len(storedRows) : storedRows[i] = Len(storedArchived) + i
    BY DEF StoredInv, RowsInv
  <2>2. /\ a \in Seq(Nat) /\ Len(a) = Len(booked)
        /\ \A i \in 1 .. Len(booked) :
             a[i] = IF i <= Len(storedArchived) THEN storedArchived[i] ELSE storedRows[i - Len(storedArchived)]
    BY <2>1, ConcatProperties
  <2>3. b \in Seq(Nat) /\ Len(b) = Len(booked) /\ \A i \in 1 .. Len(booked) : b[i] = i
    <3>1. DOMAIN booked = 1 .. Len(booked) /\ Len(booked) \in Nat
      BY <2>1
    <3>2. b = [n \in 1 .. Len(booked) |-> n]
      BY <3>1
    <3> QED BY <3>1, <3>2
  <2>4. ASSUME NEW i \in 1 .. Len(booked) PROVE a[i] = i
    <3>1. /\ Len(storedArchived) \in Nat /\ Len(storedRows) \in Nat /\ i \in Nat
      BY <2>1
    <3>2. CASE i <= Len(storedArchived)
      <4>1. i \in 1 .. Len(storedArchived)
        BY <3>1, <3>2
      <4> QED BY <2>1, <2>2, <3>2, <4>1
    <3>3. CASE ~(i <= Len(storedArchived))
      <4>1. i - Len(storedArchived) \in 1 .. Len(storedRows)
        BY <2>1, <3>1, <3>3
      <4>2. storedRows[i - Len(storedArchived)] = Len(storedArchived) + (i - Len(storedArchived))
        BY <2>1, <4>1
      <4>3. Len(storedArchived) + (i - Len(storedArchived)) = i
        BY <3>1
      <4> QED BY <2>2, <3>3, <4>2, <4>3
    <3> QED BY <3>2, <3>3
  <2>5. a = b
    <3> HIDE DEF a, b
    <3>1. \A i \in 1 .. Len(booked) : a[i] = b[i]
      BY <2>3, <2>4
    <3> QED BY <2>2, <2>3, <3>1, SeqEqual
  <2> QED BY <2>5 DEF Stored!EachBookedOnce
<1>3. Stored!NewestMessagesKept
  <2> DEFINE first == Len(told) - Len(messages)
             s == SubSeq(told, first + 1, Len(told))
  <2>1. /\ messages \in Seq(Nat) /\ told \in Seq(Nat) /\ Len(messages) <= Len(told)
        /\ \A i \in 1 .. Len(messages) : messages[i] = told[Len(told) - Len(messages) + i]
        /\ Members(told) = Withdrawing
        /\ Len(told) > Len(messages) => Len(messages) >= MaxMessages
        /\ Stored!Missed \cap Withdrawing = {} => Len(messages) <= MaxMessages
    BY DEF StoredInv, ToldInv
  <2>2. Len(messages) \in Nat /\ Len(told) \in Nat /\ first \in Nat /\ first + 1 \in 1 .. Len(told) + 1
    BY <2>1
  <2>3. s \in Seq(Nat) /\ Len(s) = Len(messages) /\ \A i \in 1 .. Len(messages) : s[i] = messages[i]
    <3>1. \A i \in first + 1 .. Len(told) : told[i] \in Nat
      BY <2>1, <2>2
    <3>2. /\ s \in Seq(Nat)
          /\ Len(s) = IF first + 1 <= Len(told) THEN Len(told) - (first + 1) + 1 ELSE 0
          /\ \A i \in 1 .. Len(told) - (first + 1) + 1 : s[i] = told[(first + 1) + i - 1]
      <4> HIDE DEF first
      <4> QED BY <2>1, <2>2, <3>1, SubSeqProperties
    <3> HIDE DEF s
    <3>3. Len(told) - (first + 1) + 1 = Len(messages)
      BY <2>2
    <3>4. \A i \in 1 .. Len(messages) : (first + 1) + i - 1 = Len(told) - Len(messages) + i
      BY <2>2
    <3>5. Len(s) = Len(messages)
      BY <2>2, <3>2
    <3>6. ASSUME NEW i \in 1 .. Len(messages) PROVE s[i] = messages[i]
      <4>1. s[i] = told[(first + 1) + i - 1]
        BY <3>2, <3>3
      <4>2. s[i] = told[Len(told) - Len(messages) + i]
        BY <3>4, <4>1
      <4> QED BY <2>1, <4>2
    <3> QED BY <3>2, <3>5, <3>6
  <2>4. messages = s
    <3> HIDE DEF s
    <3> QED BY <2>1, <2>3, SeqEqual
  <2>5. /\ Stored!ToSet(told) = Withdrawing /\ first >= 0
        /\ first > 0 => Len(messages) >= MaxMessages
    BY <2>1, <2>2, MembersAre
  <2> QED BY <2>1, <2>4, <2>5 DEF Stored!NewestMessagesKept, Withdrawing
<1>4. Stored!DueDatesPaidOnce /\ Stored!OnlyMissedCommitsHarm
  BY DEF StoredInv, PaidInv
<1> QED BY <1>1, <1>2, <1>3, <1>4 DEF BookingsAreRight

\* The account in the database moves by its own steps only.
LEMMA StoredMovesAlone ==
  /\ TardisBankInit => Stored!Init
  /\ [TardisBankNext]_all => [Stored!Next]_(Stored!vars)
<1>1. TardisBankInit => Stored!Init
  BY DEF TardisBankInit
<1>2. ASSUME [TardisBankNext]_all PROVE [Stored!Next]_(Stored!vars)
  <2> USE DEF Stored!vars, Stored!database, Stored!history, storedVars
  <2>1. CASE UNCHANGED all
    BY <2>1 DEF all
  <2>2. CASE AccountMoves
    BY <2>2 DEF AccountMoves
  <2>3. CASE PocketMoves
    BY <2>3 DEF PocketMoves, PocketRests
  <2>4. CASE StoredMoves
    BY <2>4 DEF StoredMoves
  <2>5. CASE FamilyMoves
    BY <2>5 DEF FamilyMoves
  <2>6. CASE NewsMoves
    BY <2>6 DEF NewsMoves
  <2> QED BY <1>2, <2>1, <2>2, <2>3, <2>4, <2>5, <2>6 DEF TardisBankNext
<1> QED BY <1>1, <1>2

\* However the requests overlap, for any number of sessions, any limits and
\* amounts: a transaction is in the list or has been archived, never both nor
\* twice, the parent is told of every withdrawal and has the newest messages,
\* no due date is skipped; an amount lost, a list too long or a date paid twice
\* takes a request that had missed a commit (AccountController,
\* Account.TriggerScheduledPayments, User.SendMessage).
THEOREM BookingsStayRight == TardisBankSpec => []BookingsAreRight
<1>1. TardisBankInit => StoredInv
  BY StoredMovesAlone, StoredInvInit
<1>2. StoredInv /\ [TardisBankNext]_all => StoredInv'
  BY StoredMovesAlone, StoredInvStep
<1> QED BY <1>1, <1>2, StoredInvImplies, PTL DEF TardisBankSpec

(***************************************************************************)
(* What a commit does to the stored account is what the operation would    *)
(* have done to the object, if the request has missed nothing.             *)
(***************************************************************************)
LEMMA TailOfAppend ==
  ASSUME NEW t \in Seq(Int), t # <<>>, NEW c \in Int
  PROVE  Head(Append(t, c)) = Head(t) /\ Tail(Append(t, c)) = Append(Tail(t), c)
<1> DEFINE a == Append(t, c)
           x == Tail(a)
           y == Append(Tail(t), c)
<1>1. Len(t) \in Nat \ {0} /\ 1 \in 1 .. Len(t)
  BY EmptySeq
<1>2. /\ a \in Seq(Int) /\ a # <<>> /\ Len(a) = Len(t) + 1 /\ a[Len(t) + 1] = c
      /\ \A i \in 1 .. Len(t) : a[i] = t[i]
  BY AppendProperties
<1>3. Tail(t) \in Seq(Int) /\ Len(Tail(t)) = Len(t) - 1 /\ \A i \in 1 .. Len(t) - 1 : Tail(t)[i] = t[i + 1]
  <2>1. /\ Tail(t) \in Seq(Int) /\ Len(Tail(t)) = Len(t) - 1
        /\ \A i \in 1 .. Len(Tail(t)) : Tail(t)[i] = t[i + 1]
    BY HeadTailProperties
  <2> QED BY <2>1
<1> HIDE DEF a
<1>4. x \in Seq(Int) /\ Len(x) = Len(t) /\ \A i \in 1 .. Len(t) : x[i] = a[i + 1]
  <2>1. /\ Tail(a) \in Seq(Int) /\ Len(Tail(a)) = Len(a) - 1
        /\ \A i \in 1 .. Len(Tail(a)) : Tail(a)[i] = a[i + 1]
    BY <1>2, HeadTailProperties
  <2> QED BY <1>1, <1>2, <2>1
<1>5. /\ y \in Seq(Int) /\ Len(y) = Len(t) /\ y[Len(t)] = c
      /\ \A i \in 1 .. Len(t) - 1 : y[i] = t[i + 1]
  <2>1. /\ y \in Seq(Int) /\ Len(y) = Len(Tail(t)) + 1 /\ y[Len(Tail(t)) + 1] = c
        /\ \A i \in 1 .. Len(Tail(t)) : y[i] = Tail(t)[i]
    BY <1>3, AppendProperties
  <2>2. Len(Tail(t)) + 1 = Len(t) /\ Len(Tail(t)) = Len(t) - 1
    BY <1>1, <1>3
  <2> HIDE DEF y
  <2> QED BY <1>3, <2>1, <2>2
<1> HIDE DEF x, y
<1>6. ASSUME NEW i \in 1 .. Len(t) PROVE x[i] = y[i]
  <2>1. CASE i = Len(t)
    BY <1>2, <1>4, <1>5, <2>1
  <2>2. CASE i \in 1 .. Len(t) - 1
    <3>1. i + 1 \in 1 .. Len(t)
      BY <1>1, <2>2
    <3> QED BY <1>2, <1>4, <1>5, <2>2, <3>1
  <2> QED BY <1>1, <2>1, <2>2
<1>7. x = y
  BY <1>4, <1>5, <1>6, SeqEqual
<1>8. Head(a) = Head(t)
  BY <1>1, <1>2
<1> QED BY <1>7, <1>8 DEF a, x, y

LEMMA StoredAdds ==
  ASSUME NEW o, NEW t, NEW g, NEW c, NEW x, x = [old |-> o, transactions |-> t, archived |-> g]
  PROVE  LET a == Stored!A!AddTransaction(x, c)
         IN IF Len(Append(t, c)) <= StoredTransactions
            THEN a.old = o /\ a.transactions = Append(t, c) /\ a.archived = g
            ELSE /\ a.old = o + Head(Append(t, c))
                 /\ a.transactions = Tail(Append(t, c))
                 /\ a.archived = Append(g, Head(Append(t, c)))
<1> DEFINE y == [x EXCEPT !.transactions = Append(@, c)]
<1>1. y = [old |-> o, transactions |-> Append(t, c), archived |-> g]
  OBVIOUS
<1>2. y.old = o /\ y.transactions = Append(t, c) /\ y.archived = g
  BY <1>1
<1>3. Stored!A!AddTransaction(x, c) = Stored!A!RemoveOldTransactions(y)
  BY DEF Stored!A!AddTransaction
<1> HIDE DEF y
<1>4. Stored!A!RemoveOldTransactions(y) =
        IF Len(y.transactions) <= StoredTransactions THEN y
        ELSE [old |-> y.old + Head(y.transactions),
              transactions |-> Tail(y.transactions),
              archived |-> Append(y.archived, Head(y.transactions))]
  BY DEF Stored!A!RemoveOldTransactions, Stored!A!Oldest
<1> QED BY <1>2, <1>3, <1>4

\* The account that such a commit leaves is the one the object would have become.
LEMMA CommitFollows ==
  ASSUME StoredInv, NEW s \in Sessions, Stored!Commit(s), ~request[s].missed
  PROVE  Stored!FollowsTheAccount(request[s])
<1> DEFINE r == request[s]
           c == Stored!Change(r)
           before == Stored!AmountsOf(storedRows)
           gone == Stored!AmountsOf(storedArchived)
<1>1. /\ r \in BookedRequests /\ ~Stored!Refused(r) /\ r.old = storedOld
      /\ r.drop = Stored!Drop(storedRows, StoredTransactions)
  BY CommitFinds DEF Sound, Knows
<1>2. /\ before \in Seq(Int) /\ Len(before) = Len(storedRows) /\ gone \in Seq(Int) /\ c \in Int
      /\ \/ /\ r.drop = <<>>
            /\ storedOld' = storedOld
            /\ Stored!AmountsOf(storedRows)' = Append(before, c)
            /\ Stored!AmountsOf(storedArchived)' = gone
         \/ /\ r.drop # <<>> /\ before # <<>>
            /\ storedOld' = storedOld + Head(before)
            /\ Stored!AmountsOf(storedRows)' = Append(Tail(before), c)
            /\ Stored!AmountsOf(storedArchived)' = Append(gone, Head(before))
  BY <1>1, CommitAmounts
<1>3. r.amount \in Int
  BY <1>1 DEF BookedRequests
<1> DEFINE x == [old |-> storedOld, transactions |-> before, archived |-> gone]
           a == Stored!A!AddTransaction(x, c)
<1>4. Stored!A!Become(Stored!A!AddTransaction(Stored!A!State, c))
        <=> /\ storedOld' = a.old
            /\ Stored!AmountsOf(storedRows)' = a.transactions
            /\ Stored!AmountsOf(storedArchived)' = a.archived
  BY DEF Stored!A!Become, Stored!A!State
<1>5. IF Len(Append(before, c)) <= StoredTransactions
      THEN a.old = storedOld /\ a.transactions = Append(before, c) /\ a.archived = gone
      ELSE /\ a.old = storedOld + Head(Append(before, c))
           /\ a.transactions = Tail(Append(before, c))
           /\ a.archived = Append(gone, Head(Append(before, c)))
  <2> HIDE DEF before, gone, c
  <2>1. x = [old |-> storedOld, transactions |-> before, archived |-> gone]
    OBVIOUS
  <2> HIDE DEF x
  <2> QED BY <2>1, StoredAdds
<1>6. Stored!A!Balance = storedOld + Total(before)
  BY SameTotal DEF Stored!A!Balance
<1>7. Stored!Refused(r) <=> Stored!Taken(r) /\ r.amount > storedOld + Total(before)
  BY <1>1, SameTotal DEF Stored!Refused, Stored!BalanceRead
<1>8. c = IF Stored!Taken(r) THEN -r.amount ELSE r.amount
  BY DEF Stored!Change
<1>9. /\ Total(before) \in Int /\ storedOld \in Int /\ StoredTransactions \in Nat /\ Len(before) \in Nat
      /\ storedRows \in Seq(Nat)
  BY <1>2, TotalType, StoredFacts DEF StoredInv, RowsInv
<1>10. /\ Len(storedRows) + 1 > StoredTransactions => r.drop # <<>>
       /\ ~(Len(storedRows) + 1 > StoredTransactions) => r.drop = <<>>
  <2>1. <<Head(storedRows)>> # <<>>
    OBVIOUS
  <2> QED BY <1>1, <1>9, <2>1, StoredFacts, Dropped
<1> HIDE DEF r, c, before, gone, a
<1>11. Stored!A!Become(Stored!A!AddTransaction(Stored!A!State, c))
  <2>1. Len(Append(before, c)) = Len(before) + 1
    BY <1>2, AppendAt
  <2>2. CASE Len(before) + 1 > StoredTransactions
    <3>1. before # <<>> /\ r.drop # <<>>
      BY <1>2, <1>10, <2>2
    <3>2. Head(Append(before, c)) = Head(before) /\ Tail(Append(before, c)) = Append(Tail(before), c)
      BY <1>2, <3>1, TailOfAppend
    <3>3. ~(Len(Append(before, c)) <= StoredTransactions)
      BY <1>9, <2>1, <2>2
    <3> QED BY <1>2, <1>4, <1>5, <3>1, <3>2, <3>3
  <2>3. CASE ~(Len(before) + 1 > StoredTransactions)
    <3>1. Len(Append(before, c)) <= StoredTransactions /\ r.drop = <<>>
      BY <1>2, <1>9, <1>10, <2>1, <2>3
    <3> QED BY <1>2, <1>4, <1>5, <3>1
  <2> QED BY <2>2, <2>3
<1>12. CASE Stored!Taken(r)
  <2>1. r.amount <= Stored!A!Balance /\ c = -r.amount
    BY <1>1, <1>3, <1>6, <1>7, <1>8, <1>9, <1>12
  <2>2. Stored!A!Withdraw(r.amount)
    BY <1>11, <2>1 DEF Stored!A!Withdraw
  <2> QED BY <1>12, <2>2 DEF Stored!FollowsTheAccount, r
<1>13. CASE ~Stored!Taken(r)
  <2>1. Stored!A!ReceivePayment(r.amount)
    BY <1>8, <1>11, <1>13 DEF Stored!A!ReceivePayment
  <2> QED BY <1>13, <2>1 DEF Stored!FollowsTheAccount, r
<1> QED BY <1>12, <1>13

\* A request commits by its own commit and by no other step.
LEMMA CommitsBySelf ==
  ASSUME StoredInv, [Stored!Next]_(Stored!vars), NEW s \in Sessions, Stored!Commits(s)
  PROVE  Stored!Commit(s)
<1>1. booked' # booked /\ request[s] # Stored!Idle /\ request'[s] = Stored!Idle
  BY DEF Stored!Commits
<1>2. PICK t \in Sessions : Stored!SessionStep(t)
  BY <1>1 DEF Stored!vars, Stored!history, Stored!Next
<1>3. Stored!Commit(t)
  BY <1>1, <1>2 DEF Stored!SessionStep, Stored!LoadAccount, Stored!Book, Stored!RollBack,
                    Stored!history
<1>4. ASSUME t # s PROVE FALSE
  <2>1. request'[s] = [request[s] EXCEPT !.missed = TRUE]
    BY <1>1, <1>3, <1>4 DEF Stored!Commit, Stored!Finish
  <2>2. [request[s] EXCEPT !.missed = TRUE] # Stored!Idle
    BY <1>1, MissedForm DEF StoredInv
  <2> QED BY <1>1, <2>1, <2>2
<1> QED BY <1>3, <1>4

\* However the requests overlap: what a request that has missed no commit does
\* to the stored account is a step of the object, for any limits and amounts.
\* It withdraws only what is there, moves the balance by its amount and archives
\* the oldest (Child.ReceivePayment, Child.WithdrawInternal and
\* Account.AddTransaction, through rows that each session reads and writes).
THEOREM CommitsAreOfTheAccount == TardisBankSpec => CommitsFollowTheAccount
<1>1. TardisBankInit => StoredInv
  BY StoredMovesAlone, StoredInvInit
<1>2. StoredInv /\ [TardisBankNext]_all => StoredInv'
  BY StoredMovesAlone, StoredInvStep
<1> DEFINE Follows == \A s \in Sessions : Stored!Commits(s) /\ ~request[s].missed
                        => Stored!FollowsTheAccount(request[s])
<1>3. StoredInv /\ [TardisBankNext]_all => [Follows]_(Stored!vars)
  BY StoredMovesAlone, CommitsBySelf, CommitFollows
<1> QED BY <1>1, <1>2, <1>3, PTL DEF TardisBankSpec, CommitsFollowTheAccount,
                                     Stored!CommitsFollowTheAccount

(***************************************************************************)
(* The calendar.  Months begin later and later, so every day is in one     *)
(* month; the date a month later is in the next month, at the same time.   *)
(***************************************************************************)
CalendarMonths == 1 .. Len(MonthStarts) - 1

LEMMA CalendarFacts ==
  /\ MonthStarts \in Seq(Nat) /\ MonthStarts[1] = 0 /\ Len(MonthStarts) \in Nat /\ Len(MonthStarts) > 1
  /\ \A m \in 1 .. Len(MonthStarts) : MonthStarts[m] \in Nat
  /\ \A m \in CalendarMonths : MonthStarts[m] < MonthStarts[m + 1]
  /\ DaysPerWeek \in Nat \ {0} /\ TicksPerDay \in Nat \ {0} /\ LastTick \in Nat
  /\ Pocket!Day(LastTick) < MonthStarts[Len(MonthStarts) - 1]
BY TardisBankAssumption DEF Pocket!CalendarAssumption, CalendarMonths

LEMMA MonthsGrow ==
  ASSUME NEW m \in 1 .. Len(MonthStarts), NEW k \in 1 .. Len(MonthStarts), m < k
  PROVE  MonthStarts[m] < MonthStarts[k]
<1> DEFINE T == {j \in 1 .. Len(MonthStarts) : m < j /\ ~(MonthStarts[m] < MonthStarts[j])}
<1>1. ASSUME T # {} PROVE FALSE
  <2>1. PICK j \in T : \A i \in T : j <= i
    <3>1. T \in SUBSET Nat
      BY CalendarFacts
    <3> HIDE DEF T
    <3> QED BY <1>1, <3>1, Least
  <2>2. j - 1 \in CalendarMonths /\ j - 1 \in 1 .. Len(MonthStarts) /\ j - 1 \notin T /\ m <= j - 1
        /\ (j - 1) + 1 = j
    <3>1. j \in Nat /\ j \in 1 .. Len(MonthStarts) /\ m < j
      BY CalendarFacts
    <3>2. j - 1 \notin T
      <4> HIDE DEF T
      <4> QED BY <2>1, <3>1
    <3> QED BY <3>1, <3>2, CalendarFacts DEF CalendarMonths
  <2>3. MonthStarts[j - 1] < MonthStarts[j]
    BY <2>2, CalendarFacts
  <2>5. MonthStarts[m] \in Nat /\ MonthStarts[j - 1] \in Nat /\ MonthStarts[j] \in Nat
    BY <2>2, CalendarFacts
  <2>4. MonthStarts[m] <= MonthStarts[j - 1]
    <3>1. CASE m = j - 1
      BY <2>5, <3>1
    <3>2. CASE m < j - 1
      <4>1. MonthStarts[m] < MonthStarts[j - 1]
        BY <2>2, <3>2
      <4> QED BY <2>5, <4>1
    <3>3. m \in Int /\ j - 1 \in Int
      BY CalendarFacts
    <3> QED BY <2>2, <3>1, <3>2, <3>3
  <2> QED BY <2>3, <2>4, <2>5
<1> QED BY <1>1

LEMMA MonthOf ==
  ASSUME NEW d \in Nat, NEW m \in CalendarMonths, MonthStarts[m] <= d, d < MonthStarts[m + 1]
  PROVE  Pocket!Month(d) = m
<1> DEFINE Holds(j) == j \in CalendarMonths /\ MonthStarts[j] <= d /\ d < MonthStarts[j + 1]
           k == CHOOSE j : Holds(j)
<1>1. Pocket!Month(d) = CHOOSE j \in CalendarMonths : MonthStarts[j] <= d /\ d < MonthStarts[j + 1]
  BY DEF Pocket!Month, CalendarMonths
<1>2. ASSUME NEW j \in CalendarMonths, MonthStarts[j] <= d, d < MonthStarts[j + 1] PROVE j = m
  <2>1. /\ j \in 1 .. Len(MonthStarts) /\ m \in 1 .. Len(MonthStarts)
        /\ j + 1 \in 1 .. Len(MonthStarts) /\ m + 1 \in 1 .. Len(MonthStarts)
    BY CalendarFacts DEF CalendarMonths
  <2>2. /\ MonthStarts[j] \in Nat /\ MonthStarts[m] \in Nat
        /\ MonthStarts[j + 1] \in Nat /\ MonthStarts[m + 1] \in Nat
    BY <2>1, CalendarFacts
  <2>3. ~(j + 1 <= m)
    <3> SUFFICES ASSUME j + 1 <= m PROVE FALSE
      OBVIOUS
    <3>1. j + 1 = m \/ j + 1 < m
      BY <2>1
    <3>2. MonthStarts[j + 1] <= MonthStarts[m]
      BY <2>1, <2>2, <3>1, MonthsGrow
    <3> QED BY <1>2, <2>2, <3>2
  <2>4. ~(m + 1 <= j)
    <3> SUFFICES ASSUME m + 1 <= j PROVE FALSE
      OBVIOUS
    <3>1. m + 1 = j \/ m + 1 < j
      BY <2>1
    <3>2. MonthStarts[m + 1] <= MonthStarts[j]
      BY <2>1, <2>2, <3>1, MonthsGrow
    <3> QED BY <1>2, <2>2, <3>2
  <2> QED BY <2>1, <2>3, <2>4
<1> QED BY <1>1, <1>2

LEMMA MonthExists ==
  ASSUME NEW d \in Nat, d < MonthStarts[Len(MonthStarts)]
  PROVE  LET m == Pocket!Month(d)
         IN m \in CalendarMonths /\ MonthStarts[m] <= d /\ d < MonthStarts[m + 1]
<1> DEFINE T == {k \in 1 .. Len(MonthStarts) : d < MonthStarts[k]}
<1>1. T # {} /\ T \in SUBSET Nat
  BY CalendarFacts
<1>2. PICK k \in T : \A j \in T : k <= j
  <2> HIDE DEF T
  <2> QED BY <1>1, Least
<1>3. k \in 1 .. Len(MonthStarts) /\ d < MonthStarts[k] /\ k # 1
  BY CalendarFacts
<1>4. k - 1 \in CalendarMonths /\ (k - 1) + 1 = k /\ k - 1 \in 1 .. Len(MonthStarts)
  BY <1>3, CalendarFacts DEF CalendarMonths
<1>5. ~(d < MonthStarts[k - 1])
  BY <1>2, <1>4
<1>6. MonthStarts[k - 1] <= d
  <2>1. MonthStarts[k - 1] \in Nat
    BY <1>4, CalendarFacts
  <2> QED BY <1>5, <2>1
<1>7. Pocket!Month(d) = k - 1
  BY <1>3, <1>4, <1>6, MonthOf
<1> QED BY <1>3, <1>4, <1>6, <1>7

LEMMA Ticks ==
  /\ \A d \in Nat, r \in 0 .. TicksPerDay - 1 :
       /\ Pocket!Midnight(d) + r \in Nat
       /\ Pocket!Day(Pocket!Midnight(d) + r) = d /\ Pocket!TimeOfDay(Pocket!Midnight(d) + r) = r
  /\ \A t \in Nat : /\ Pocket!Day(t) \in Nat /\ Pocket!TimeOfDay(t) \in 0 .. TicksPerDay - 1
                    /\ t = Pocket!Midnight(Pocket!Day(t)) + Pocket!TimeOfDay(t)
  /\ \A t, u \in Nat : t <= u => Pocket!Day(t) <= Pocket!Day(u)
<1>1. ASSUME NEW T \in Nat \ {0}, NEW d \in Nat, NEW r \in 0 .. T - 1
      PROVE  d * T + r \in Nat /\ (d * T + r) \div T = d /\ (d * T + r) % T = r
  <2>1. d * T \in Nat /\ d * T + r \in Nat
    OBVIOUS
  <2>2. (d * T + r) \div T = d
    OBVIOUS
  <2>3. (d * T + r) % T = r
    OBVIOUS
  <2> QED BY <2>1, <2>2, <2>3
<1>2. ASSUME NEW T \in Nat \ {0}, NEW t \in Nat
      PROVE  t \div T \in Nat /\ t % T \in 0 .. T - 1 /\ t = (t \div T) * T + (t % T)
  <2>1. t \div T \in Nat /\ t % T \in 0 .. T - 1
    OBVIOUS
  <2> DEFINE q == t \div T
             r == t - q * T
  <2>2. q \in Nat /\ q * T <= t /\ t < (q + 1) * T
    OBVIOUS
  <2> HIDE DEF q
  <2>3. (q + 1) * T = q * T + T /\ q * T \in Nat
    BY <2>2
  <2>4. r \in 0 .. T - 1 /\ t = q * T + r
    BY <2>2, <2>3
  <2> HIDE DEF r
  <2>5. t % T = r
    BY <1>1, <2>2, <2>4
  <2> QED BY <2>1, <2>4, <2>5 DEF q
<1>3. ASSUME NEW T \in Nat \ {0}, NEW t \in Nat, NEW u \in Nat, t <= u PROVE t \div T <= u \div T
  <2> DEFINE q == t \div T
             p == u \div T
  <2>1. q \in Nat /\ p \in Nat /\ q * T <= t /\ u < (p + 1) * T
    OBVIOUS
  <2> HIDE DEF p, q
  <2>2. q * T < (p + 1) * T
    <3>1. q * T \in Nat /\ (p + 1) * T \in Nat
      BY <2>1
    <3> QED BY <1>3, <2>1, <3>1
  <2>3. q < p + 1
    BY <2>1, <2>2
  <2> QED BY <2>1, <2>3 DEF p, q
<1>4. TicksPerDay \in Nat \ {0}
  BY CalendarFacts
<1> QED BY <1>1, <1>2, <1>3, <1>4 DEF Pocket!Midnight, Pocket!Day, Pocket!TimeOfDay

LEMMA MinOf ==
  ASSUME NEW S \in SUBSET Nat, S # {}
  PROVE  Pocket!Min(S) \in S /\ \A x \in S : Pocket!Min(S) <= x
BY Least DEF Pocket!Min

LEMMA MinIs ==
  ASSUME NEW S \in SUBSET Nat, NEW x \in S, \A y \in S : x <= y
  PROVE  Pocket!Min(S) = x
<1>1. Pocket!Min(S) \in S /\ \A y \in S : Pocket!Min(S) <= y
  BY MinOf
<1> DEFINE z == Pocket!Min(S)
<1>2. z <= x /\ x <= z /\ z \in Nat /\ x \in Nat
  BY <1>1
<1> QED BY <1>2

(***************************************************************************)
(* The due dates of a plan: each is the one before, moved on by an         *)
(* interval; the dates of a monthly plan stay on the calendar as long as   *)
(* the clock reaches them.                                                 *)
(***************************************************************************)
Plans == [start : Nat, interval : Pocket!Intervals, amount : ScheduledAmounts, dues : Seq(Nat)]

FirstMonth(plan) == Pocket!Month(Pocket!Day(plan.start))

\* The days that the payments up to a month could be made on.
LastDays(plan, month) ==
  {Pocket!DaysIn(m) - 1 : m \in (FirstMonth(plan) + 1) .. month} \cup {Pocket!DayOfMonth(plan.start)}

Shortest(plan, month) == Pocket!Min(LastDays(plan, month))

\* The payment number k is on the calendar.
Reaches(plan, k) == plan.interval = "Month" => FirstMonth(plan) + k - 1 \in CalendarMonths

LEMMA DaysOfMonths ==
  /\ \A m \in CalendarMonths : /\ Pocket!DaysIn(m) \in Nat /\ Pocket!DaysIn(m) > 0
                               /\ MonthStarts[m] \in Nat /\ MonthStarts[m + 1] \in Nat
                               /\ MonthStarts[m + 1] = MonthStarts[m] + Pocket!DaysIn(m)
<1> SUFFICES ASSUME NEW m \in CalendarMonths
             PROVE  /\ Pocket!DaysIn(m) \in Nat /\ Pocket!DaysIn(m) > 0
                    /\ MonthStarts[m] \in Nat /\ MonthStarts[m + 1] \in Nat
                    /\ MonthStarts[m + 1] = MonthStarts[m] + Pocket!DaysIn(m)
  OBVIOUS
<1>1. m \in 1 .. Len(MonthStarts) /\ m + 1 \in 1 .. Len(MonthStarts)
  BY CalendarFacts DEF CalendarMonths
<1>2. MonthStarts[m] \in Nat /\ MonthStarts[m + 1] \in Nat /\ MonthStarts[m] < MonthStarts[m + 1]
  BY <1>1, CalendarFacts
<1> QED BY <1>2 DEF Pocket!DaysIn

LEMMA DayInMonth ==
  ASSUME NEW m \in CalendarMonths, NEW s \in 0 .. Pocket!DaysIn(m) - 1, NEW r \in 0 .. TicksPerDay - 1
  PROVE  LET t == Pocket!Midnight(MonthStarts[m] + s) + r
         IN /\ t \in Nat /\ Pocket!Day(t) = MonthStarts[m] + s /\ Pocket!TimeOfDay(t) = r
            /\ Pocket!Month(Pocket!Day(t)) = m /\ Pocket!DayOfMonth(t) = s
<1> DEFINE d == MonthStarts[m] + s
           t == Pocket!Midnight(d) + r
<1>1. /\ MonthStarts[m] \in Nat /\ MonthStarts[m + 1] \in Nat /\ s \in Nat
      /\ MonthStarts[m + 1] = MonthStarts[m] + Pocket!DaysIn(m) /\ Pocket!DaysIn(m) \in Nat
  BY DaysOfMonths
<1>2. d \in Nat /\ MonthStarts[m] <= d /\ d < MonthStarts[m + 1] /\ d - MonthStarts[m] = s
  BY <1>1
<1> HIDE DEF d
<1>3. t \in Nat /\ Pocket!Day(t) = d /\ Pocket!TimeOfDay(t) = r
  BY <1>2, Ticks
<1>4. Pocket!Month(d) = m
  BY <1>2, MonthOf
<1> HIDE DEF t
<1>5. Pocket!DayOfMonth(t) = s
  BY <1>2, <1>3, <1>4 DEF Pocket!DayOfMonth
<1> QED BY <1>3, <1>4, <1>5 DEF d, t

\* A time that the clock reaches is in a month that has a next one.
LEMMA ReachedMonth ==
  ASSUME NEW t \in Nat, t <= LastTick
  PROVE  LET m == Pocket!Month(Pocket!Day(t))
         IN /\ m \in CalendarMonths /\ m + 1 \in CalendarMonths
            /\ Pocket!DayOfMonth(t) \in 0 .. Pocket!DaysIn(m) - 1
            /\ Pocket!Day(t) = MonthStarts[m] + Pocket!DayOfMonth(t)
<1> DEFINE d == Pocket!Day(t)
           m == Pocket!Month(d)
           n == Len(MonthStarts)
<1>1. d \in Nat /\ d < MonthStarts[n - 1]
  <2>1. d \in Nat /\ d <= Pocket!Day(LastTick) /\ Pocket!Day(LastTick) \in Nat
    BY Ticks, CalendarFacts
  <2>2. MonthStarts[n - 1] \in Nat
    BY CalendarFacts
  <2> HIDE DEF d
  <2> QED BY <2>1, <2>2, CalendarFacts
<1>2. /\ n \in Nat /\ n > 1 /\ n - 1 \in 1 .. n /\ n \in 1 .. n
      /\ MonthStarts[n - 1] \in Nat /\ MonthStarts[n] \in Nat
  BY CalendarFacts
<1>3. MonthStarts[n - 1] < MonthStarts[n]
  BY <1>2, MonthsGrow
<1> HIDE DEF d
<1>4. d < MonthStarts[n]
  BY <1>1, <1>2, <1>3
<1>5. m \in CalendarMonths /\ MonthStarts[m] <= d /\ d < MonthStarts[m + 1]
  BY <1>1, <1>4, MonthExists
<1> HIDE DEF m
<1>6. m # n - 1
  BY <1>1, <1>2, <1>5
<1>7. m + 1 \in CalendarMonths
  BY <1>5, <1>6, CalendarFacts DEF CalendarMonths
<1>8. Pocket!DayOfMonth(t) = d - MonthStarts[m]
  BY DEF Pocket!DayOfMonth, d, m
<1>9. /\ MonthStarts[m] \in Nat /\ Pocket!DaysIn(m) \in Nat
      /\ MonthStarts[m + 1] = MonthStarts[m] + Pocket!DaysIn(m)
  BY <1>5, DaysOfMonths
<1>10. d - MonthStarts[m] \in 0 .. Pocket!DaysIn(m) - 1 /\ d = MonthStarts[m] + (d - MonthStarts[m])
  BY <1>1, <1>5, <1>9
<1> QED BY <1>5, <1>7, <1>8, <1>10 DEF d, m

LEMMA ShortestIs ==
  ASSUME NEW plan \in Plans, plan.start <= LastTick,
         NEW month \in CalendarMonths, FirstMonth(plan) <= month
  PROVE  /\ LastDays(plan, month) \in SUBSET Nat
         /\ Shortest(plan, month) \in 0 .. Pocket!DaysIn(month) - 1
         /\ Shortest(plan, month) \in LastDays(plan, month)
         /\ \A x \in LastDays(plan, month) : Shortest(plan, month) <= x
<1> DEFINE first == FirstMonth(plan)
           S == LastDays(plan, month)
           day == Pocket!DayOfMonth(plan.start)
<1>1. first \in CalendarMonths /\ day \in 0 .. Pocket!DaysIn(first) - 1
  <2>1. plan.start \in Nat
    BY DEF Plans
  <2> QED BY <2>1, ReachedMonth DEF FirstMonth
<1>2. Pocket!DaysIn(first) \in Nat /\ day \in Nat /\ first \in Nat /\ month \in Nat
  <2>1. \A m \in CalendarMonths : m \in Nat
    BY CalendarFacts DEF CalendarMonths
  <2>2. Pocket!DaysIn(first) \in Nat
    BY <1>1, DaysOfMonths
  <2> QED BY <1>1, <2>1, <2>2
<1>3. \A m \in (first + 1) .. month : m \in CalendarMonths
  <2>1. month <= Len(MonthStarts) - 1 /\ Len(MonthStarts) \in Nat
    BY CalendarFacts DEF CalendarMonths
  <2> HIDE DEF first
  <2> QED BY <1>2, <2>1 DEF CalendarMonths
<1>4. \A m \in (first + 1) .. month : Pocket!DaysIn(m) - 1 \in Nat
  BY <1>3, DaysOfMonths
<1> HIDE DEF first, day
<1>5. S = {Pocket!DaysIn(m) - 1 : m \in (first + 1) .. month} \cup {day}
  BY DEF LastDays, first, day
<1> HIDE DEF S
<1>6. S \in SUBSET Nat /\ S # {}
  BY <1>2, <1>4, <1>5
<1> DEFINE s == Pocket!Min(S)
<1>7. s \in S /\ s \in Nat /\ \A x \in S : s <= x
  BY <1>6, MinOf
<1> HIDE DEF s
<1>8. s <= Pocket!DaysIn(month) - 1 /\ Pocket!DaysIn(month) \in Nat
  <2>1. Pocket!DaysIn(month) \in Nat
    BY DaysOfMonths
  <2>2. CASE month = first
    <3>1. s <= day
      BY <1>5, <1>7
    <3>2. day <= Pocket!DaysIn(month) - 1
      BY <1>1, <1>2, <2>2 DEF first, day
    <3> QED BY <1>2, <1>7, <2>1, <3>1, <3>2
  <2>3. CASE month # first
    <3>1. month \in (first + 1) .. month
      BY <1>2, <2>3 DEF first
    <3> QED BY <1>5, <1>7, <2>1, <3>1
  <2> QED BY <2>2, <2>3
<1>9. s \in 0 .. Pocket!DaysIn(month) - 1
  BY <1>7, <1>8
<1> QED BY <1>6, <1>7, <1>9 DEF s, S, Shortest

\* One month on: the day of the plan, or the last day of the month.
LEMMA ShortestNext ==
  ASSUME NEW plan \in Plans, plan.start <= LastTick,
         NEW month \in CalendarMonths, FirstMonth(plan) <= month, month + 1 \in CalendarMonths
  PROVE  Shortest(plan, month + 1) = Pocket!Min({Shortest(plan, month), Pocket!DaysIn(month + 1) - 1})
<1> DEFINE s == Shortest(plan, month)
           t == Shortest(plan, month + 1)
           more == Pocket!DaysIn(month + 1) - 1
           S == LastDays(plan, month)
           R == LastDays(plan, month + 1)
<1>1. month \in Nat /\ FirstMonth(plan) \in Nat /\ more \in Nat
  <2>1. plan.start \in Nat
    BY DEF Plans
  <2>2. FirstMonth(plan) \in CalendarMonths
    BY <2>1, ReachedMonth DEF FirstMonth
  <2>3. \A m \in CalendarMonths : m \in Nat
    BY CalendarFacts DEF CalendarMonths
  <2>4. Pocket!DaysIn(month + 1) \in Nat /\ Pocket!DaysIn(month + 1) > 0
    BY DaysOfMonths
  <2>5. more \in Nat
    BY <2>4
  <2> QED BY <2>2, <2>3, <2>5
<1>2. S \in SUBSET Nat /\ s \in S /\ s \in Nat /\ \A x \in S : s <= x
  BY ShortestIs
<1>3. R \in SUBSET Nat /\ t \in R /\ t \in Nat /\ \A x \in R : t <= x
  BY <1>1, ShortestIs
<1>4. R = S \cup {more}
  <2>1. (FirstMonth(plan) + 1) .. (month + 1) = ((FirstMonth(plan) + 1) .. month) \cup {month + 1}
    BY <1>1
  <2> QED BY <2>1 DEF LastDays
<1> HIDE DEF s, t, S, R, more
<1>5. t \in {s, more} /\ t <= s /\ t <= more
  <2>1. t <= s /\ t <= more
    BY <1>2, <1>3, <1>4
  <2>2. t \in S => t = s
    BY <1>2, <1>3, <2>1
  <2> QED BY <1>3, <1>4, <2>1, <2>2
<1>6. Pocket!Min({s, more}) = t
  <2>1. {s, more} \in SUBSET Nat /\ \A y \in {s, more} : t <= y
    BY <1>1, <1>2, <1>5
  <2> QED BY <1>5, <2>1, MinIs
<1> QED BY <1>6 DEF s, t, more

LEMMA FirstMonthType ==
  ASSUME NEW plan \in Plans, plan.start <= LastTick
  PROVE  FirstMonth(plan) \in Nat
<1>1. plan.start \in Nat
  BY DEF Plans
<1>2. FirstMonth(plan) \in CalendarMonths
  BY <1>1, ReachedMonth DEF FirstMonth
<1> QED BY <1>2, CalendarFacts DEF CalendarMonths

LEMMA MonthlyDue ==
  ASSUME NEW plan \in Plans, plan.start <= LastTick, plan.interval = "Month",
         NEW k \in Nat \ {0}, Reaches(plan, k)
  PROVE  LET month == FirstMonth(plan) + k - 1
             due == Pocket!DueDate(plan, k)
         IN /\ month \in CalendarMonths /\ FirstMonth(plan) <= month
            /\ due = Pocket!Midnight(MonthStarts[month] + Shortest(plan, month)) + Pocket!TimeOfDay(plan.start)
            /\ due \in Nat /\ Pocket!Day(due) = MonthStarts[month] + Shortest(plan, month)
            /\ Pocket!TimeOfDay(due) = Pocket!TimeOfDay(plan.start)
            /\ Pocket!Month(Pocket!Day(due)) = month
            /\ Pocket!DayOfMonth(due) = Shortest(plan, month)
<1> DEFINE month == FirstMonth(plan) + k - 1
           s == Shortest(plan, month)
           r == Pocket!TimeOfDay(plan.start)
<1>1. plan.start \in Nat
  BY DEF Plans
<1>2. month \in CalendarMonths /\ FirstMonth(plan) <= month
  <2>1. FirstMonth(plan) \in Nat
    BY FirstMonthType
  <2> QED BY <2>1 DEF Reaches
<1>3. s \in 0 .. Pocket!DaysIn(month) - 1
  BY <1>2, ShortestIs
<1>4. r \in 0 .. TicksPerDay - 1
  BY <1>1, Ticks
<1>5. Pocket!DueDate(plan, k) = Pocket!Midnight(MonthStarts[month] + s) + r
  BY DEF Pocket!DueDate, FirstMonth, Shortest, LastDays
<1> HIDE DEF month, s, r
<1>6. LET t == Pocket!Midnight(MonthStarts[month] + s) + r
      IN /\ t \in Nat /\ Pocket!Day(t) = MonthStarts[month] + s /\ Pocket!TimeOfDay(t) = r
         /\ Pocket!Month(Pocket!Day(t)) = month /\ Pocket!DayOfMonth(t) = s
  BY <1>2, <1>3, <1>4, DayInMonth
<1> QED BY <1>2, <1>5, <1>6 DEF month, s, r

LEMMA OtherDue ==
  ASSUME NEW plan \in Plans, NEW k \in Nat \ {0}
  PROVE  /\ plan.interval = "Day" => Pocket!DueDate(plan, k) = plan.start + (k - 1) * TicksPerDay
         /\ plan.interval = "Week" =>
              Pocket!DueDate(plan, k) = plan.start + (k - 1) * DaysPerWeek * TicksPerDay
BY DEF Pocket!DueDate

LEMMA FirstDue ==
  ASSUME NEW plan \in Plans, plan.start <= LastTick
  PROVE  Reaches(plan, 1) /\ Pocket!DueDate(plan, 1) = plan.start
<1>1. plan.start \in Nat /\ plan.interval \in {"Day", "Week", "Month"}
  BY DEF Plans, Pocket!Intervals
<1> DEFINE m == FirstMonth(plan)
           d == Pocket!DayOfMonth(plan.start)
<1>2. m \in CalendarMonths /\ m \in Nat /\ Pocket!Day(plan.start) = MonthStarts[m] + d
      /\ d \in Nat
  <2>1. m \in CalendarMonths /\ Pocket!Day(plan.start) = MonthStarts[m] + d
        /\ d \in 0 .. Pocket!DaysIn(m) - 1
    BY <1>1, ReachedMonth DEF FirstMonth
  <2> QED BY <2>1, DaysOfMonths, CalendarFacts DEF CalendarMonths
<1>3. m + 1 - 1 = m
  BY <1>2
<1>4. Reaches(plan, 1)
  BY <1>2, <1>3 DEF Reaches
<1>5. CASE plan.interval = "Month"
  <2>1. LastDays(plan, m) = {d}
    <3>1. (m + 1) .. m = {}
      BY <1>2
    <3> QED BY <3>1 DEF LastDays
  <2>2. Shortest(plan, m) = d
    <3> HIDE DEF d
    <3>1. {d} \in SUBSET Nat /\ d \in {d} /\ \A y \in {d} : d <= y
      BY <1>2
    <3> QED BY <2>1, <3>1, MinIs DEF Shortest
  <2>3. Pocket!DueDate(plan, 1) = Pocket!Midnight(MonthStarts[m] + d) + Pocket!TimeOfDay(plan.start)
    BY <1>3, <1>4, <1>5, <2>2, MonthlyDue
  <2>4. plan.start = Pocket!Midnight(Pocket!Day(plan.start)) + Pocket!TimeOfDay(plan.start)
    BY <1>1, Ticks
  <2> QED BY <1>2, <1>4, <2>3, <2>4
<1>6. CASE plan.interval = "Day"
  <2>1. Pocket!DueDate(plan, 1) = plan.start + (1 - 1) * TicksPerDay
    BY <1>6, OtherDue
  <2> QED BY <1>1, <1>4, <2>1, CalendarFacts
<1>7. CASE plan.interval = "Week"
  <2>1. Pocket!DueDate(plan, 1) = plan.start + (1 - 1) * DaysPerWeek * TicksPerDay
    BY <1>7, OtherDue
  <2> QED BY <1>1, <1>4, <2>1, CalendarFacts
<1> QED BY <1>1, <1>5, <1>6, <1>7

LEMMA DueType ==
  ASSUME NEW plan \in Plans, plan.start <= LastTick, NEW k \in Nat \ {0}, Reaches(plan, k)
  PROVE  Pocket!DueDate(plan, k) \in Nat
<1>1. plan.start \in Nat /\ plan.interval \in {"Day", "Week", "Month"}
  BY DEF Plans, Pocket!Intervals
<1>2. CASE plan.interval = "Month"
  BY <1>2, MonthlyDue
<1>3. CASE plan.interval = "Day"
  <2>1. k - 1 \in Nat
    OBVIOUS
  <2>2. (k - 1) * TicksPerDay \in Nat
    BY <2>1, CalendarFacts
  <2> QED BY <1>1, <1>3, <2>2, OtherDue
<1>4. CASE plan.interval = "Week"
  <2>1. k - 1 \in Nat
    OBVIOUS
  <2>2. (k - 1) * DaysPerWeek \in Nat
    BY <2>1, CalendarFacts
  <2>3. (k - 1) * DaysPerWeek * TicksPerDay \in Nat
    BY <2>2, CalendarFacts
  <2> QED BY <1>1, <1>4, <2>3, OtherDue
<1> QED BY <1>1, <1>2, <1>3, <1>4

\* The date that CalculateNextRunDate gives is the next of the plan.
LEMMA NextDue ==
  ASSUME NEW plan \in Plans, plan.start <= LastTick, NEW k \in Nat \ {0}, Reaches(plan, k),
         Pocket!DueDate(plan, k) <= LastTick
  PROVE  LET due == Pocket!DueDate(plan, k)
         IN /\ Reaches(plan, k + 1)
            /\ Pocket!DueDate(plan, k + 1) =
                 CASE plan.interval = "Day" -> due + TicksPerDay
                   [] plan.interval = "Week" -> due + DaysPerWeek * TicksPerDay
                   [] plan.interval = "Month" -> Pocket!AddMonth(due)
<1> DEFINE due == Pocket!DueDate(plan, k)
           after == Pocket!DueDate(plan, k + 1)
<1>1. plan.start \in Nat /\ plan.interval \in {"Day", "Week", "Month"}
  BY DEF Plans, Pocket!Intervals
<1>2. due \in Nat /\ k + 1 \in Nat \ {0} /\ (k + 1) - 1 = k /\ k - 1 \in Nat
  BY DueType
<1>3. CASE plan.interval = "Day"
  <2>1. due = plan.start + (k - 1) * TicksPerDay /\ after = plan.start + k * TicksPerDay
    BY <1>2, <1>3, OtherDue
  <2>2. (k - 1) * TicksPerDay + TicksPerDay = k * TicksPerDay /\ (k - 1) * TicksPerDay \in Nat
    BY <1>2, CalendarFacts
  <2>3. after = due + TicksPerDay
    BY <1>1, <2>1, <2>2, CalendarFacts
  <2>4. Reaches(plan, k + 1)
    BY <1>3 DEF Reaches
  <2> QED BY <1>3, <2>3, <2>4
<1>4. CASE plan.interval = "Week"
  <2> DEFINE w == DaysPerWeek * TicksPerDay
  <2>1. /\ due = plan.start + (k - 1) * DaysPerWeek * TicksPerDay
        /\ after = plan.start + k * DaysPerWeek * TicksPerDay
    BY <1>2, <1>4, OtherDue
  <2>2. /\ (k - 1) * DaysPerWeek * TicksPerDay = (k - 1) * w
        /\ k * DaysPerWeek * TicksPerDay = k * w /\ w \in Nat
    BY <1>2, CalendarFacts
  <2> HIDE DEF w
  <2>3. (k - 1) * w + w = k * w /\ (k - 1) * w \in Nat
    BY <1>2, <2>2
  <2>4. after = due + w
    BY <1>1, <2>1, <2>2, <2>3
  <2>5. Reaches(plan, k + 1)
    BY <1>4 DEF Reaches
  <2> QED BY <1>4, <2>4, <2>5 DEF w
<1>5. CASE plan.interval = "Month"
  <2> DEFINE month == FirstMonth(plan) + k - 1
  <2>1. /\ month \in CalendarMonths /\ FirstMonth(plan) <= month
        /\ Pocket!TimeOfDay(due) = Pocket!TimeOfDay(plan.start)
        /\ Pocket!Month(Pocket!Day(due)) = month
        /\ Pocket!DayOfMonth(due) = Shortest(plan, month)
    BY <1>5, MonthlyDue
  <2>2. month + 1 \in CalendarMonths
    <3> HIDE DEF due
    <3> QED BY <1>2, <2>1, ReachedMonth DEF due
  <2>3. FirstMonth(plan) + (k + 1) - 1 = month + 1
    <3>1. FirstMonth(plan) \in Nat
      BY FirstMonthType
    <3> QED BY <3>1
  <2>4. Reaches(plan, k + 1)
    BY <2>2, <2>3 DEF Reaches
  <2>5. after = Pocket!Midnight(MonthStarts[month + 1] + Shortest(plan, month + 1)) + Pocket!TimeOfDay(plan.start)
    BY <1>2, <1>5, <2>3, <2>4, MonthlyDue
  <2>6. Shortest(plan, month + 1) = Pocket!Min({Shortest(plan, month), Pocket!DaysIn(month + 1) - 1})
    BY <2>1, <2>2, ShortestNext
  <2> HIDE DEF due, after, month
  <2>7. Pocket!AddMonth(due) = after
    BY <2>1, <2>5, <2>6 DEF Pocket!AddMonth
  <2> QED BY <1>5, <2>4, <2>7 DEF due, after
<1> QED BY <1>1, <1>3, <1>4, <1>5

(***************************************************************************)
(* One run of the scheduler: the accounts between its payments, and sums   *)
(* of which one summand grows.                                             *)
(***************************************************************************)
KeptAccounts ==
  {a \in [old : Int, transactions : Seq(Int), archived : Seq(Int)] :
     Len(a.transactions) <= PocketTransactions}

BalanceOf(a) == a.old + Total(a.transactions)

LEMMA PocketAdds ==
  ASSUME NEW a \in KeptAccounts, NEW x \in Int
  PROVE  /\ Pocket!AddTransaction(a, x) \in KeptAccounts
         /\ BalanceOf(Pocket!AddTransaction(a, x)) = BalanceOf(a) + x
         /\ BalanceOf(a) \in Int
<1> DEFINE s == Append(a.transactions, x)
           y == [a EXCEPT !.transactions = Append(@, x)]
           b == Pocket!AddTransaction(a, x)
<1>1. /\ a.old \in Int /\ a.transactions \in Seq(Int) /\ a.archived \in Seq(Int)
      /\ Len(a.transactions) <= PocketTransactions
      /\ PocketTransactions \in Nat \ {0} /\ Len(a.transactions) \in Nat
  BY TardisBankAssumption DEF KeptAccounts
<1>2. s \in Seq(Int) /\ Len(s) = Len(a.transactions) + 1 /\ s # <<>>
  BY <1>1, AppendProperties
<1>3. /\ Head(s) \in Int /\ Tail(s) \in Seq(Int) /\ Len(Tail(s)) = Len(s) - 1
      /\ Append(a.archived, Head(s)) \in Seq(Int)
  BY <1>1, <1>2, HeadTailProperties
<1>4. /\ Total(s) = Total(a.transactions) + x /\ Total(a.transactions) \in Int
      /\ Total(s) = Head(s) + Total(Tail(s)) /\ Total(Tail(s)) \in Int
  BY <1>1, <1>2, <1>3, TotalAppend, TotalTail, TotalType
<1>5. y.old = a.old /\ y.transactions = s /\ y.archived = a.archived
      /\ y \in [old : Int, transactions : Seq(Int), archived : Seq(Int)]
  <2>1. a \in [old : Int, transactions : Seq(Int), archived : Seq(Int)]
    BY DEF KeptAccounts
  <2> QED BY <1>2, <2>1
<1>6. b = Pocket!RemoveOldTransactions(y)
  BY DEF Pocket!AddTransaction
<1> HIDE DEF y
<1>7. b = IF Len(s) <= PocketTransactions THEN y
          ELSE [old |-> a.old + Head(s), transactions |-> Tail(s),
                archived |-> Append(a.archived, Head(s))]
  BY <1>5, <1>6 DEF Pocket!RemoveOldTransactions, Pocket!Oldest
<1> HIDE DEF s, b
<1>8. CASE Len(s) <= PocketTransactions
  <2>1. b = y /\ b \in KeptAccounts
    BY <1>5, <1>7, <1>8 DEF KeptAccounts
  <2> QED BY <1>1, <1>4, <1>5, <2>1 DEF BalanceOf, b
<1>9. CASE ~(Len(s) <= PocketTransactions)
  <2>1. b = [old |-> a.old + Head(s), transactions |-> Tail(s), archived |-> Append(a.archived, Head(s))]
    BY <1>7, <1>9
  <2>2. /\ b.old = a.old + Head(s) /\ b.transactions = Tail(s)
        /\ b \in [old : Int, transactions : Seq(Int), archived : Seq(Int)]
    BY <1>1, <1>3, <2>1
  <2>3. Len(b.transactions) <= PocketTransactions
    <3>1. Len(b.transactions) = Len(s) - 1
      BY <1>3, <2>2
    <3> QED BY <1>1, <1>2, <3>1
  <2>4. b \in KeptAccounts
    BY <2>2, <2>3 DEF KeptAccounts
  <2>5. BalanceOf(b) = a.old + Head(s) + Total(Tail(s)) /\ BalanceOf(a) = a.old + Total(a.transactions)
    BY <2>2 DEF BalanceOf
  <2>6. BalanceOf(b) = BalanceOf(a) + x /\ BalanceOf(a) \in Int
    <3> DEFINE o == a.old
               h == Head(s)
               t == Total(Tail(s))
               u == Total(s)
               v == Total(a.transactions)
    <3>1. o \in Int /\ h \in Int /\ t \in Int /\ v \in Int /\ u = v + x /\ u = h + t
      BY <1>1, <1>3, <1>4
    <3>2. BalanceOf(b) = o + h + t /\ BalanceOf(a) = o + v
      BY <2>5
    <3> HIDE DEF o, h, t, u, v
    <3> QED BY <3>1, <3>2
  <2> QED BY <2>4, <2>6 DEF b
<1> QED BY <1>8, <1>9

Schedules == [id : Nat, next : Nat, interval : Pocket!Intervals, amount : ScheduledAmounts]

\* The accounts after the first payments of a run.
Runs(n, f) ==
  /\ f \in [0 .. n -> KeptAccounts]
  /\ f[0] = Pocket!State
  /\ \A i \in 1 .. n :
       f[i] = IF Pocket!Overdue(schedules[i])
              THEN Pocket!AddTransaction(f[i - 1], schedules[i].amount) ELSE f[i - 1]

LEMMA RunsExist ==
  ASSUME schedules \in Seq(Schedules), Pocket!State \in KeptAccounts
  PROVE  \E f : Runs(Len(schedules), f)
<1> DEFINE T == {n \in 0 .. Len(schedules) : ~\E f : Runs(n, f)}
<1>1. SUFFICES ASSUME T # {} PROVE FALSE
  OBVIOUS
<1>2. PICK n \in T : \A m \in T : n <= m
  <2>1. T \in SUBSET Nat
    OBVIOUS
  <2> HIDE DEF T
  <2> QED BY <1>1, <2>1, Least
<1>3. Runs(0, [i \in 0 .. 0 |-> Pocket!State])
  BY DEF Runs
<1>4. n # 0 /\ n \in 1 .. Len(schedules) /\ n - 1 \in 0 .. Len(schedules) /\ n - 1 \notin T
  <2>1. Len(schedules) \in Nat /\ n \in 0 .. Len(schedules) /\ 0 \notin T
    BY <1>3
  <2> HIDE DEF T
  <2>2. n # 0
    BY <2>1
  <2> QED BY <1>2, <2>1, <2>2
<1>5. PICK f : Runs(n - 1, f)
  BY <1>4
<1> DEFINE s == schedules[n]
           last == IF Pocket!Overdue(s) THEN Pocket!AddTransaction(f[n - 1], s.amount) ELSE f[n - 1]
           g == [i \in 0 .. n |-> IF i = n THEN last ELSE f[i]]
<1>6. last \in KeptAccounts
  <2>1. f[n - 1] \in KeptAccounts
    BY <1>4, <1>5 DEF Runs
  <2>2. s.amount \in Int
    <3>1. s \in Schedules
      BY <1>4
    <3>2. s.amount \in ScheduledAmounts
      BY <3>1 DEF Schedules
    <3>3. \A amount \in ScheduledAmounts : amount \in Int
      BY TardisBankAssumption DEF Stored!BankAssumption
    <3> QED BY <3>2, <3>3
  <2> QED BY <2>1, <2>2, PocketAdds
<1> HIDE DEF last
<1>7. /\ g \in [0 .. n -> KeptAccounts] /\ g[n] = last
      /\ \A i \in 0 .. n - 1 : g[i] = f[i]
  BY <1>4, <1>5, <1>6 DEF Runs
<1> HIDE DEF g
<1>8. Runs(n, g)
  <2>1. g[0] = Pocket!State
    BY <1>4, <1>5, <1>7 DEF Runs
  <2>2. ASSUME NEW i \in 1 .. n
        PROVE  g[i] = IF Pocket!Overdue(schedules[i])
                      THEN Pocket!AddTransaction(g[i - 1], schedules[i].amount) ELSE g[i - 1]
    <3>1. i - 1 \in 0 .. n - 1 /\ (i = n \/ i \in 1 .. n - 1) /\ (i \in 1 .. n - 1 => i \in 0 .. n - 1)
      BY <1>4
    <3>2. CASE i = n
      BY <1>7, <3>1, <3>2 DEF last
    <3>3. CASE i \in 1 .. n - 1
      BY <1>5, <1>7, <3>1, <3>3 DEF Runs
    <3> QED BY <3>1, <3>2, <3>3
  <2> QED BY <1>7, <2>1, <2>2 DEF Runs
<1> QED BY <1>2, <1>8

LEMMA PaymentsRun ==
  ASSUME schedules \in Seq(Schedules), NEW f, Runs(Len(schedules), f)
  PROVE  Pocket!Payments(Len(schedules)) = f[Len(schedules)]
<1> DEFINE n == Len(schedules)
           Recursion(g) == g = [i \in 0 .. n |->
             IF i = 0 THEN Pocket!State
             ELSE IF Pocket!Overdue(schedules[i])
                  THEN Pocket!AddTransaction(g[i - 1], schedules[i].amount) ELSE g[i - 1]]
           g == CHOOSE g : Recursion(g)
<1>1. n \in Nat
  OBVIOUS
<1>2. Recursion(f)
  <2>1. \A i \in 0 .. n :
          f[i] = IF i = 0 THEN Pocket!State
                 ELSE IF Pocket!Overdue(schedules[i])
                      THEN Pocket!AddTransaction(f[i - 1], schedules[i].amount) ELSE f[i - 1]
    BY <1>1 DEF Runs
  <2>2. f \in [0 .. n -> KeptAccounts]
    BY DEF Runs
  <2> QED BY <2>1, <2>2
<1>3. Recursion(g)
  <2> HIDE DEF Recursion
  <2> QED BY <1>2
<1>4. Pocket!Payments(n) = g[n]
  BY Zenon DEF Pocket!Payments
<1> DEFINE T == {i \in 0 .. n : g[i] # f[i]}
<1> HIDE DEF g
<1>5. \A i \in 1 .. n : g[i] = IF Pocket!Overdue(schedules[i])
                               THEN Pocket!AddTransaction(g[i - 1], schedules[i].amount) ELSE g[i - 1]
  BY <1>3
<1>6. ASSUME T # {} PROVE FALSE
  <2>1. PICK i \in T : \A m \in T : i <= m
    <3>1. T \in SUBSET Nat
      BY <1>1
    <3> HIDE DEF T
    <3> QED BY <1>6, <3>1, Least
  <2>2. i # 0 /\ i \in 1 .. n /\ i - 1 \in 0 .. n /\ i - 1 \notin T
    <3>1. i \in 0 .. n
      OBVIOUS
    <3>2. i # 0
      BY <1>1, <1>3, <3>1 DEF Runs
    <3> HIDE DEF T
    <3> QED BY <1>1, <2>1, <3>1, <3>2
  <2>3. f[i - 1] = g[i - 1]
    BY <2>2
  <2>4. f[i] = g[i]
    BY <1>5, <2>2, <2>3 DEF Runs
  <2> QED BY <2>4
<1>7. n \notin T /\ n \in 0 .. n
  BY <1>1, <1>6
<1> QED BY <1>4, <1>7

\* One summand grows.
LEMMA TotalGrows ==
  ASSUME NEW a \in Seq(Int), NEW k \in 1 .. Len(a), NEW x \in Int
  PROVE  /\ [a EXCEPT ![k] = a[k] + x] \in Seq(Int)
         /\ Total([a EXCEPT ![k] = a[k] + x]) = Total(a) + x
<1> DEFINE b == [a EXCEPT ![k] = a[k] + x]
           n == Len(a)
<1>1. PICK f : Sums(a, f)
  BY SumsExist
<1>2. a[k] + x \in Int /\ a[k] \in Int /\ n \in Nat /\ k \in 1 .. n
  OBVIOUS
<1>3. b \in Seq(Int) /\ Len(b) = n /\ \A i \in 1 .. n : b[i] = IF i = k THEN a[k] + x ELSE a[i]
  BY <1>2, ExceptSeq
<1> DEFINE g == [i \in 0 .. n |-> IF i < k THEN f[i] ELSE f[i] + x]
<1>4. f \in [0 .. n -> Int] /\ f[0] = 0 /\ \A i \in 1 .. n : f[i] = f[i - 1] + a[i]
  BY <1>1 DEF Sums
<1> HIDE DEF b
<1>5. g \in [0 .. n -> Int] /\ \A i \in 0 .. n : g[i] = IF i < k THEN f[i] ELSE f[i] + x
  BY <1>4
<1> HIDE DEF g
<1>6. Sums(b, g)
  <2>1. g[0] = 0
    BY <1>2, <1>4, <1>5
  <2>2. ASSUME NEW i \in 1 .. n PROVE g[i] = g[i - 1] + b[i]
    <3>1. i - 1 \in 0 .. n /\ i \in 0 .. n /\ i \in Int /\ k \in Int
      BY <1>2
    <3>2. f[i] = f[i - 1] + a[i]
      BY <1>4
    <3>3. a[i] \in Int
      BY <1>2
    <3>4. f[i] \in Int /\ f[i - 1] \in Int
      BY <1>4, <3>1
    <3>5. /\ g[i] = IF i < k THEN f[i] ELSE f[i] + x
          /\ g[i - 1] = IF i - 1 < k THEN f[i - 1] ELSE f[i - 1] + x
          /\ b[i] = IF i = k THEN a[k] + x ELSE a[i]
      BY <1>3, <1>5, <3>1
    <3> DEFINE p == f[i]
               q == f[i - 1]
               y == a[i]
    <3>6. p \in Int /\ q \in Int /\ y \in Int /\ p = q + y
      BY <3>2, <3>3, <3>4
    <3>7. /\ g[i] = IF i < k THEN p ELSE p + x
          /\ g[i - 1] = IF i - 1 < k THEN q ELSE q + x
          /\ b[i] = IF i = k THEN y + x ELSE y
      BY <3>5
    <3> HIDE DEF p, q, y
    <3> QED BY <3>1, <3>6, <3>7
  <2> QED BY <1>3, <1>5, <2>1, <2>2 DEF Sums
<1>7. Total(b) = g[n] /\ Total(a) = f[n]
  BY <1>1, <1>3, <1>6, TotalIsSum
<1>8. g[n] = f[n] + x
  BY <1>2, <1>5
<1> QED BY <1>3, <1>7, <1>8 DEF b

\* What a plan has paid by a time, and the schedule that goes on with it.
PaidDues(plan, t) ==
  \A k \in DOMAIN plan.dues : plan.dues[k] = Pocket!DueDate(plan, k) /\ plan.dues[k] <= t

Follows(s, plan) ==
  /\ s.interval = plan.interval /\ s.amount = plan.amount
  /\ Reaches(plan, Len(plan.dues) + 1)
  /\ s.next = Pocket!DueDate(plan, Len(plan.dues) + 1)

LEMMA SameDates ==
  ASSUME NEW p, NEW q, p.start = q.start, p.interval = q.interval, NEW k
  PROVE  Pocket!DueDate(p, k) = Pocket!DueDate(q, k) /\ Reaches(p, k) = Reaches(q, k)
<1>1. Pocket!DueDate(p, k) = Pocket!DueDate(q, k)
  BY DEF Pocket!DueDate
<1>2. Reaches(p, k) = Reaches(q, k)
  BY DEF Reaches, FirstMonth
<1> QED BY <1>1, <1>2

\* One payment: the date that was next is the newest one paid, and the date
\* that is next now is the one after it.
LEMMA PlanGoesOn ==
  ASSUME NEW plan \in Plans, plan.start <= LastTick, NEW t \in 0 .. LastTick, PaidDues(plan, t),
         NEW s \in Schedules, Follows(s, plan), s.next <= t,
         NEW q, q = [plan EXCEPT !.dues = Append(@, s.next)],
         NEW r, r = Pocket!CalculateNextRunDate(s)
  PROVE  /\ q \in Plans /\ q.start = plan.start /\ q.amount = plan.amount
         /\ Len(q.dues) = Len(plan.dues) + 1 /\ PaidDues(q, t)
         /\ r \in Schedules /\ r.id = s.id /\ Follows(r, q)
<1> DEFINE n == Len(plan.dues)
<1>1. /\ plan.dues \in Seq(Nat) /\ n \in Nat /\ n + 1 \in Nat \ {0}
      /\ s.next \in Nat /\ DOMAIN plan.dues = 1 .. n
  BY DEF Plans, Schedules
<1>2. /\ Append(plan.dues, s.next) \in Seq(Nat) /\ Len(Append(plan.dues, s.next)) = n + 1
      /\ Append(plan.dues, s.next)[n + 1] = s.next
      /\ \A k \in 1 .. n : Append(plan.dues, s.next)[k] = plan.dues[k]
  BY <1>1, AppendProperties
<1>3. q.start = plan.start /\ q.interval = plan.interval /\ q.amount = plan.amount
      /\ q.dues = Append(plan.dues, s.next) /\ q \in Plans
  BY <1>2 DEF Plans
<1>4. Len(q.dues) = n + 1 /\ DOMAIN q.dues = 1 .. n + 1
  BY <1>2, <1>3
<1>5. \A k : Pocket!DueDate(q, k) = Pocket!DueDate(plan, k) /\ Reaches(q, k) = Reaches(plan, k)
  BY <1>3, SameDates
<1>6. s.next = Pocket!DueDate(plan, n + 1) /\ Reaches(plan, n + 1)
      /\ s.interval = plan.interval /\ s.amount = plan.amount
  BY DEF Follows
<1>7. PaidDues(q, t)
  <2>1. ASSUME NEW k \in 1 .. n + 1 PROVE q.dues[k] = Pocket!DueDate(q, k) /\ q.dues[k] <= t
    <3>1. k = n + 1 \/ k \in 1 .. n
      BY <1>1
    <3>2. CASE k = n + 1
      BY <1>2, <1>3, <1>5, <1>6, <3>2
    <3>3. CASE k \in 1 .. n
      BY <1>1, <1>2, <1>3, <1>5, <3>3 DEF PaidDues
    <3> QED BY <3>1, <3>2, <3>3
  <2> QED BY <1>4, <2>1 DEF PaidDues
<1>8. Pocket!DueDate(plan, n + 1) <= LastTick
  <2>1. t <= LastTick /\ LastTick \in Nat /\ t \in Nat
    BY CalendarFacts
  <2> QED BY <1>1, <1>6, <2>1
<1>9. /\ Reaches(plan, n + 2)
      /\ Pocket!DueDate(plan, n + 2) =
           CASE plan.interval = "Day" -> s.next + TicksPerDay
             [] plan.interval = "Week" -> s.next + DaysPerWeek * TicksPerDay
             [] plan.interval = "Month" -> Pocket!AddMonth(s.next)
  <2>1. (n + 1) + 1 = n + 2
    BY <1>1
  <2> HIDE DEF n
  <2>2. LET due == Pocket!DueDate(plan, n + 1)
         IN /\ Reaches(plan, (n + 1) + 1)
            /\ Pocket!DueDate(plan, (n + 1) + 1) =
                 CASE plan.interval = "Day" -> due + TicksPerDay
                   [] plan.interval = "Week" -> due + DaysPerWeek * TicksPerDay
                   [] plan.interval = "Month" -> Pocket!AddMonth(due)
    BY <1>1, <1>6, <1>8, NextDue
  <2> QED BY <1>6, <2>1, <2>2
<1>10. Pocket!DueDate(plan, n + 2) \in Nat
  <2>1. n + 2 \in Nat \ {0}
    BY <1>1
  <2> HIDE DEF n
  <2> QED BY <1>9, <2>1, DueType
<1>11. /\ r.next = Pocket!DueDate(plan, n + 2) /\ r.id = s.id
       /\ r.interval = s.interval /\ r.amount = s.amount /\ r \in Schedules
  <2> DEFINE x == CASE s.interval = "Day" -> s.next + TicksPerDay
                    [] s.interval = "Week" -> s.next + DaysPerWeek * TicksPerDay
                    [] s.interval = "Month" -> Pocket!AddMonth(s.next)
  <2>1. r = [s EXCEPT !.next = x]
    BY DEF Pocket!CalculateNextRunDate
  <2>2. x = Pocket!DueDate(plan, n + 2)
    BY <1>6, <1>9
  <2>3. x \in Nat
    BY <1>10, <2>2
  <2> HIDE DEF x
  <2> QED BY <2>1, <2>2, <2>3 DEF Schedules
<1>12. Follows(r, q)
  <2>1. Len(q.dues) + 1 = n + 2
    BY <1>1, <1>4
  <2> QED BY <1>3, <1>5, <1>6, <1>9, <1>11, <2>1 DEF Follows
<1> QED BY <1>3, <1>4, <1>7, <1>11, <1>12

(***************************************************************************)
(* What the plans have paid, each with one payment more if it is in D.     *)
(***************************************************************************)
Owed(plan, more) == plan.amount * (Len(plan.dues) + more)

Counted(P, D) == [id \in DOMAIN P |-> Owed(P[id], IF id \in D THEN 1 ELSE 0)]

LEMMA OwedType ==
  ASSUME NEW plan \in Plans
  PROVE  /\ Owed(plan, 0) \in Int /\ Owed(plan, 1) \in Int /\ plan.amount \in Int
         /\ Owed(plan, 0) = plan.amount * Len(plan.dues)
         /\ Owed(plan, 1) = Owed(plan, 0) + plan.amount
<1> DEFINE x == plan.amount
           n == Len(plan.dues)
<1>1. x \in Int /\ n \in Int
  <2>1. x \in ScheduledAmounts /\ n \in Nat
    BY DEF Plans
  <2>2. \A amount \in ScheduledAmounts : amount \in Int
    BY TardisBankAssumption DEF Stored!BankAssumption
  <2> QED BY <2>1, <2>2
<1>2. Owed(plan, 0) = x * (n + 0) /\ Owed(plan, 1) = x * (n + 1)
  BY DEF Owed
<1> HIDE DEF x, n
<1>3. x * (n + 0) \in Int /\ x * (n + 0) = x * n /\ x * (n + 1) = x * (n + 0) + x
  BY <1>1
<1> QED BY <1>1, <1>2, <1>3 DEF x, n

LEMMA CountedType ==
  ASSUME NEW P \in Seq(Plans), NEW D
  PROVE  /\ Counted(P, D) \in Seq(Int) /\ Len(Counted(P, D)) = Len(P)
         /\ \A id \in 1 .. Len(P) : Counted(P, D)[id] = Owed(P[id], IF id \in D THEN 1 ELSE 0)
<1>1. DOMAIN P = 1 .. Len(P) /\ Len(P) \in Nat
  OBVIOUS
<1>2. ASSUME NEW id \in 1 .. Len(P) PROVE Owed(P[id], IF id \in D THEN 1 ELSE 0) \in Int
  <2>1. P[id] \in Plans
    OBVIOUS
  <2>2. Owed(P[id], 0) \in Int /\ Owed(P[id], 1) \in Int
    BY <2>1, OwedType
  <2>3. CASE id \in D
    BY <2>2, <2>3
  <2>4. CASE id \notin D
    BY <2>2, <2>4
  <2> QED BY <2>3, <2>4
<1> DEFINE c == Counted(P, D)
<1>3. c \in [1 .. Len(P) -> Int]
      /\ \A id \in 1 .. Len(P) : c[id] = Owed(P[id], IF id \in D THEN 1 ELSE 0)
  BY <1>1, <1>2 DEF Counted
<1> HIDE DEF c
<1>4. c \in Seq(Int) /\ Len(c) = Len(P)
  BY <1>1, <1>3
<1> QED BY <1>3, <1>4 DEF c

LEMMA CountedGrows ==
  ASSUME NEW P \in Seq(Plans), NEW D, NEW id \in 1 .. Len(P), id \notin D
  PROVE  Total(Counted(P, D \cup {id})) = Total(Counted(P, D)) + P[id].amount
<1> DEFINE E == D \cup {id}
           a == Counted(P, D)
           b == Counted(P, E)
           x == P[id].amount
<1>1. id \in E /\ \A i : i # id => (i \in E <=> i \in D)
  OBVIOUS
<1> HIDE DEF E
<1>2. /\ a \in Seq(Int) /\ Len(a) = Len(P)
      /\ \A i \in 1 .. Len(P) : a[i] = Owed(P[i], IF i \in D THEN 1 ELSE 0)
  BY CountedType
<1>3. /\ b \in Seq(Int) /\ Len(b) = Len(P)
      /\ \A i \in 1 .. Len(P) : b[i] = Owed(P[i], IF i \in E THEN 1 ELSE 0)
  BY CountedType
<1> HIDE DEF a, b
<1>4. a[id] = Owed(P[id], 0) /\ b[id] = Owed(P[id], 1)
  BY <1>1, <1>2, <1>3
<1>5. x \in Int /\ b[id] = a[id] + x
  <2>1. P[id] \in Plans
    OBVIOUS
  <2> QED BY <1>4, <2>1, OwedType
<1> HIDE DEF x
<1>6. \A i \in 1 .. Len(P) : i # id => b[i] = a[i]
  BY <1>1, <1>2, <1>3
<1>7. id \in 1 .. Len(a)
  BY <1>2
<1> DEFINE c == [a EXCEPT ![id] = a[id] + x]
<1>8. c \in Seq(Int) /\ Total(c) = Total(a) + x
  BY <1>2, <1>5, <1>7, TotalGrows
<1>9. Len(c) = Len(P) /\ c[id] = a[id] + x /\ \A i \in 1 .. Len(P) : i # id => c[i] = a[i]
  BY <1>2, <1>7
<1> HIDE DEF c
<1>10. b = c
  <2>1. \A i \in 1 .. Len(P) : b[i] = c[i]
    BY <1>5, <1>6, <1>9
  <2> QED BY <1>3, <1>8, <1>9, <2>1, SeqEqual
<1> QED BY <1>8, <1>10 DEF a, b, x, E

LEMMA CountedNone ==
  ASSUME NEW P \in Seq(Plans)
  PROVE  /\ Counted(P, {}) \in Seq(Int) /\ Len(Counted(P, {})) = Len(P)
         /\ \A id \in 1 .. Len(P) : Counted(P, {})[id] = P[id].amount * Len(P[id].dues)
<1> DEFINE D == {}
           c == Counted(P, D)
<1>1. \A id : id \notin D
  OBVIOUS
<1> HIDE DEF D
<1>2. /\ c \in Seq(Int) /\ Len(c) = Len(P)
      /\ \A id \in 1 .. Len(P) : c[id] = Owed(P[id], IF id \in D THEN 1 ELSE 0)
  BY CountedType
<1> HIDE DEF c
<1>3. ASSUME NEW id \in 1 .. Len(P) PROVE c[id] = P[id].amount * Len(P[id].dues)
  <2>1. P[id] \in Plans
    OBVIOUS
  <2>2. c[id] = Owed(P[id], 0)
    BY <1>1, <1>2
  <2> QED BY <2>1, <2>2, OwedType
<1> QED BY <1>2, <1>3 DEF c, D

(***************************************************************************)
(* Every schedule goes on with its own plan, at the date after those paid; *)
(* schedules refer to different plans, in order.                           *)
(***************************************************************************)
PocketTypes ==
  /\ pocketOld \in Int /\ pocketTransactions \in Seq(Int) /\ pocketArchived \in Seq(Int)
  /\ Len(pocketTransactions) <= PocketTransactions
  /\ now \in 0 .. LastTick
  /\ plans \in Seq(Plans) /\ schedules \in Seq(Schedules)

PlansArePaid == \A id \in DOMAIN plans : plans[id].start <= LastTick /\ PaidDues(plans[id], now)

SchedulesFollow ==
  \A i \in 1 .. Len(schedules) :
    schedules[i].id \in DOMAIN plans /\ Follows(schedules[i], plans[schedules[i].id])

SchedulesInOrder ==
  \A i, j \in 1 .. Len(schedules) : i < j => schedules[i].id < schedules[j].id

PocketIsBooked == BalanceOf(Pocket!State) = Total(Counted(plans, {}))

PocketInv == PocketTypes /\ PlansArePaid /\ SchedulesFollow /\ SchedulesInOrder /\ PocketIsBooked

LEMMA PocketState ==
  ASSUME PocketTypes
  PROVE  /\ Pocket!State \in KeptAccounts
         /\ Pocket!State.old = pocketOld /\ Pocket!State.transactions = pocketTransactions
         /\ Pocket!State.archived = pocketArchived
BY DEF PocketTypes, KeptAccounts, Pocket!State

LEMMA PocketBecomes ==
  ASSUME NEW a \in KeptAccounts, Pocket!Become(a)
  PROVE  /\ pocketOld' \in Int /\ pocketTransactions' \in Seq(Int) /\ pocketArchived' \in Seq(Int)
         /\ Len(pocketTransactions') <= PocketTransactions
         /\ BalanceOf(Pocket!State)' = BalanceOf(a)
<1>1. /\ a.old \in Int /\ a.transactions \in Seq(Int) /\ a.archived \in Seq(Int)
      /\ Len(a.transactions) <= PocketTransactions
  BY DEF KeptAccounts
<1>2. /\ pocketOld' = a.old /\ pocketTransactions' = a.transactions /\ pocketArchived' = a.archived
  BY DEF Pocket!Become
<1>3. BalanceOf(Pocket!State)' = pocketOld' + Total(pocketTransactions')
  BY DEF BalanceOf, Pocket!State
<1>4. BalanceOf(a) = a.old + Total(a.transactions)
  BY DEF BalanceOf
<1> QED BY <1>1, <1>2, <1>3, <1>4

LEMMA PocketStarts == Pocket!BankInit => PocketInv
<1> SUFFICES ASSUME Pocket!BankInit PROVE PocketInv
  OBVIOUS
<1>1. /\ pocketOld = 0 /\ pocketTransactions = <<>> /\ pocketArchived = <<>>
      /\ now = 0 /\ schedules = <<>> /\ plans = <<>>
  BY DEF Pocket!BankInit, Pocket!Init
<1>2. PocketTypes
  BY <1>1, CalendarFacts, TardisBankAssumption DEF PocketTypes
<1>3. DOMAIN plans = {} /\ Len(schedules) = 0
  BY <1>1
<1>4. PlansArePaid /\ SchedulesFollow /\ SchedulesInOrder
  BY <1>3 DEF PlansArePaid, SchedulesFollow, SchedulesInOrder
<1>5. PocketIsBooked
  <2>1. Counted(plans, {}) = <<>>
    <3>1. plans \in Seq(Plans) /\ Len(plans) = 0
      BY <1>1, <1>2 DEF PocketTypes
    <3>2. Counted(plans, {}) \in Seq(Int) /\ Len(Counted(plans, {})) = 0
      BY <3>1, CountedType
    <3> QED BY <3>2, EmptySeq
  <2>2. BalanceOf(Pocket!State) = 0 + Total(<<>>)
    BY <1>1, <1>2, PocketState DEF BalanceOf
  <2> QED BY <2>1, <2>2, TotalEmpty DEF PocketIsBooked
<1> QED BY <1>2, <1>4, <1>5 DEF PocketInv

LEMMA PocketTicks == PocketInv /\ Pocket!Tick => PocketInv'
<1> SUFFICES ASSUME PocketInv, Pocket!Tick PROVE PocketInv'
  OBVIOUS
<1>1. /\ now < LastTick /\ now' = now + 1
      /\ UNCHANGED <<pocketOld, pocketTransactions, pocketArchived, schedules, plans>>
  BY DEF Pocket!Tick, Pocket!account
<1>2. now \in 0 .. LastTick /\ now' \in 0 .. LastTick /\ now <= now'
  BY <1>1, CalendarFacts DEF PocketInv, PocketTypes
<1>3. PocketTypes'
  BY <1>1, <1>2 DEF PocketInv, PocketTypes
<1>4. PlansArePaid'
  <2>1. ASSUME NEW id \in DOMAIN plans
        PROVE  plans[id].start <= LastTick /\ PaidDues(plans[id], now')
    <3>1. plans[id] \in Plans /\ plans[id].start <= LastTick /\ PaidDues(plans[id], now)
      BY DEF PocketInv, PocketTypes, PlansArePaid
    <3>2. ASSUME NEW k \in DOMAIN plans[id].dues PROVE plans[id].dues[k] <= now'
      <4>1. plans[id].dues \in Seq(Nat)
        BY <3>1 DEF Plans
      <4>2. plans[id].dues[k] \in Nat
        BY <4>1
      <4>3. plans[id].dues[k] <= now
        BY <3>1 DEF PaidDues
      <4> QED BY <1>2, <4>2, <4>3
    <3> QED BY <3>1, <3>2 DEF PaidDues
  <2> QED BY <1>1, <2>1 DEF PlansArePaid
<1>5. SchedulesFollow' /\ SchedulesInOrder' /\ PocketIsBooked'
  BY <1>1 DEF PocketInv, SchedulesFollow, SchedulesInOrder, PocketIsBooked, Pocket!State
<1> QED BY <1>3, <1>4, <1>5 DEF PocketInv

LEMMA PocketRemoves == ASSUME PocketInv, NEW id, Pocket!RemovePaymentSchedule(id) PROVE PocketInv'
<1>1. PICK i \in 1 .. Len(schedules) : schedules' = Pocket!RemoveAt(schedules, i)
  BY DEF Pocket!RemovePaymentSchedule, Pocket!Positions
<1>2. UNCHANGED <<pocketOld, pocketTransactions, pocketArchived, now, plans>>
  BY DEF Pocket!RemovePaymentSchedule, Pocket!account
<1> DEFINE n == Len(schedules)
<1>3. /\ schedules \in Seq(Schedules) /\ n \in Nat /\ schedules' \in Seq(Schedules)
      /\ Len(schedules') = n - 1
      /\ \A j \in 1 .. n - 1 : schedules'[j] = IF j < i THEN schedules[j] ELSE schedules[j + 1]
  <2>1. schedules \in Seq(Schedules) /\ n \in Nat
    BY DEF PocketInv, PocketTypes
  <2>2. schedules' = SubSeq(schedules, 1, i - 1) \o SubSeq(schedules, i + 1, n)
    BY <1>1 DEF Pocket!RemoveAt
  <2> QED BY <2>1, <2>2, Removed
<1>4. PocketTypes' /\ PlansArePaid' /\ PocketIsBooked'
  BY <1>2, <1>3 DEF PocketInv, PocketTypes, PlansArePaid, PocketIsBooked, Pocket!State
<1>5. ASSUME NEW j \in 1 .. n - 1
      PROVE  \E k \in 1 .. n : schedules'[j] = schedules[k] /\ k = IF j < i THEN j ELSE j + 1
  <2>1. j \in 1 .. n /\ j + 1 \in 1 .. n
    BY <1>3
  <2> QED BY <1>3, <2>1
<1>6. SchedulesFollow'
  <2>1. \A k \in 1 .. n : schedules[k].id \in DOMAIN plans /\ Follows(schedules[k], plans[schedules[k].id])
    BY DEF PocketInv, SchedulesFollow
  <2>2. \A j \in 1 .. n - 1 :
          schedules'[j].id \in DOMAIN plans /\ Follows(schedules'[j], plans[schedules'[j].id])
    BY <1>5, <2>1
  <2> QED BY <1>2, <1>3, <2>2 DEF SchedulesFollow
<1>7. SchedulesInOrder'
  <2>1. ASSUME NEW j \in 1 .. n - 1, NEW k \in 1 .. n - 1, j < k
        PROVE  schedules'[j].id < schedules'[k].id
    <3>1. PICK x \in 1 .. n : schedules'[j] = schedules[x] /\ x = IF j < i THEN j ELSE j + 1
      BY <1>5
    <3>2. PICK y \in 1 .. n : schedules'[k] = schedules[y] /\ y = IF k < i THEN k ELSE k + 1
      BY <1>5
    <3>3. x < y
      BY <1>3, <2>1, <3>1, <3>2
    <3> QED BY <3>1, <3>2, <3>3 DEF PocketInv, SchedulesInOrder
  <2> QED BY <1>3, <2>1 DEF SchedulesInOrder
<1> QED BY <1>4, <1>6, <1>7 DEF PocketInv

LEMMA PocketAddsSchedule ==
  ASSUME PocketInv, NEW start \in Pocket!Midnight(Pocket!Day(now)) .. LastTick - TicksPerDay,
         NEW interval \in Pocket!Intervals, NEW amount \in ScheduledAmounts,
         Pocket!AddPaymentSchedule(start, interval, amount)
  PROVE  PocketInv'
<1> DEFINE n == Len(plans)
           m == Len(schedules)
           p == [start |-> start, interval |-> interval, amount |-> amount, dues |-> <<>>]
           s == [id |-> n + 1, next |-> start, interval |-> interval, amount |-> amount]
<1>1. /\ plans \in Seq(Plans) /\ schedules \in Seq(Schedules) /\ n \in Nat /\ m \in Nat
      /\ now \in 0 .. LastTick /\ DOMAIN plans = 1 .. n
  BY DEF PocketInv, PocketTypes
<1>2. start \in Nat /\ start <= LastTick
  <2>1. Pocket!Day(now) \in Nat /\ TicksPerDay \in Nat /\ LastTick \in Nat
    BY <1>1, Ticks, CalendarFacts
  <2>2. \A x, y \in Nat : x * y \in Nat
    OBVIOUS
  <2>3. Pocket!Midnight(Pocket!Day(now)) \in Nat
    BY <2>1, <2>2 DEF Pocket!Midnight
  <2> QED BY <2>1, <2>3
<1>3. p \in Plans /\ p.start = start /\ p.interval = interval /\ p.amount = amount /\ p.dues = <<>>
  BY <1>2 DEF Plans
<1>4. s \in Schedules /\ s.id = n + 1 /\ s.next = start /\ s.interval = interval /\ s.amount = amount
  BY <1>1, <1>2 DEF Schedules
<1>5. plans' = Append(plans, p) /\ schedules' = Append(schedules, s)
      /\ UNCHANGED <<pocketOld, pocketTransactions, pocketArchived, now>>
  BY DEF Pocket!AddPaymentSchedule, Pocket!account
<1> HIDE DEF p, s
<1>6. /\ plans' \in Seq(Plans) /\ Len(plans') = n + 1 /\ plans'[n + 1] = p
      /\ \A id \in 1 .. n : plans'[id] = plans[id]
  BY <1>1, <1>3, <1>5, AppendProperties
<1>7. /\ schedules' \in Seq(Schedules) /\ Len(schedules') = m + 1 /\ schedules'[m + 1] = s
      /\ \A i \in 1 .. m : schedules'[i] = schedules[i]
  BY <1>1, <1>4, <1>5, AppendProperties
<1>8. DOMAIN plans' = 1 .. n + 1
  BY <1>6
<1>9. /\ \A id \in 1 .. n : plans[id].start <= LastTick /\ PaidDues(plans[id], now)
      /\ \A i \in 1 .. m : schedules[i].id \in 1 .. n /\ Follows(schedules[i], plans[schedules[i].id])
      /\ \A i, j \in 1 .. m : i < j => schedules[i].id < schedules[j].id
  BY <1>1 DEF PocketInv, PlansArePaid, SchedulesFollow, SchedulesInOrder
<1>10. PaidDues(p, now) /\ Follows(s, p)
  <2>1. Reaches(p, 1) /\ Pocket!DueDate(p, 1) = start
    BY <1>2, <1>3, FirstDue
  <2>2. DOMAIN p.dues = {} /\ Len(p.dues) + 1 = 1
    BY <1>3
  <2>3. PaidDues(p, now)
    BY <2>2 DEF PaidDues
  <2>4. Follows(s, p)
    BY <1>3, <1>4, <2>1, <2>2 DEF Follows
  <2> QED BY <2>3, <2>4
<1>11. PocketTypes'
  BY <1>5, <1>6, <1>7 DEF PocketInv, PocketTypes
<1> HIDE DEF n, m
<1>12. \A i \in 1 .. n + 1 : i = n + 1 \/ i \in 1 .. n
  BY <1>1
<1>13. \A i \in 1 .. m + 1 : i = m + 1 \/ i \in 1 .. m
  BY <1>1
<1>14. PlansArePaid'
  <2>1. \A id \in 1 .. n + 1 : plans'[id].start <= LastTick /\ PaidDues(plans'[id], now)
    BY <1>2, <1>3, <1>6, <1>9, <1>10, <1>12
  <2> QED BY <1>5, <1>8, <2>1 DEF PlansArePaid
<1>15. SchedulesFollow'
  <2>1. ASSUME NEW i \in 1 .. m + 1
        PROVE  schedules'[i].id \in 1 .. n + 1 /\ Follows(schedules'[i], plans'[schedules'[i].id])
    <3>1. CASE i = m + 1
      BY <1>1, <1>4, <1>6, <1>7, <1>10, <3>1
    <3>2. CASE i \in 1 .. m
      <4>1. schedules'[i] = schedules[i] /\ schedules[i].id \in 1 .. n
        BY <1>7, <1>9, <3>2
      <4>2. schedules[i].id \in 1 .. n + 1
        BY <1>1, <4>1
      <4>3. plans'[schedules[i].id] = plans[schedules[i].id]
        BY <1>6, <4>1
      <4> QED BY <1>9, <3>2, <4>1, <4>2, <4>3
    <3> QED BY <1>13, <3>1, <3>2
  <2> QED BY <1>7, <1>8, <2>1 DEF SchedulesFollow
<1>16. SchedulesInOrder'
  <2>1. ASSUME NEW i \in 1 .. m + 1, NEW j \in 1 .. m + 1, i < j
        PROVE  schedules'[i].id < schedules'[j].id
    <3>1. i \in 1 .. m
      BY <1>1, <2>1
    <3>2. schedules'[i] = schedules[i] /\ schedules[i].id \in 1 .. n
      BY <1>7, <1>9, <3>1
    <3>3. CASE j = m + 1
      BY <1>1, <1>4, <1>7, <3>2, <3>3
    <3>4. CASE j \in 1 .. m
      BY <1>7, <1>9, <2>1, <3>1, <3>2, <3>4
    <3> QED BY <1>13, <3>3, <3>4
  <2> QED BY <1>7, <2>1 DEF SchedulesInOrder
<1>17. PocketIsBooked'
  <2> DEFINE a == Counted(plans, {})
             b == Counted(plans', {})
  <2>1. /\ a \in Seq(Int) /\ Len(a) = Len(plans)
        /\ \A id \in 1 .. Len(plans) : a[id] = plans[id].amount * Len(plans[id].dues)
    BY <1>1, CountedNone
  <2>2. /\ b \in Seq(Int) /\ Len(b) = Len(plans')
        /\ \A id \in 1 .. Len(plans') : b[id] = plans'[id].amount * Len(plans'[id].dues)
    BY <1>6, CountedNone
  <2> HIDE DEF a, b
  <2>3. b[n + 1] = 0
    <3>1. n + 1 \in 1 .. Len(plans') /\ Len(plans'[n + 1].dues) = 0 /\ plans'[n + 1].amount = amount
      BY <1>1, <1>3, <1>6
    <3>2. b[n + 1] = amount * 0
      BY <2>2, <3>1
    <3>3. amount \in Int
      <4>1. \A x \in ScheduledAmounts : x \in Int
        BY TardisBankAssumption DEF Stored!BankAssumption
      <4> QED BY <4>1
    <3> QED BY <3>2, <3>3
  <2>4. \A id \in 1 .. n : b[id] = a[id]
    <3>1. ASSUME NEW id \in 1 .. n PROVE b[id] = a[id]
      <4>1. id \in 1 .. Len(plans) /\ id \in 1 .. Len(plans')
        BY <1>1, <1>6 DEF n
      <4> QED BY <1>6, <2>1, <2>2, <4>1
    <3> QED BY <3>1
  <2> DEFINE c == Append(a, 0)
  <2>5. /\ c \in Seq(Int) /\ Len(c) = n + 1 /\ c[n + 1] = 0 /\ \A id \in 1 .. n : c[id] = a[id]
    BY <2>1, AppendProperties DEF n
  <2>6. Total(c) = Total(a) + 0 /\ Total(a) \in Int
    BY <2>1, TotalAppend, TotalType
  <2> HIDE DEF c
  <2>7. b = c
    <3>1. \A id \in 1 .. n + 1 : b[id] = c[id]
      BY <1>12, <2>3, <2>4, <2>5
    <3> QED BY <1>6, <2>2, <2>5, <3>1, SeqEqual
  <2>8. Total(b) = Total(a)
    BY <2>6, <2>7
  <2>9. BalanceOf(Pocket!State)' = BalanceOf(Pocket!State)
    BY <1>5 DEF BalanceOf, Pocket!State
  <2> QED BY <2>8, <2>9 DEF PocketInv, PocketIsBooked, a, b
<1> QED BY <1>11, <1>14, <1>15, <1>16, <1>17 DEF PocketInv

\* The plans that the first i schedules of a run pay.
PaidIds(i) == {schedules[j].id : j \in {k \in 1 .. i : Pocket!Overdue(schedules[k])}}

LEMMA OnePlanEach ==
  ASSUME PocketInv, NEW i \in 1 .. Len(schedules), NEW j \in 1 .. Len(schedules),
         schedules[i].id = schedules[j].id
  PROVE  i = j
<1>1. schedules \in Seq(Schedules) /\ i \in Int /\ j \in Int
  BY DEF PocketInv, PocketTypes
<1>2. schedules[i].id \in Nat
  <2>1. schedules[i] \in Schedules
    BY <1>1
  <2> QED BY <2>1 DEF Schedules
<1>3. (i < j => schedules[i].id < schedules[j].id) /\ (j < i => schedules[j].id < schedules[i].id)
  BY DEF PocketInv, SchedulesInOrder
<1> QED BY <1>1, <1>2, <1>3

\* The payments of a run add up to one amount for each plan that is paid.
LEMMA PaymentsAddUp ==
  ASSUME PocketInv, NEW f, Runs(Len(schedules), f)
  PROVE  \A i \in 0 .. Len(schedules) :
           f[i] \in KeptAccounts /\ BalanceOf(f[i]) = Total(Counted(plans, PaidIds(i)))
<1> DEFINE n == Len(schedules)
           AddsUp(i) == BalanceOf(f[i]) = Total(Counted(plans, PaidIds(i)))
           T == {i \in 0 .. n : ~AddsUp(i)}
<1>1. /\ schedules \in Seq(Schedules) /\ plans \in Seq(Plans) /\ n \in Nat
      /\ DOMAIN plans = 1 .. Len(plans)
  BY DEF PocketInv, PocketTypes
<1>2. /\ f \in [0 .. n -> KeptAccounts] /\ f[0] = Pocket!State
      /\ \A i \in 1 .. n : f[i] = IF Pocket!Overdue(schedules[i])
                                  THEN Pocket!AddTransaction(f[i - 1], schedules[i].amount) ELSE f[i - 1]
  BY DEF Runs
<1>3. AddsUp(0)
  <2>1. PaidIds(0) = {}
    BY DEF PaidIds
  <2> QED BY <1>2, <2>1 DEF PocketInv, PocketIsBooked
<1>4. ASSUME NEW i \in 1 .. n, AddsUp(i - 1) PROVE AddsUp(i)
  <2>1. i - 1 \in 0 .. n /\ f[i - 1] \in KeptAccounts
    <3>1. i - 1 \in 0 .. n
      BY <1>1
    <3> QED BY <1>2, <3>1
  <2>2. /\ schedules[i] \in Schedules /\ schedules[i].id \in 1 .. Len(plans)
        /\ schedules[i].amount = plans[schedules[i].id].amount
    <3>1. schedules[i] \in Schedules
      BY <1>1
    <3> QED BY <1>1, <3>1 DEF PocketInv, SchedulesFollow, Follows
  <2>3. \A k \in 1 .. i : k \in 1 .. n /\ (k = i \/ k \in 1 .. i - 1)
    BY <1>1
  <2>4. \A k \in 1 .. i - 1 : k \in 1 .. i /\ k \in 1 .. n /\ k # i
    BY <1>1
  <2>5. CASE Pocket!Overdue(schedules[i])
    <3>1. PaidIds(i) = PaidIds(i - 1) \cup {schedules[i].id}
      BY <2>3, <2>4, <2>5 DEF PaidIds
    <3>2. schedules[i].id \notin PaidIds(i - 1)
      <4> SUFFICES ASSUME NEW j \in 1 .. i - 1, schedules[j].id = schedules[i].id PROVE FALSE
        BY DEF PaidIds
      <4> QED BY <2>4, OnePlanEach
    <3>3. Total(Counted(plans, PaidIds(i))) = Total(Counted(plans, PaidIds(i - 1))) + schedules[i].amount
      BY <1>1, <2>2, <3>1, <3>2, CountedGrows
    <3>4. schedules[i].amount \in Int
      <4>1. schedules[i].amount \in ScheduledAmounts
        BY <2>2 DEF Schedules
      <4>2. \A x \in ScheduledAmounts : x \in Int
        BY TardisBankAssumption DEF Stored!BankAssumption
      <4> QED BY <4>1, <4>2
    <3>5. BalanceOf(Pocket!AddTransaction(f[i - 1], schedules[i].amount)) = BalanceOf(f[i - 1]) + schedules[i].amount
      BY <2>1, <3>4, PocketAdds
    <3>6. f[i] = Pocket!AddTransaction(f[i - 1], schedules[i].amount)
      BY <1>2, <2>5
    <3> QED BY <1>4, <3>3, <3>5, <3>6
  <2>6. CASE ~Pocket!Overdue(schedules[i])
    <3>1. PaidIds(i) = PaidIds(i - 1)
      BY <2>3, <2>4, <2>6 DEF PaidIds
    <3>2. f[i] = f[i - 1]
      BY <1>2, <2>6
    <3> QED BY <1>4, <3>1, <3>2
  <2> QED BY <2>5, <2>6
<1> HIDE DEF AddsUp
<1>5. ASSUME T # {} PROVE FALSE
  <2>1. PICK i \in T : \A k \in T : i <= k
    <3>1. T \in SUBSET Nat
      BY <1>1
    <3> HIDE DEF T
    <3> QED BY <1>5, <3>1, Least
  <2>2. i # 0 /\ i \in 0 .. n
    BY <1>3
  <2>3. i \in 1 .. n /\ i - 1 \in 0 .. n /\ ~(i <= i - 1)
    BY <1>1, <2>2
  <2>4. AddsUp(i - 1)
    BY <2>1, <2>3
  <2> QED BY <1>4, <2>3, <2>4
<1>6. \A i \in 0 .. n : AddsUp(i)
  BY <1>5
<1> QED BY <1>2, <1>6 DEF AddsUp

\* A run records each payment with the plan of its schedule.
LEMMA DuesRecorded ==
  ASSUME PocketInv, Pocket!RecordDues
  PROVE  /\ DOMAIN plans' = DOMAIN plans
         /\ \A id \in DOMAIN plans : id \notin PaidIds(Len(schedules)) => plans'[id] = plans[id]
         /\ \A i \in 1 .. Len(schedules) :
              Pocket!Overdue(schedules[i]) =>
                /\ schedules[i].id \in PaidIds(Len(schedules))
                /\ plans'[schedules[i].id] =
                     [plans[schedules[i].id] EXCEPT !.dues = Append(@, schedules[i].next)]
<1> DEFINE n == Len(schedules)
           due(id) == {i \in 1 .. n : schedules[i].id = id /\ Pocket!Overdue(schedules[i])}
           withDue(id) == [plans[id] EXCEPT !.dues = Append(@, schedules[CHOOSE i \in due(id) : TRUE].next)]
<1>1. plans' = [id \in DOMAIN plans |-> IF due(id) = {} THEN plans[id] ELSE withDue(id)]
  BY DEF Pocket!RecordDues, Pocket!Positions
<1>2. \A i \in 1 .. n : Pocket!Overdue(schedules[i]) => schedules[i].id \in PaidIds(n)
  BY DEF PaidIds
<1>3. ASSUME NEW id \in DOMAIN plans, id \notin PaidIds(n) PROVE due(id) = {}
  BY <1>2, <1>3
<1>4. ASSUME NEW i \in 1 .. n, Pocket!Overdue(schedules[i])
      PROVE  plans'[schedules[i].id] = [plans[schedules[i].id] EXCEPT !.dues = Append(@, schedules[i].next)]
  <2> DEFINE id == schedules[i].id
             D == due(id)
             c == CHOOSE j \in D : TRUE
  <2>1. i \in D
    BY <1>4
  <2>2. c \in D
    BY <2>1
  <2>3. c \in 1 .. n /\ schedules[c].id = schedules[i].id
    BY <2>2
  <2> HIDE DEF c
  <2>4. c = i
    BY <2>3, OnePlanEach
  <2>5. id \in DOMAIN plans
    BY DEF PocketInv, SchedulesFollow
  <2>6. plans'[id] = withDue(id)
    BY <1>1, <2>1, <2>5
  <2>7. withDue(id) = [plans[id] EXCEPT !.dues = Append(@, schedules[c].next)]
    BY DEF c
  <2> QED BY <2>4, <2>6, <2>7
<1> HIDE DEF due, withDue
<1>5. \A id \in DOMAIN plans : id \notin PaidIds(n) => plans'[id] = plans[id]
  BY <1>1, <1>3
<1>6. DOMAIN plans' = DOMAIN plans
  BY <1>1
<1> QED BY <1>2, <1>4, <1>5, <1>6

LEMMA PocketRuns == PocketInv /\ Pocket!ExecuteUpdates => PocketInv'
<1> SUFFICES ASSUME PocketInv, Pocket!ExecuteUpdates PROVE PocketInv'
  OBVIOUS
<1> DEFINE n == Len(schedules)
           next(i) == IF Pocket!Overdue(schedules[i]) THEN Pocket!CalculateNextRunDate(schedules[i])
                      ELSE schedules[i]
<1>1. /\ plans \in Seq(Plans) /\ schedules \in Seq(Schedules) /\ n \in Nat
      /\ now \in 0 .. LastTick /\ DOMAIN plans = 1 .. Len(plans)
      /\ PocketTypes
  BY DEF PocketInv, PocketTypes
<1>2. /\ Pocket!Become(Pocket!Payments(n)) /\ now' = now
      /\ schedules' = [i \in 1 .. n |-> next(i)]
      /\ Pocket!RecordDues
  BY DEF Pocket!ExecuteUpdates, Pocket!TriggerScheduledPayments, Pocket!Reschedule, Pocket!Positions
<1>3. PICK f : Runs(n, f)
  BY <1>1, PocketState, RunsExist
<1>4. /\ Pocket!Payments(n) = f[n] /\ f[n] \in KeptAccounts
      /\ BalanceOf(f[n]) = Total(Counted(plans, PaidIds(n)))
  <2>1. n \in 0 .. n
    BY <1>1
  <2> QED BY <1>1, <1>3, <2>1, PaymentsRun, PaymentsAddUp
<1>5. /\ pocketOld' \in Int /\ pocketTransactions' \in Seq(Int) /\ pocketArchived' \in Seq(Int)
      /\ Len(pocketTransactions') <= PocketTransactions
      /\ BalanceOf(Pocket!State)' = Total(Counted(plans, PaidIds(n)))
  BY <1>2, <1>4, PocketBecomes
<1>6. /\ DOMAIN plans' = DOMAIN plans
      /\ \A id \in DOMAIN plans : id \notin PaidIds(n) => plans'[id] = plans[id]
      /\ \A i \in 1 .. n :
           Pocket!Overdue(schedules[i]) =>
             /\ schedules[i].id \in PaidIds(n)
             /\ plans'[schedules[i].id] = [plans[schedules[i].id] EXCEPT !.dues = Append(@, schedules[i].next)]
  BY <1>2, DuesRecorded
<1>7. ASSUME NEW i \in 1 .. n
      PROVE  /\ schedules[i] \in Schedules /\ schedules[i].id \in DOMAIN plans
             /\ plans[schedules[i].id] \in Plans /\ plans[schedules[i].id].start <= LastTick
             /\ PaidDues(plans[schedules[i].id], now) /\ Follows(schedules[i], plans[schedules[i].id])
  BY <1>1 DEF PocketInv, PlansArePaid, SchedulesFollow
\* A schedule that is overdue, and its plan.
<1>8. ASSUME NEW i \in 1 .. n, Pocket!Overdue(schedules[i])
      PROVE  LET p == plans[schedules[i].id]
                 q == plans'[schedules[i].id]
             IN /\ q \in Plans /\ q.start = p.start /\ q.amount = p.amount
                /\ Len(q.dues) = Len(p.dues) + 1 /\ PaidDues(q, now)
                /\ next(i) \in Schedules /\ next(i).id = schedules[i].id /\ Follows(next(i), q)
  <2> DEFINE p == plans[schedules[i].id]
             q == plans'[schedules[i].id]
             s == schedules[i]
             r == next(i)
  <2>1. q = [p EXCEPT !.dues = Append(@, s.next)] /\ r = Pocket!CalculateNextRunDate(s)
    BY <1>6, <1>8
  <2>2. s \in Schedules /\ p \in Plans /\ p.start <= LastTick /\ PaidDues(p, now) /\ Follows(s, p)
    BY <1>7
  <2>3. s.next <= now
    BY <1>8 DEF Pocket!Overdue
  <2>4. now \in 0 .. LastTick
    BY <1>1
  <2> HIDE DEF p, q, s, r
  <2>5. /\ q \in Plans /\ q.start = p.start /\ q.amount = p.amount
        /\ Len(q.dues) = Len(p.dues) + 1 /\ PaidDues(q, now)
        /\ r \in Schedules /\ r.id = s.id /\ Follows(r, q)
    BY <2>1, <2>2, <2>3, <2>4, PlanGoesOn
  <2> QED BY <2>5 DEF p, q, s, r
<1> DEFINE P == plans'
<1>9. ASSUME NEW id \in DOMAIN plans
      PROVE  /\ P[id] \in Plans /\ P[id].start = plans[id].start /\ P[id].amount = plans[id].amount
             /\ Len(P[id].dues) = Len(plans[id].dues) + IF id \in PaidIds(n) THEN 1 ELSE 0
             /\ PaidDues(P[id], now)
  <2>1. plans[id] \in Plans /\ Len(plans[id].dues) \in Nat /\ PaidDues(plans[id], now)
    <3>1. plans[id] \in Plans /\ PaidDues(plans[id], now)
      BY <1>1 DEF PocketInv, PlansArePaid
    <3>2. plans[id].dues \in Seq(Nat)
      BY <3>1 DEF Plans
    <3> QED BY <3>1, <3>2
  <2>2. CASE id \in PaidIds(n)
    <3>1. PICK i \in 1 .. n : Pocket!Overdue(schedules[i]) /\ schedules[i].id = id
      BY <2>2 DEF PaidIds
    <3>2. /\ P[id] \in Plans /\ P[id].start = plans[id].start /\ P[id].amount = plans[id].amount
          /\ Len(P[id].dues) = Len(plans[id].dues) + 1 /\ PaidDues(P[id], now)
      BY <1>8, <3>1
    <3> QED BY <2>2, <3>2
  <2>3. CASE id \notin PaidIds(n)
    <3>1. P[id] = plans[id]
      BY <1>6, <2>3
    <3> QED BY <2>1, <2>3, <3>1
  <2> QED BY <2>2, <2>3
<1>10. P \in Seq(Plans) /\ Len(P) = Len(plans)
  <2>1. P = [id \in DOMAIN plans |-> P[id]]
    BY <1>2, <1>6 DEF Pocket!RecordDues
  <2>2. P \in [1 .. Len(plans) -> Plans] /\ Len(plans) \in Nat
    <3>1. \A id \in 1 .. Len(plans) : P[id] \in Plans
      BY <1>1, <1>9
    <3> DEFINE Q == [id \in DOMAIN plans |-> P[id]]
    <3>2. Q \in [1 .. Len(plans) -> Plans]
      <4> HIDE DEF P
      <4> QED BY <1>1, <3>1
    <3>3. P = Q
      BY <2>1
    <3> HIDE DEF P, Q
    <3> QED BY <1>1, <3>2, <3>3
  <2> QED BY <2>2
<1> HIDE DEF P
<1>11. ASSUME NEW i \in 1 .. n
       PROVE  next(i) \in Schedules /\ next(i).id = schedules[i].id /\ Follows(next(i), P[schedules[i].id])
  <2>1. CASE Pocket!Overdue(schedules[i])
    BY <1>8, <2>1 DEF P
  <2>2. CASE ~Pocket!Overdue(schedules[i])
    <3>1. schedules[i].id \notin PaidIds(n)
      <4> SUFFICES ASSUME NEW j \in 1 .. n, Pocket!Overdue(schedules[j]), schedules[j].id = schedules[i].id
                   PROVE  FALSE
        BY DEF PaidIds
      <4>1. i = j
        BY OnePlanEach
      <4> QED BY <2>2, <4>1
    <3>2. P[schedules[i].id] = plans[schedules[i].id]
      BY <1>6, <1>7, <3>1 DEF P
    <3> QED BY <1>7, <2>2, <3>2
  <2> QED BY <2>1, <2>2
<1>12. /\ schedules' \in Seq(Schedules) /\ Len(schedules') = n
       /\ \A i \in 1 .. n : schedules'[i] = next(i)
  <2> HIDE DEF next
  <2>1. schedules' \in [1 .. n -> Schedules]
    BY <1>2, <1>11
  <2> QED BY <1>1, <1>2, <2>1
<1> HIDE DEF next
<1>13. PocketTypes'
  BY <1>1, <1>2, <1>5, <1>10, <1>12 DEF PocketTypes, P
<1>14. PlansArePaid'
  <2>1. \A id \in DOMAIN plans : P[id].start <= LastTick /\ PaidDues(P[id], now)
    BY <1>9 DEF PocketInv, PlansArePaid
  <2> QED BY <1>2, <1>6, <2>1 DEF PlansArePaid, P
<1>15. SchedulesFollow'
  <2>1. \A i \in 1 .. n : schedules'[i].id \in DOMAIN plans /\ Follows(schedules'[i], P[schedules'[i].id])
    BY <1>7, <1>11, <1>12
  <2> QED BY <1>6, <1>12, <2>1 DEF SchedulesFollow, P
<1>16. SchedulesInOrder'
  <2>1. \A i, j \in 1 .. n : i < j => schedules'[i].id < schedules'[j].id
    BY <1>11, <1>12 DEF PocketInv, SchedulesInOrder
  <2> QED BY <1>12, <2>1 DEF SchedulesInOrder
<1>17. PocketIsBooked'
  <2> DEFINE D == PaidIds(n)
  <2> HIDE DEF D
  <2> DEFINE a == Counted(P, {})
             b == Counted(plans, D)
  <2>1. /\ a \in Seq(Int) /\ Len(a) = Len(P)
        /\ \A id \in 1 .. Len(P) : a[id] = P[id].amount * Len(P[id].dues)
    BY <1>10, CountedNone
  <2>2. /\ b \in Seq(Int) /\ Len(b) = Len(plans)
        /\ \A id \in 1 .. Len(plans) :
             b[id] = Owed(plans[id], IF id \in D THEN 1 ELSE 0)
    BY <1>1, CountedType
  <2> HIDE DEF a, b
  <2>3. \A id \in 1 .. Len(plans) : a[id] = b[id]
    <3>1. ASSUME NEW id \in 1 .. Len(plans) PROVE a[id] = b[id]
      <4>1. /\ P[id].amount = plans[id].amount
            /\ Len(P[id].dues) = Len(plans[id].dues) + IF id \in D THEN 1 ELSE 0
        BY <1>1, <1>9 DEF D
      <4>2. a[id] = P[id].amount * Len(P[id].dues)
        BY <1>10, <2>1
      <4> QED BY <2>2, <4>1, <4>2 DEF Owed
    <3> QED BY <3>1
  <2>4. a = b
    BY <1>10, <2>1, <2>2, <2>3, SeqEqual
  <2> QED BY <1>5, <2>4 DEF PocketIsBooked, a, b, D, P
<1> QED BY <1>13, <1>14, <1>15, <1>16, <1>17 DEF PocketInv

LEMMA PocketInvStep == PocketInv /\ [Pocket!BankNext]_(Pocket!vars) => PocketInv'
<1> SUFFICES ASSUME PocketInv, [Pocket!BankNext]_(Pocket!vars) PROVE PocketInv'
  OBVIOUS
<1>1. CASE UNCHANGED Pocket!vars
  <2>1. UNCHANGED <<pocketOld, pocketTransactions, pocketArchived, now, schedules, plans>>
    BY <1>1 DEF Pocket!vars, Pocket!account
  <2> QED BY <2>1 DEF PocketInv, PocketTypes, PlansArePaid, SchedulesFollow, SchedulesInOrder,
                      PocketIsBooked, Pocket!State
<1>2. CASE Pocket!BankNext
  BY <1>2, PocketAddsSchedule, PocketRemoves, PocketRuns, PocketTicks DEF Pocket!BankNext
<1> QED BY <1>1, <1>2

LEMMA PocketInvImplies ==
  PocketInv => Pocket!BankTypeOK /\ Pocket!PaymentsFollowPlan /\ Pocket!PaymentsAreBooked
<1> SUFFICES ASSUME PocketInv
             PROVE  Pocket!BankTypeOK /\ Pocket!PaymentsFollowPlan /\ Pocket!PaymentsAreBooked
  OBVIOUS
<1>1. PocketTypes /\ PlansArePaid /\ SchedulesFollow /\ SchedulesInOrder /\ PocketIsBooked
  BY DEF PocketInv
<1>2. Pocket!BankTypeOK
  BY <1>1 DEF PocketTypes, SchedulesFollow, SchedulesInOrder, Pocket!BankTypeOK, Pocket!TypeOK,
              Pocket!Positions
<1>3. Pocket!PaymentsFollowPlan
  BY <1>1 DEF PlansArePaid, PaidDues, SchedulesFollow, Follows, Pocket!PaymentsFollowPlan,
              Pocket!Positions
<1>4. Pocket!PaymentsAreBooked
  <2>1. \A a : Pocket!Total(a) = Total(a)
    BY DEF Pocket!Total, Total
  <2>2. Pocket!Balance = BalanceOf(Pocket!State)
    BY <1>1, <2>1, PocketState DEF Pocket!Balance, BalanceOf
  <2> DEFINE c == [id \in DOMAIN plans |-> plans[id].amount * Len(plans[id].dues)]
  <2>3. plans \in Seq(Plans) /\ DOMAIN plans = 1 .. Len(plans) /\ Len(plans) \in Nat
    BY <1>1 DEF PocketTypes
  <2>4. /\ Counted(plans, {}) \in Seq(Int) /\ Len(Counted(plans, {})) = Len(plans)
        /\ \A id \in 1 .. Len(plans) : Counted(plans, {})[id] = plans[id].amount * Len(plans[id].dues)
    BY <2>3, CountedNone
  <2>5. c = Counted(plans, {})
    BY <2>3, <2>4
  <2>6. Pocket!PaymentsAreBooked <=> Pocket!Balance = Pocket!Total(c)
    BY DEF Pocket!PaymentsAreBooked
  <2> HIDE DEF c
  <2> QED BY <1>1, <2>1, <2>2, <2>5, <2>6 DEF PocketIsBooked
<1> QED BY <1>2, <1>3, <1>4

LEMMA PocketMovesAlone ==
  /\ TardisBankInit => Pocket!BankInit
  /\ [TardisBankNext]_all => [Pocket!BankNext]_(Pocket!vars)
<1>1. TardisBankInit => Pocket!BankInit
  BY DEF TardisBankInit
<1>2. [TardisBankNext]_all => [Pocket!BankNext]_(Pocket!vars)
  BY DEF all, pocketVars, TardisBankNext, AccountMoves, PocketMoves, StoredMoves, FamilyMoves,
         NewsMoves, Pocket!vars, Pocket!account
<1> QED BY <1>1, <1>2

LEMMA AccountMovesAlone ==
  /\ TardisBankInit => Init
  /\ [TardisBankNext]_all => [Next]_account
<1>1. TardisBankInit => Init
  BY DEF TardisBankInit
<1>2. [TardisBankNext]_all => [Next]_account
  BY DEF all, TardisBankNext, AccountMoves, PocketMoves, PocketRests, StoredMoves, FamilyMoves,
         NewsMoves
<1> QED BY <1>1, <1>2

\* The account as an object: its balance, withdrawals and archive (Account,
\* Child).  The account with schedules, however irregularly the scheduler
\* runs, on any calendar: every due date of a plan is paid once, in order, not
\* early and none is skipped, a monthly date stays on the day that the
\* shortest month so far had, and the account received what the paid dates
\* add up to (SchedulerService.ExecuteUpdates, Account.TriggerScheduledPayments,
\* PaymentSchedule.CalculateNextRunDate).
THEOREM AccountsStayRight == TardisBankSpec => []AccountsAreRight
<1>1. TardisBankInit => BalanceInv /\ PocketInv
  BY AccountMovesAlone, PocketMovesAlone, BalanceInvInit, PocketStarts
<1>2. BalanceInv /\ PocketInv /\ [TardisBankNext]_all => BalanceInv' /\ PocketInv'
  BY AccountMovesAlone, PocketMovesAlone, BalanceInvStep, PocketInvStep
<1>3. BalanceInv /\ PocketInv => AccountsAreRight
  BY PocketInvImplies DEF BalanceInv, AccountInv, AccountsAreRight
<1> QED BY <1>1, <1>2, <1>3, PTL DEF TardisBankSpec

\* The account of the composition implements the ledger: what is booked stays
\* booked, the balance moves by it, and no withdrawal exceeds the balance.
THEOREM AccountIsALedger == TardisBankSpec => ImplementsLedger
<1>1. TardisBankInit => BalanceInv /\ L!Init
  BY AccountMovesAlone, BalanceInvInit, AccountStarts
<1>2. BalanceInv /\ [TardisBankNext]_all => BalanceInv'
  BY AccountMovesAlone, BalanceInvStep
<1>3. BalanceInv /\ [TardisBankNext]_all => [L!Next]_(L!ledger)
  BY AccountMovesAlone, AccountBooks DEF BalanceInv
<1> QED BY <1>1, <1>2, <1>3, PTL DEF TardisBankSpec, L!Spec, ImplementsLedger

(***************************************************************************)
(* The news pages.  A request keeps what it was sent for, and its answer   *)
(* stays true: an announcement that was deleted or stored remains so.      *)
(***************************************************************************)
LEMMA NewsCardinality == \A S : News!Cardinality(S) = Cardinality(S)
BY DEF News!Cardinality, Cardinality

LEMMA Greatest ==
  ASSUME NEW n \in Nat, NEW S \in SUBSET (1 .. n), S # {}
  PROVE  \E i \in S : \A j \in S : j <= i
<1> DEFINE T == {m \in Nat : n - m \in S}
<1>1. \A i \in S : n - i \in Nat /\ n - (n - i) = i
  OBVIOUS
<1>2. T \in SUBSET Nat /\ T # {} /\ \A i \in S : n - i \in T
  BY <1>1
<1>3. PICK m \in T : \A k \in T : m <= k
  <2> HIDE DEF T
  <2> QED BY <1>2, Least
<1>4. n - m \in S /\ m \in Nat
  OBVIOUS
<1>5. \A j \in S : m <= n - j
  BY <1>2, <1>3
<1>6. \A j \in S : j <= n - m
  BY <1>4, <1>5
<1> QED BY <1>4, <1>6

\* A finite set of numbers has for each rank a member of that rank.
LEMMA Ranked ==
  ASSUME NEW n \in Nat, NEW S \in SUBSET (1 .. n), NEW r \in 1 .. Cardinality(S)
  PROVE  \E i \in S : Cardinality({j \in S : j > i}) = r - 1
<1> DEFINE Above(i) == {j \in S : j > i}
           T == {q \in 1 .. Cardinality(S) : \A i \in S : Cardinality(Above(i)) # q - 1}
<1>1. IsFiniteSet(1 .. n)
  BY FS_Interval
<1>2. \A U \in SUBSET (1 .. n) : IsFiniteSet(U) /\ Cardinality(U) \in Nat
  BY <1>1, FS_Subset, FS_CardinalityType
<1>3. T = {}
  <2> SUFFICES ASSUME T # {} PROVE FALSE
    OBVIOUS
  <2>1. Cardinality(S) \in Nat
    BY <1>2
  <2>2. T \in SUBSET Nat
    BY <2>1
  <2>3. PICK q \in T : \A m \in T : q <= m
    <3> HIDE DEF T
    <3> QED BY <2>2, Least
  <2>4. q \in 1 .. Cardinality(S) /\ \A i \in S : Cardinality(Above(i)) # q - 1
    OBVIOUS
  <2>5. CASE q = 1
    <3>1. S # {}
      BY <2>4, FS_EmptySet
    <3>2. PICK i \in S : \A j \in S : j <= i
      BY <3>1, Greatest
    <3>3. Above(i) = {}
      <4>1. \A j \in S : ~(j > i)
        BY <3>2
      <4> QED BY <4>1
    <3>4. Cardinality(Above(i)) = 0
      BY <3>3, FS_EmptySet
    <3> HIDE DEF Above
    <3> QED BY <2>4, <2>5, <3>4
  <2>6. CASE q # 1
    <3>1. q - 1 \in 1 .. Cardinality(S) /\ q - 1 \notin T
      <4>1. q - 1 \in 1 .. Cardinality(S) /\ ~(q <= q - 1)
        BY <2>1, <2>4, <2>6
      <4> HIDE DEF T
      <4> QED BY <2>3, <4>1
    <3>2. PICK i \in S : Cardinality(Above(i)) = (q - 1) - 1
      BY <3>1
    <3> DEFINE A == Above(i)
               B == A \cup {i}
               below == S \ B
    <3>3. IsFiniteSet(A) /\ i \notin A /\ B \in SUBSET S /\ A \in SUBSET S /\ below \in SUBSET S
      BY <1>2
    <3>4. Cardinality(B) = q - 1
      <4> HIDE DEF A
      <4>1. Cardinality(B) = Cardinality(A) + 1
        BY <3>3, FS_AddElement
      <4>2. Cardinality(A) = q - 2
        BY <2>4, <3>2 DEF A
      <4> QED BY <2>4, <4>1, <4>2
    <3>5. below # {}
      <4> SUFFICES ASSUME below = {} PROVE FALSE
        OBVIOUS
      <4>1. B = S
        BY <3>3
      <4> HIDE DEF B
      <4> QED BY <2>1, <2>4, <3>4, <4>1
    <3>6. PICK k \in below : \A j \in below : j <= k
      BY <3>3, <3>5, Greatest
    <3>7. Above(k) = B
      <4>1. k \in S /\ k \notin B /\ ~(k > i) /\ k # i
        BY <3>6
      <4>2. k < i
        BY <4>1
      <4>3. ASSUME NEW j \in S PROVE j > k <=> j \in B
        <5>1. CASE j \in B
          BY <4>2, <5>1
        <5>2. CASE j \notin B
          BY <3>6, <5>2
        <5> QED BY <5>1, <5>2
      <4> QED BY <3>3, <4>3
    <3>8. Cardinality(Above(k)) = q - 1
      BY <3>4, <3>7
    <3>9. k \in S
      BY <3>6
    <3> HIDE DEF Above, B
    <3> QED BY <2>4, <3>8, <3>9
  <2> QED BY <2>5, <2>6
<1> HIDE DEF Above
<1>4. \E i \in S : Cardinality(Above(i)) = r - 1
  BY <1>3
<1> QED BY <1>4 DEF Above

Announcement == [text : Texts, deleted : BOOLEAN]

Distinct(s) == \A p, q \in DOMAIN s : s[p] = s[q] => p = q

\* The list of the latest has no announcement twice.
LEMMA LatestIsDistinct ==
  ASSUME announcements \in Seq(Announcement)
  PROVE  /\ News!Latest \in Seq(Nat) /\ Distinct(News!Latest)
         /\ \A p \in DOMAIN News!Latest : News!Latest[p] \in News!Ids
<1> DEFINE S == News!Published
           n == Len(announcements)
           published == News!Cardinality(S)
           m == IF published < Shown THEN published ELSE Shown
           At(p) == CHOOSE i \in S : News!Cardinality({j \in S : j > i}) = p - 1
<1>1. n \in Nat /\ S \in SUBSET (1 .. n) /\ News!Ids = 1 .. n
  BY DEF News!Published, News!Ids
<1>2. Cardinality(S) \in Nat
  <2>1. IsFiniteSet(1 .. n)
    BY <1>1, FS_Interval
  <2>2. IsFiniteSet(S)
    BY <1>1, <2>1, FS_Subset
  <2> QED BY <2>2, FS_CardinalityType
<1>3. m \in Nat /\ m <= Cardinality(S)
  BY <1>2, NewsCardinality, TardisBankAssumption DEF News!NewsAssumption
<1>4. News!Latest = [p \in 1 .. m |-> At(p)]
  BY DEF News!Latest
<1> HIDE DEF S, n, m
<1>5. ASSUME NEW p \in 1 .. m PROVE At(p) \in S /\ Cardinality({j \in S : j > At(p)}) = p - 1
  <2>1. p \in 1 .. Cardinality(S)
    BY <1>2, <1>3
  <2>2. \E i \in S : Cardinality({j \in S : j > i}) = p - 1
    BY <1>1, <2>1, Ranked
  <2>3. \E i \in S : News!Cardinality({j \in S : j > i}) = p - 1
    BY <2>2, NewsCardinality
  <2>4. At(p) \in S /\ News!Cardinality({j \in S : j > At(p)}) = p - 1
    BY <2>3
  <2> QED BY <2>4, NewsCardinality
<1> HIDE DEF At
<1>6. \A p, q \in 1 .. m : At(p) = At(q) => p = q
  <2> TAKE p, q \in 1 .. m
  <2> HAVE At(p) = At(q)
  <2>1. p - 1 = q - 1
    BY <1>5
  <2> QED BY <1>3, <2>1
<1>7. \A p \in 1 .. m : At(p) \in 1 .. n
  BY <1>1, <1>5
<1>8. DOMAIN News!Latest = 1 .. m /\ \A p \in 1 .. m : News!Latest[p] = At(p)
  BY <1>4
<1>9. \A p \in 1 .. m : At(p) \in Nat
  BY <1>1, <1>7
<1>10. News!Latest \in Seq(Nat)
  BY <1>3, <1>4, <1>9
<1> QED BY <1>1, <1>6, <1>7, <1>8, <1>10 DEF Distinct

Kinds == {"links", "latest", "get", "post", "delete"}

\* A request to the server, and what it may have been answered.
NewsRequest ==
  [kind : Kinds, of : Nat \cup Texts, current : BOOLEAN,
   answer : {<<>>} \cup {<<a>> : a \in Seq(Nat) \cup Nat \cup {NoText, "OK"}}]

\* What a request is for is there, and its answer is true.
Honest(r) ==
  /\ r.kind \in {"links", "latest"} /\ r.answer # <<>> =>
       /\ r.answer[1] \in Seq(Nat) /\ Distinct(r.answer[1])
       /\ \A p \in DOMAIN r.answer[1] : r.answer[1][p] \in News!Ids
  /\ r.kind = "get" /\ r.answer # <<>> => r.answer[1] \in {r.of, NoText}
  /\ r.kind = "post" =>
       /\ r.of \in Texts
       /\ r.answer # <<>> => r.answer[1] \in News!Ids /\ announcements[r.answer[1]].text = r.of
  /\ r.kind = "delete" =>
       /\ r.of \in News!Ids
       /\ r.answer # <<>> => announcements[r.of].deleted

AllHonest(sent) ==
  /\ sent \in [Connections -> NewsRequest \cup {News!Free}]
  /\ \A c \in Connections : sent[c] # News!Free => Honest(sent[c])

PageInv ==
  /\ announcements \in Seq(Announcement)
  /\ AllHonest(requests)
  /\ links \in Seq(Nat)
  /\ listed \in Seq(Nat) /\ Distinct(listed) /\ \A p \in DOMAIN listed : listed[p] \in News!Ids
  /\ form \in Texts \cup {NoText}

\* A request for the link clicked last is for what its article is shown under.
ArticleInv ==
  /\ overtaken \/ details \in {clicked, NoText, Loading}
  /\ \A c \in Connections :
       requests[c].kind = "get" /\ requests[c].current => requests[c].of = clicked

NewsInv == PageInv /\ ArticleInv

\* What was stored stays; what was deleted stays deleted.
Grown ==
  /\ announcements' \in Seq(Announcement)
  /\ \A i \in News!Ids : /\ i \in News!Ids' /\ announcements'[i].text = announcements[i].text
                         /\ announcements[i].deleted => announcements'[i].deleted

LEMMA StaysHonest ==
  ASSUME NEW c \in Connections, NEW r, Honest(r), Grown, requests'[c] = r
  PROVE  Honest(requests[c])'
BY DEF Honest, Grown

LEMMA NothingGrows ==
  ASSUME announcements \in Seq(Announcement), UNCHANGED announcements
  PROVE  Grown
BY DEF Grown, News!Ids

LEMMA StoreGrows ==
  ASSUME announcements \in Seq(Announcement), NEW text \in Texts, News!Store(text)
  PROVE  /\ Grown
         /\ Len(announcements') \in News!Ids' /\ announcements'[Len(announcements')].text = text
         /\ Len(announcements') \in Nat
<1> DEFINE a == [text |-> text, deleted |-> FALSE]
<1>1. a \in Announcement /\ a.text = text
  BY DEF Announcement
<1>2. announcements' = Append(announcements, a)
  BY DEF News!Store
<1> HIDE DEF a
<1>3. /\ announcements' \in Seq(Announcement) /\ Len(announcements') = Len(announcements) + 1
      /\ \A i \in 1 .. Len(announcements) : announcements'[i] = announcements[i]
      /\ announcements'[Len(announcements) + 1] = a
  BY <1>1, <1>2, AppendProperties
<1>4. News!Ids = 1 .. Len(announcements) /\ Len(announcements) \in Nat
  BY DEF News!Ids
<1>5. News!Ids' = 1 .. Len(announcements) + 1
  BY <1>3 DEF News!Ids
<1> QED BY <1>1, <1>3, <1>4, <1>5 DEF Grown

LEMMA EraseGrows ==
  ASSUME announcements \in Seq(Announcement), NEW i \in News!Ids, News!Erase(i)
  PROVE  Grown /\ i \in News!Ids' /\ announcements'[i].deleted
<1> DEFINE kept == announcements[i]
           new == [kept EXCEPT !.deleted = TRUE]
<1>1. kept \in Announcement
  BY DEF News!Ids
<1>2. announcements' = [announcements EXCEPT ![i] = new]
  BY DEF News!Erase
<1> HIDE DEF kept
<1>3. new \in Announcement /\ new.text = kept.text /\ new.deleted
  BY <1>1 DEF Announcement
<1> HIDE DEF new
<1>4. /\ announcements' \in Seq(Announcement) /\ Len(announcements') = Len(announcements)
      /\ DOMAIN announcements' = DOMAIN announcements /\ i \in DOMAIN announcements
      /\ announcements'[i] = new
      /\ \A j \in DOMAIN announcements : j # i => announcements'[j] = announcements[j]
  BY <1>2, <1>3, ExceptSeq DEF News!Ids
<1> QED BY <1>3, <1>4 DEF Grown, News!Ids, kept

LEMMA NewsStarts == News!Init => NewsInv
<1> SUFFICES ASSUME News!Init PROVE NewsInv
  OBVIOUS
<1>1. AllHonest(requests)
  BY DEF News!Init, AllHonest
<1>2. PageInv
  BY <1>1 DEF News!Init, PageInv, Distinct
<1>3. \A c \in Connections : requests[c].kind # "get"
  BY DEF News!Init, News!Free
<1>4. ArticleInv
  BY <1>3 DEF News!Init, ArticleInv
<1> QED BY <1>2, <1>4 DEF NewsInv

\* The page is right after a step that keeps requests honest and its lists
\* without repetition.
LEMMA PageKept ==
  ASSUME NewsInv, Grown, AllHonest(requests'),
         links' \in Seq(Nat), form' \in Texts \cup {NoText},
         listed' \in Seq(Nat), Distinct(listed'), \A p \in DOMAIN listed' : listed'[p] \in News!Ids
  PROVE  PageInv'
<1>1. ASSUME NEW c \in Connections, requests'[c] # News!Free PROVE Honest(requests[c])'
  <2> DEFINE r == requests'[c]
  <2>1. Honest(r) /\ requests'[c] = r
    BY <1>1 DEF AllHonest
  <2> HIDE DEF r
  <2> QED BY <2>1, StaysHonest
<1>2. AllHonest(requests)'
  BY <1>1 DEF AllHonest
<1>3. /\ announcements' \in Seq(Announcement)
      /\ \A p \in DOMAIN listed' : listed'[p] \in News!Ids'
  BY DEF Grown
<1>4. Distinct(listed)'
  BY DEF Distinct
<1> QED BY <1>2, <1>3, <1>4 DEF PageInv

\* The same when the lists and the form stay.
LEMMA OnlyRequests ==
  ASSUME NewsInv, Grown, AllHonest(requests'), UNCHANGED <<links, listed, form>>
  PROVE  PageInv'
<1>1. /\ links' \in Seq(Nat) /\ form' \in Texts \cup {NoText}
      /\ listed' \in Seq(Nat) /\ Distinct(listed') /\ \A p \in DOMAIN listed' : listed'[p] \in News!Ids
  BY DEF NewsInv, PageInv, Distinct
<1> QED BY <1>1, PageKept

\* The article is right after a step that shows none and lets no request for
\* one become current.
LEMMA ArticleKept ==
  ASSUME NewsInv, UNCHANGED <<details, clicked, overtaken>>,
         \A c \in Connections : requests'[c].kind = "get" /\ requests'[c].current =>
           /\ requests[c].kind = "get" /\ requests[c].current
           /\ requests'[c].of = requests[c].of
  PROVE  ArticleInv'
BY DEF NewsInv, ArticleInv

\* One request is replaced.
LEMMA OneRequest ==
  ASSUME NEW sent, AllHonest(sent), NEW c \in Connections,
         NEW r \in NewsRequest \cup {News!Free}, r # News!Free => Honest(r),
         requests' = [sent EXCEPT ![c] = r]
  PROVE  /\ AllHonest(requests') /\ requests'[c] = r
         /\ \A d \in Connections : d # c => requests'[d] = sent[d]
BY DEF AllHonest

\* Requests that the page is no longer about.
LEMMA OutdatedRequests ==
  ASSUME NewsInv, NEW kind \in Kinds
  PROVE  LET left == News!Outdated(kind)
         IN /\ AllHonest(left)
            /\ \A c \in Connections :
                 /\ left[c].kind = requests[c].kind
                 /\ left[c].kind = kind => ~left[c].current
                 /\ left[c].kind # kind => left[c] = requests[c]
<1> DEFINE left == News!Outdated(kind)
<1>1. ASSUME NEW c \in Connections
      PROVE  /\ left[c] \in NewsRequest \cup {News!Free}
             /\ left[c] # News!Free => Honest(left[c])
             /\ left[c].kind = requests[c].kind
             /\ left[c].kind = kind => ~left[c].current
             /\ left[c].kind # kind => left[c] = requests[c]
  <2> DEFINE r == requests[c]
             late == [r EXCEPT !.current = FALSE]
  <2>1. left[c] = IF r.kind = kind THEN late ELSE r
    BY DEF News!Outdated
  <2>2. r \in NewsRequest \cup {News!Free} /\ (r # News!Free => Honest(r))
    BY DEF NewsInv, PageInv, AllHonest
  <2>3. r = News!Free => r.kind # kind
    BY DEF News!Free, Kinds
  <2> HIDE DEF r
  <2>4. CASE r.kind # kind
    BY <2>1, <2>2, <2>4 DEF r
  <2>5. CASE r.kind = kind
    <3>1. /\ late \in NewsRequest /\ late.kind = r.kind /\ late.of = r.of
          /\ late.answer = r.answer /\ ~late.current
      BY <2>2, <2>3, <2>5 DEF NewsRequest
    <3> HIDE DEF late
    <3>2. Honest(late)
      BY <2>2, <2>3, <2>5, <3>1 DEF Honest
    <3>3. left[c] = late
      BY <2>1, <2>5
    <3> QED BY <2>5, <3>1, <3>2, <3>3 DEF r
  <2> QED BY <2>4, <2>5
<1>2. left = [c \in Connections |-> left[c]]
  BY DEF News!Outdated
<1> HIDE DEF left
<1>3. left \in [Connections -> NewsRequest \cup {News!Free}]
  BY <1>1, <1>2
<1> QED BY <1>1, <1>3 DEF AllHonest, left

LEMMA RequestFacts ==
  ASSUME NEW kind \in Kinds, NEW of \in Nat \cup Texts, NEW r, r = News!Request(kind, of)
  PROVE  /\ r \in NewsRequest /\ r.kind = kind /\ r.of = of /\ r.answer = <<>> /\ r # News!Free
         /\ (kind = "post" => of \in Texts) /\ (kind = "delete" => of \in News!Ids) => Honest(r)
<1>1. r \in NewsRequest /\ r.kind = kind /\ r.of = of /\ r.answer = <<>>
  BY DEF News!Request, NewsRequest
<1>2. News!Free.kind = "none" /\ "none" \notin Kinds
  BY DEF News!Free, Kinds
<1>3. r # News!Free
  BY <1>1, <1>2
<1> QED BY <1>1, <1>3 DEF Honest

\* The lists hold numbers, and those of the editor announcements.
LEMMA ListsHoldIds ==
  ASSUME NewsInv
  PROVE  /\ \A i \in News!ToSet(links) : i \in Nat
         /\ \A i \in News!ToSet(listed) : i \in Nat /\ i \in News!Ids
         /\ News!ToSet(listed) = {listed[p] : p \in DOMAIN listed}
BY DEF NewsInv, PageInv, News!ToSet

LEMMA SendingKeepsInv ==
  ASSUME NewsInv, NEW r \in NewsRequest, Honest(r), r.kind # "get", News!Send(r),
         UNCHANGED <<announcements, links, listed, form, details, clicked, overtaken>>
  PROVE  NewsInv'
<1>1. PICK c \in Connections : requests' = [requests EXCEPT ![c] = r]
  BY DEF News!Send, News!SendAlso
<1>2. AllHonest(requests') /\ requests'[c] = r /\ \A d \in Connections : d # c => requests'[d] = requests[d]
  BY <1>1, OneRequest DEF NewsInv, PageInv
<1>3. PageInv'
  BY <1>2, NothingGrows, OnlyRequests DEF NewsInv, PageInv
<1>4. ArticleInv'
  BY <1>2, ArticleKept
<1> QED BY <1>3, <1>4 DEF NewsInv

\* A click: earlier ones no longer count.
LEMMA ClickingKeepsInv ==
  ASSUME NewsInv, NEW i \in News!ToSet(links), News!DisplayAnnouncement(i)
  PROVE  NewsInv'
<1> DEFINE r == News!Request("get", i)
           left == News!Outdated("get")
<1>1. r \in NewsRequest /\ r.kind = "get" /\ r.of = i /\ Honest(r)
  BY ListsHoldIds, RequestFacts DEF Kinds
<1>2. AllHonest(left) /\ \A c \in Connections : left[c].kind = "get" => ~left[c].current
  BY OutdatedRequests DEF Kinds
<1> HIDE DEF r, left
<1>3. /\ \E c \in Connections : requests' = [left EXCEPT ![c] = r]
      /\ clicked' = i /\ overtaken' = FALSE /\ details' = Loading
      /\ UNCHANGED <<announcements, links, listed, form>>
  BY DEF News!DisplayAnnouncement, News!SendAlso, r, left
<1>4. PICK c \in Connections : requests' = [left EXCEPT ![c] = r]
  BY <1>3
<1>5. AllHonest(requests') /\ requests'[c] = r /\ \A d \in Connections : d # c => requests'[d] = left[d]
  BY <1>1, <1>2, <1>4, OneRequest
<1>6. PageInv'
  BY <1>3, <1>5, NothingGrows, OnlyRequests DEF NewsInv, PageInv
<1>7. ArticleInv'
  BY <1>1, <1>2, <1>3, <1>5 DEF ArticleInv
<1> QED BY <1>6, <1>7 DEF NewsInv

LEMMA NewsUsersAct ==
  ASSUME NewsInv,
         \/ News!ViewLatest \/ News!LoadAnnouncements \/ News!AddNewAnnouncement
         \/ \E i \in News!ToSet(listed) : News!DeleteAnnouncement(i)
  PROVE  NewsInv'
<1> USE DEF Kinds
<1>1. CASE News!ViewLatest
  <2> DEFINE r == News!Request("links", 0)
  <2>1. r \in NewsRequest /\ r.kind = "links" /\ Honest(r)
    BY RequestFacts
  <2>2. News!Send(r) /\ UNCHANGED <<announcements, links, listed, form, details, clicked, overtaken>>
    BY <1>1 DEF News!ViewLatest
  <2> HIDE DEF r
  <2> QED BY <2>1, <2>2, SendingKeepsInv
<1>2. CASE News!LoadAnnouncements
  <2> DEFINE r == News!Request("latest", 0)
  <2>1. r \in NewsRequest /\ r.kind = "latest" /\ Honest(r)
    BY RequestFacts
  <2>2. News!Send(r) /\ UNCHANGED <<announcements, links, listed, form, details, clicked, overtaken>>
    BY <1>2 DEF News!LoadAnnouncements
  <2> HIDE DEF r
  <2> QED BY <2>1, <2>2, SendingKeepsInv
<1>3. CASE News!AddNewAnnouncement
  <2> DEFINE r == News!Request("post", form)
  <2>0. form \in Texts
    BY <1>3 DEF News!AddNewAnnouncement, NewsInv, PageInv
  <2>1. r \in NewsRequest /\ r.kind = "post" /\ Honest(r)
    BY <2>0, RequestFacts
  <2>2. News!Send(r) /\ UNCHANGED <<announcements, links, listed, form, details, clicked, overtaken>>
    BY <1>3 DEF News!AddNewAnnouncement
  <2> HIDE DEF r
  <2> QED BY <2>1, <2>2, SendingKeepsInv
<1>4. ASSUME NEW i \in News!ToSet(listed), News!DeleteAnnouncement(i) PROVE NewsInv'
  <2> DEFINE r == News!Request("delete", i)
  <2>1. r \in NewsRequest /\ r.kind = "delete" /\ Honest(r)
    BY ListsHoldIds, RequestFacts
  <2>2. News!Send(r) /\ UNCHANGED <<announcements, links, listed, form, details, clicked, overtaken>>
    BY <1>4 DEF News!DeleteAnnouncement
  <2> HIDE DEF r
  <2> QED BY <2>1, <2>2, SendingKeepsInv
<1> QED BY <1>1, <1>2, <1>3, <1>4

LEMMA TypingKeepsInv ==
  ASSUME NewsInv, NEW text \in Texts, News!Type(text)
  PROVE  NewsInv'
<1>1. /\ UNCHANGED <<announcements, requests, links, listed, details, clicked, overtaken>>
      /\ form' = text
  BY DEF News!Type
<1>2. /\ AllHonest(requests') /\ links' \in Seq(Nat) /\ listed' \in Seq(Nat) /\ Distinct(listed')
      /\ \A p \in DOMAIN listed' : listed'[p] \in News!Ids
  BY <1>1 DEF NewsInv, PageInv, AllHonest, Distinct
<1>3. PageInv'
  BY <1>1, <1>2, NothingGrows, PageKept DEF NewsInv, PageInv
<1>4. ArticleInv'
  BY <1>1, ArticleKept
<1> QED BY <1>3, <1>4 DEF NewsInv

LEMMA OthersKeepInv ==
  ASSUME NewsInv, News!OtherEditor
  PROVE  NewsInv'
<1>1. UNCHANGED <<requests, links, details, clicked, overtaken, listed, form>>
  BY DEF News!OtherEditor
<1>2. Grown
  <2>1. CASE \E text \in Texts : News!Store(text)
    BY <2>1, StoreGrows DEF NewsInv, PageInv
  <2>2. CASE \E i \in News!Published : News!Erase(i)
    BY <2>2, EraseGrows DEF NewsInv, PageInv, News!Published
  <2> QED BY <2>1, <2>2 DEF News!OtherEditor
<1>3. AllHonest(requests')
  BY <1>1 DEF NewsInv, PageInv, AllHonest
<1>4. PageInv'
  BY <1>1, <1>2, <1>3, OnlyRequests
<1>5. ArticleInv'
  BY <1>1, ArticleKept
<1> QED BY <1>4, <1>5 DEF NewsInv

\* The row of an announcement leaves the list, and no other.
LEMMA RowRemoved ==
  ASSUME NewsInv, NEW i
  PROVE  LET s == News!Removed(i)
         IN /\ s \in Seq(Nat) /\ Distinct(s)
            /\ \A p \in DOMAIN s : s[p] \in News!Ids
            /\ \A p \in DOMAIN listed : listed[p] # i => \E q \in DOMAIN s : s[q] = listed[p]
<1> DEFINE n == Len(listed)
<1>1. n \in Nat /\ DOMAIN listed = 1 .. n /\ listed \in Seq(Nat) /\ Distinct(listed)
  BY DEF NewsInv, PageInv
<1>2. CASE i \notin News!ToSet(listed)
  BY <1>1, <1>2 DEF News!Removed, NewsInv, PageInv
<1>3. CASE i \in News!ToSet(listed)
  <2> DEFINE k == CHOOSE p \in DOMAIN listed : listed[p] = i
             s == SubSeq(listed, 1, k - 1) \o SubSeq(listed, k + 1, Len(listed))
  <2>1. k \in DOMAIN listed /\ listed[k] = i
    BY <1>3 DEF News!ToSet
  <2> HIDE DEF k
  <2>2. /\ s \in Seq(Nat) /\ Len(s) = n - 1
        /\ \A p \in 1 .. n - 1 : s[p] = IF p < k THEN listed[p] ELSE listed[p + 1]
    BY <1>1, <2>1, Removed
  <2>3. News!Removed(i) = s
    BY <1>3 DEF News!Removed, News!RemoveAt, k
  <2> HIDE DEF s, n
  <2>4. DOMAIN s = 1 .. n - 1 /\ k \in 1 .. n
    BY <1>1, <2>1, <2>2
  <2>5. Distinct(s)
    <3> SUFFICES ASSUME NEW p \in 1 .. n - 1, NEW q \in 1 .. n - 1, s[p] = s[q] PROVE p = q
      BY <2>4 DEF Distinct
    <3> DEFINE at(m) == IF m < k THEN m ELSE m + 1
    <3>1. at(p) \in 1 .. n /\ at(q) \in 1 .. n /\ s[p] = listed[at(p)] /\ s[q] = listed[at(q)]
      BY <1>1, <2>2, <2>4
    <3>2. at(p) = at(q)
      BY <1>1, <3>1 DEF Distinct
    <3> QED BY <1>1, <2>4, <3>2
  <2>6. ASSUME NEW p \in DOMAIN s PROVE s[p] \in News!Ids
    <3>1. s[p] = IF p < k THEN listed[p] ELSE listed[p + 1]
      BY <2>2, <2>4
    <3>2. p \in 1 .. n /\ p + 1 \in 1 .. n
      BY <1>1, <2>4
    <3> QED BY <1>1, <3>1, <3>2 DEF NewsInv, PageInv
  <2>7. ASSUME NEW p \in DOMAIN listed, listed[p] # i PROVE \E q \in DOMAIN s : s[q] = listed[p]
    <3>1. CASE p < k
      <4>1. p \in 1 .. n - 1
        BY <1>1, <2>4, <3>1
      <4> QED BY <2>2, <2>4, <3>1, <4>1
    <3>2. CASE ~(p < k)
      <4>1. p # k
        BY <2>1, <2>7
      <4>2. p - 1 \in 1 .. n - 1 /\ ~(p - 1 < k) /\ (p - 1) + 1 = p
        BY <1>1, <2>4, <3>2, <4>1
      <4>3. s[p - 1] = listed[p]
        BY <2>2, <4>2
      <4> QED BY <2>4, <4>2, <4>3
    <3> QED BY <3>1, <3>2
  <2> QED BY <2>2, <2>3, <2>5, <2>6, <2>7
<1> QED BY <1>2, <1>3

\* A true answer.
LEMMA AnsweringKeepsInv ==
  ASSUME NewsInv, NEW c \in Connections, requests[c] # News!Free, Grown,
         NEW a \in Seq(Nat) \cup Nat \cup {NoText, "OK"},
         requests' = [requests EXCEPT ![c].answer = <<a>>],
         UNCHANGED <<links, details, clicked, overtaken, listed, form>>,
         requests[c].kind \in {"links", "latest"} =>
           a \in Seq(Nat) /\ Distinct(a) /\ \A p \in DOMAIN a : a[p] \in News!Ids',
         requests[c].kind = "get" => a \in {requests[c].of, NoText},
         requests[c].kind = "post" => a \in News!Ids' /\ announcements'[a].text = requests[c].of,
         requests[c].kind = "delete" => announcements'[requests[c].of].deleted
  PROVE  NewsInv'
<1> DEFINE sent == requests[c]
           answer == <<a>>
           new == [sent EXCEPT !.answer = answer]
<1>1. sent \in NewsRequest /\ Honest(sent)
  BY DEF NewsInv, PageInv, AllHonest
<1>2. answer # <<>> /\ answer[1] = a /\ answer \in {<<b>> : b \in Seq(Nat) \cup Nat \cup {NoText, "OK"}}
  OBVIOUS
<1>3. requests' = [requests EXCEPT ![c] = new]
  OBVIOUS
<1> HIDE DEF answer
<1>4. /\ new \in NewsRequest /\ new.answer = answer
      /\ new.kind = sent.kind /\ new.of = sent.of /\ new.current = sent.current
  <2> HIDE DEF sent
  <2> QED BY <1>1, <1>2 DEF NewsRequest
<1> HIDE DEF new
<1>5. /\ requests' \in [Connections -> NewsRequest \cup {News!Free}]
      /\ requests'[c] = new
      /\ \A d \in Connections : d # c => requests'[d] = requests[d]
  BY <1>3, <1>4 DEF NewsInv, PageInv, AllHonest
<1>6. ASSUME NEW d \in Connections, requests'[d] # News!Free PROVE Honest(requests[d])'
  <2>1. CASE d = c
    <3>1. /\ sent.kind = "delete" => sent.of \in News!Ids'
          /\ sent.kind = "post" => sent.of \in Texts
      BY <1>1 DEF Honest, Grown
    <3> QED BY <1>2, <1>4, <1>5, <2>1, <3>1 DEF Honest
  <2>2. CASE d # c
    <3> DEFINE r == requests[d]
    <3>1. Honest(r) /\ requests'[d] = r
      BY <1>5, <1>6, <2>2 DEF NewsInv, PageInv, AllHonest
    <3> HIDE DEF r
    <3> QED BY <3>1, StaysHonest
  <2> QED BY <2>1, <2>2
<1>7. AllHonest(requests)'
  BY <1>5, <1>6 DEF AllHonest
<1>8. PageInv'
  <2>1. \A p \in DOMAIN listed : listed[p] \in News!Ids'
    BY DEF NewsInv, PageInv, Grown
  <2>2. announcements' \in Seq(Announcement)
    BY DEF Grown
  <2> QED BY <1>7, <2>1, <2>2 DEF NewsInv, PageInv, Distinct
<1>9. ArticleInv'
  BY <1>4, <1>5, ArticleKept
<1> QED BY <1>8, <1>9 DEF NewsInv

LEMMA ServingKeepsInv ==
  ASSUME NewsInv, NEW c \in Connections, News!Serve(c)
  PROVE  NewsInv'
<1>1. /\ requests[c] # News!Free /\ requests[c] \in NewsRequest /\ Honest(requests[c])
      /\ UNCHANGED <<links, details, clicked, overtaken, listed, form>>
      /\ announcements \in Seq(Announcement)
  BY DEF News!Serve, NewsInv, PageInv, AllHonest
<1>2. CASE requests[c].kind = "post"
  <2> DEFINE a == Len(announcements')
  <2>1. News!Store(requests[c].of) /\ requests' = [requests EXCEPT ![c].answer = <<a>>]
    BY <1>2 DEF News!Serve
  <2>2. requests[c].of \in Texts
    BY <1>1, <1>2 DEF Honest
  <2>3. Grown /\ a \in News!Ids' /\ announcements'[a].text = requests[c].of /\ a \in Nat
    BY <1>1, <2>1, <2>2, StoreGrows
  <2> HIDE DEF a
  <2> QED BY <1>1, <1>2, <2>1, <2>3, AnsweringKeepsInv
<1>3. CASE requests[c].kind = "delete"
  <2> DEFINE a == "OK"
  <2>1. News!Erase(requests[c].of) /\ requests' = [requests EXCEPT ![c].answer = <<a>>]
    BY <1>3 DEF News!Serve
  <2>2. requests[c].of \in News!Ids
    BY <1>1, <1>3 DEF Honest
  <2>3. Grown /\ announcements'[requests[c].of].deleted
    BY <1>1, <2>1, <2>2, EraseGrows
  <2>4. a \in Seq(Nat) \cup Nat \cup {NoText, "OK"}
    OBVIOUS
  <2> HIDE DEF a
  <2> QED BY <1>1, <1>3, <2>1, <2>3, <2>4, AnsweringKeepsInv
<1>4. CASE requests[c].kind = "get"
  <2> DEFINE a == IF requests[c].of \in News!Published THEN requests[c].of ELSE NoText
  <2>1. announcements' = announcements /\ requests' = [requests EXCEPT ![c].answer = <<a>>]
    BY <1>4 DEF News!Serve
  <2>2. a \in {requests[c].of, NoText} /\ a \in Seq(Nat) \cup Nat \cup {NoText, "OK"}
    BY <1>1 DEF News!Published, News!Ids
  <2>3. Grown
    BY <1>1, <2>1, NothingGrows
  <2> HIDE DEF a
  <2> QED BY <1>1, <1>4, <2>1, <2>2, <2>3, AnsweringKeepsInv
<1>5. CASE requests[c].kind \in {"links", "latest"}
  <2> DEFINE a == News!Latest
  <2>1. announcements' = announcements /\ requests' = [requests EXCEPT ![c].answer = <<a>>]
    BY <1>5 DEF News!Serve
  <2>2. a \in Seq(Nat) /\ Distinct(a) /\ \A p \in DOMAIN a : a[p] \in News!Ids
    BY <1>1, LatestIsDistinct
  <2>3. Grown /\ News!Ids' = News!Ids
    BY <1>1, <2>1, NothingGrows DEF News!Ids
  <2>4. a \in Seq(Nat) \cup Nat \cup {NoText, "OK"} /\ \A p \in DOMAIN a : a[p] \in News!Ids'
    BY <2>2, <2>3
  <2> HIDE DEF a
  <2> QED BY <1>1, <1>5, <2>1, <2>2, <2>3, <2>4, AnsweringKeepsInv
<1>6. requests[c].kind \in Kinds
  BY <1>1 DEF NewsRequest
<1> QED BY <1>2, <1>3, <1>4, <1>5, <1>6 DEF Kinds

\* What an answer that has come says.
LEMMA AnswerFacts ==
  ASSUME NewsInv, NEW c \in Connections, NEW kind \in Kinds, News!Answered(c, kind)
  PROVE  /\ requests[c] # News!Free /\ requests[c] \in NewsRequest /\ Honest(requests[c])
         /\ requests[c].kind = kind /\ requests[c].answer # <<>>
<1>1. requests[c].kind = kind /\ requests[c].answer # <<>>
  BY DEF News!Answered
<1>2. requests[c] # News!Free
  BY <1>1 DEF News!Free, Kinds
<1> QED BY <1>1, <1>2 DEF NewsInv, PageInv, AllHonest

\* A request that is over.
LEMMA EndedRequests ==
  ASSUME NewsInv, NEW c \in Connections, requests' = [requests EXCEPT ![c] = News!Free]
  PROVE  /\ AllHonest(requests')
         /\ \A d \in Connections : requests'[d].kind = "get" => requests'[d] = requests[d]
<1>1. News!Free.kind # "get" /\ News!Free \in NewsRequest \cup {News!Free}
  BY DEF News!Free
<1>2. AllHonest(requests)
  BY DEF NewsInv, PageInv
<1>3. /\ AllHonest(requests') /\ requests'[c] = News!Free
      /\ \A d \in Connections : d # c => requests'[d] = requests[d]
  BY <1>1, <1>2, OneRequest
<1> QED BY <1>1, <1>3

LEMMA AnswersEnd ==
  ASSUME NewsInv, NEW c \in Connections,
         News!Fail(c) \/ News!ShowLinks(c) \/ News!ShowAnnouncement(c) \/ News!Deleted(c)
  PROVE  NewsInv'
<1>0. /\ links \in Seq(Nat) /\ listed \in Seq(Nat) /\ Distinct(listed)
      /\ \A p \in DOMAIN listed : listed[p] \in News!Ids
      /\ form \in Texts \cup {NoText}
  BY DEF NewsInv, PageInv
<1>1. /\ requests' = [requests EXCEPT ![c] = News!Free]
      /\ UNCHANGED <<announcements, form, clicked>>
  BY DEF News!Fail, News!ShowLinks, News!ShowAnnouncement, News!Deleted
<1>2. Grown
  BY <1>1, NothingGrows DEF NewsInv, PageInv
<1>3. /\ AllHonest(requests')
      /\ \A d \in Connections : requests'[d].kind = "get" => requests'[d] = requests[d]
  BY <1>1, EndedRequests
<1>4. UNCHANGED <<details, overtaken>> => ArticleInv'
  BY <1>1, <1>3, ArticleKept
<1>5. CASE News!Fail(c)
  <2>1. UNCHANGED <<details, overtaken, links, listed>>
    BY <1>5 DEF News!Fail
  <2> QED BY <1>1, <1>2, <1>3, <1>4, <2>1, OnlyRequests DEF NewsInv
<1>6. CASE News!ShowLinks(c)
  <2>1. /\ UNCHANGED <<details, overtaken, listed>>
        /\ links' = links \o requests[c].answer[1] /\ News!Answered(c, "links")
    BY <1>6 DEF News!ShowLinks
  <2>2. requests[c].answer[1] \in Seq(Nat)
    BY <2>1, AnswerFacts DEF Kinds, Honest
  <2>3. links' \in Seq(Nat)
    BY <1>0, <2>1, <2>2
  <2>4. listed' \in Seq(Nat) /\ Distinct(listed') /\ \A p \in DOMAIN listed' : listed'[p] \in News!Ids
    BY <1>0, <2>1
  <2>5. PageInv'
    BY <1>0, <1>1, <1>2, <1>3, <2>3, <2>4, PageKept
  <2> QED BY <1>4, <2>1, <2>5 DEF NewsInv
<1>7. CASE News!ShowAnnouncement(c)
  <2>1. /\ UNCHANGED <<links, listed>> /\ overtaken' = ~requests[c].current
        /\ details' = requests[c].answer[1] /\ News!Answered(c, "get")
    BY <1>7 DEF News!ShowAnnouncement
  <2>2. /\ requests[c].kind = "get" /\ requests[c].current \in BOOLEAN
        /\ details' \in {requests[c].of, NoText}
    BY <2>1, AnswerFacts DEF Kinds, Honest, NewsRequest
  <2>3. requests[c].current => requests[c].of = clicked
    BY <2>2 DEF NewsInv, ArticleInv
  <2>4. overtaken' \/ details' \in {clicked', NoText, Loading}
    BY <1>1, <2>1, <2>2, <2>3
  <2>5. ArticleInv'
    BY <1>1, <1>3, <2>4 DEF NewsInv, ArticleInv
  <2>6. PageInv'
    BY <1>1, <1>2, <1>3, <2>1, OnlyRequests
  <2> QED BY <2>5, <2>6 DEF NewsInv
<1>8. CASE News!Deleted(c)
  <2> DEFINE of == requests[c].of
  <2>1. UNCHANGED <<details, overtaken, links>> /\ listed' \in {listed, News!Removed(of)}
    BY <1>8 DEF News!Deleted
  <2> HIDE DEF of
  <2>2. listed' \in Seq(Nat) /\ Distinct(listed') /\ \A p \in DOMAIN listed' : listed'[p] \in News!Ids
    BY <1>0, <2>1, RowRemoved
  <2>3. PageInv'
    BY <1>0, <1>1, <1>2, <1>3, <2>1, <2>2, PageKept
  <2> QED BY <1>4, <2>1, <2>3 DEF NewsInv
<1> QED BY <1>5, <1>6, <1>7, <1>8

\* The login page has taken the place of this one.
LEMMA LeavingKeepsInv ==
  ASSUME NewsInv, NEW c \in Connections, News!AjaxError(c)
  PROVE  NewsInv'
<1>1. /\ requests' = [d \in Connections |-> News!Free] /\ form' = NoText /\ listed' = <<>>
      /\ UNCHANGED <<announcements, links, details, clicked, overtaken>>
  BY DEF News!AjaxError
<1>2. AllHonest(requests')
  BY <1>1 DEF AllHonest
<1>3. links' \in Seq(Nat) /\ listed' \in Seq(Nat) /\ Distinct(listed')
      /\ \A p \in DOMAIN listed' : listed'[p] \in News!Ids
  BY <1>1 DEF NewsInv, PageInv, Distinct
<1>4. PageInv'
  BY <1>1, <1>2, <1>3, NothingGrows, PageKept DEF NewsInv, PageInv
<1>5. \A d \in Connections : requests'[d].kind # "get"
  BY <1>1 DEF News!Free
<1>6. ArticleInv'
  BY <1>1, <1>5, ArticleKept
<1> QED BY <1>4, <1>6 DEF NewsInv

LEMMA LoadingKeepsInv ==
  ASSUME NewsInv, NEW c \in Connections, News!DisplayAnnouncements(c)
  PROVE  NewsInv'
<1> DEFINE left == News!Outdated("delete")
<1>1. /\ requests' = [left EXCEPT ![c] = News!Free]
      /\ UNCHANGED <<announcements, clicked, form, links, details, overtaken>>
      /\ listed' = requests[c].answer[1] /\ News!Answered(c, "latest")
  BY DEF News!DisplayAnnouncements
<1>2. /\ requests[c].answer[1] \in Seq(Nat) /\ Distinct(requests[c].answer[1])
      /\ \A p \in DOMAIN requests[c].answer[1] : requests[c].answer[1][p] \in News!Ids
  BY <1>1, AnswerFacts DEF Kinds, Honest
<1>3. /\ AllHonest(left)
      /\ \A d \in Connections : left[d].kind # "delete" => left[d] = requests[d]
  BY OutdatedRequests DEF Kinds
<1> HIDE DEF left
<1>4. /\ AllHonest(requests') /\ requests'[c] = News!Free
      /\ \A d \in Connections : d # c => requests'[d] = left[d]
  BY <1>1, <1>3, OneRequest
<1>5. links' \in Seq(Nat) /\ form' \in Texts \cup {NoText} /\ Grown
  BY <1>1, NothingGrows DEF NewsInv, PageInv
<1>6. PageInv'
  BY <1>1, <1>2, <1>4, <1>5, PageKept
<1>7. News!Free.kind # "get"
  BY DEF News!Free
<1>8. ArticleInv'
  BY <1>1, <1>3, <1>4, <1>7, ArticleKept
<1> QED BY <1>6, <1>8 DEF NewsInv

LEMMA PostedKeepsInv ==
  ASSUME NewsInv, NEW c \in Connections, News!Posted(c)
  PROVE  NewsInv'
<1> DEFINE r == News!Request("latest", 0)
<1>1. r \in NewsRequest /\ r.kind = "latest" /\ Honest(r)
  BY RequestFacts DEF Kinds
<1>2. /\ requests' = [requests EXCEPT ![c] = r] /\ form' = NoText
      /\ UNCHANGED <<announcements, clicked, links, details, listed, overtaken>>
  BY DEF News!Posted
<1> HIDE DEF r
<1>3. /\ AllHonest(requests') /\ requests'[c] = r
      /\ \A d \in Connections : d # c => requests'[d] = requests[d]
  BY <1>1, <1>2, OneRequest DEF NewsInv, PageInv
<1>4. /\ links' \in Seq(Nat) /\ listed' \in Seq(Nat) /\ Distinct(listed')
      /\ \A p \in DOMAIN listed' : listed'[p] \in News!Ids
  BY <1>2 DEF NewsInv, PageInv, Distinct
<1>5. PageInv'
  BY <1>2, <1>3, <1>4, NothingGrows, PageKept DEF NewsInv, PageInv
<1>6. ArticleInv'
  BY <1>1, <1>2, <1>3, ArticleKept
<1> QED BY <1>5, <1>6 DEF NewsInv

LEMMA NewsInvStep == NewsInv /\ [News!Next]_(News!vars) => NewsInv'
<1> SUFFICES ASSUME NewsInv, [News!Next]_(News!vars) PROVE NewsInv'
  OBVIOUS
<1>1. CASE UNCHANGED News!vars
  <2>1. Grown /\ AllHonest(requests')
    BY <1>1, NothingGrows DEF News!vars, NewsInv, PageInv, AllHonest
  <2>2. UNCHANGED <<links, listed, form, details, clicked, overtaken, requests>>
    BY <1>1 DEF News!vars
  <2>3. PageInv'
    BY <2>1, <2>2, OnlyRequests
  <2>4. ArticleInv'
    BY <2>2, ArticleKept
  <2> QED BY <2>3, <2>4 DEF NewsInv
<1>2. CASE News!Next
  BY <1>2, NewsUsersAct, ClickingKeepsInv, TypingKeepsInv, OthersKeepInv, ServingKeepsInv, AnswersEnd,
     LeavingKeepsInv, LoadingKeepsInv, PostedKeepsInv DEF News!Next
<1> QED BY <1>1, <1>2

\* A row is removed when it was clicked and its announcement has been deleted.
LEMMA RowsAreKept == NewsInv /\ [News!Next]_(News!vars) => News!RowsLeave
<1> SUFFICES ASSUME NewsInv, [News!Next]_(News!vars), page' # "login",
                    \A c \in Connections : ~News!DisplayAnnouncements(c),
                    NEW i \in News!ToSet(listed) \ News!ToSet(listed')
             PROVE  /\ i \notin News!Published
                    /\ \E c \in Connections :
                         /\ requests[c].kind = "delete" /\ requests[c].of = i
                         /\ requests[c].current /\ requests[c].answer # <<>>
  BY DEF News!RowsLeave
<1>1. listed' # listed
  OBVIOUS
<1>2. PICK c \in Connections : News!Deleted(c)
  BY <1>1 DEF News!Next, News!vars, News!ViewLatest, News!DisplayAnnouncement,
     News!LoadAnnouncements, News!Type, News!AddNewAnnouncement, News!DeleteAnnouncement,
     News!OtherEditor, News!Serve, News!Fail, News!AjaxError, News!ShowLinks, News!ShowAnnouncement,
     News!Posted
<1> DEFINE of == requests[c].of
<1>3. announcements[of].deleted /\ of \in News!Ids
  BY <1>2, AnswerFacts DEF News!Deleted, Kinds, Honest
<1>4. listed' = News!Removed(of) /\ requests[c].current
  BY <1>1, <1>2 DEF News!Deleted
<1>5. requests[c].kind = "delete" /\ requests[c].answer # <<>> /\ requests[c].of = of
  BY <1>2 DEF News!Deleted, News!Answered
<1> HIDE DEF of
<1>6. i = of
  <2> SUFFICES ASSUME i # of PROVE FALSE
    OBVIOUS
  <2>1. PICK p \in DOMAIN listed : listed[p] = i
    BY DEF News!ToSet
  <2>2. \E q \in DOMAIN listed' : listed'[q] = i
    BY <1>4, <2>1, RowRemoved
  <2> QED BY <2>2 DEF News!ToSet
<1> QED BY <1>3, <1>4, <1>5, <1>6 DEF News!Published

\* The form is emptied for a text that has been stored, it or an earlier one.
LEMMA TextsAreKept == NewsInv /\ [News!Next]_(News!vars) => News!TextIsKept
<1> SUFFICES ASSUME NewsInv, [News!Next]_(News!vars), form # NoText, form' = NoText, page' # "login"
             PROVE  \/ \E i \in News!Ids : announcements[i].text = form
                    \/ \E c \in Connections :
                         /\ requests[c].kind = "post" /\ requests[c].of # form
                         /\ requests[c].answer # <<>> /\ requests'[c] # requests[c]
  BY DEF News!TextIsKept
<1>1. NoText \notin Texts
  BY TardisBankAssumption DEF News!NewsAssumption
<1>2. PICK c \in Connections : News!Posted(c)
  BY <1>1 DEF News!Next, News!vars, News!ViewLatest, News!DisplayAnnouncement,
     News!LoadAnnouncements, News!Type, News!AddNewAnnouncement, News!DeleteAnnouncement,
     News!OtherEditor, News!Serve, News!Fail, News!AjaxError, News!ShowLinks, News!ShowAnnouncement,
     News!DisplayAnnouncements, News!Deleted
<1>3. /\ requests[c].kind = "post" /\ requests[c].answer # <<>>
      /\ requests[c].answer[1] \in News!Ids
      /\ announcements[requests[c].answer[1]].text = requests[c].of
  BY <1>2, AnswerFacts DEF News!Posted, Kinds, Honest
<1> DEFINE r == News!Request("latest", 0)
<1>4. r.kind = "latest"
  BY DEF News!Request
<1>5. requests' = [requests EXCEPT ![c] = r]
  BY <1>2 DEF News!Posted
<1> HIDE DEF r
<1>6. requests'[c] = r
  BY <1>5 DEF NewsInv, PageInv, AllHonest
<1>7. requests'[c] # requests[c]
  BY <1>3, <1>4, <1>6
<1> QED BY <1>3, <1>7

LEMMA NewsMovesAlone ==
  /\ TardisBankInit => News!Init
  /\ [TardisBankNext]_all => [News!Next]_(News!vars)
<1>1. TardisBankInit => News!Init
  BY DEF TardisBankInit
<1>2. [TardisBankNext]_all => [News!Next]_(News!vars)
  BY DEF all, newsVars, TardisBankNext, AccountMoves, PocketMoves, PocketRests, StoredMoves, FamilyMoves,
         NewsMoves, News!vars
<1> QED BY <1>1, <1>2

\* However many requests are under way, in whatever order they are answered
\* and whichever fail, the editor's list has no announcement twice and loses a
\* row only when it was clicked and deleted; the article shown is that of the
\* link clicked last unless an earlier answer came late; and a text is kept
\* until it, or the one before it, is stored or the page is left for the login
\* (news.view.js, news.edit.js, common.js, AnnouncementsController).
THEOREM NewsStaysTrue == TardisBankSpec => NewsPagesAreTrue
<1>1. TardisBankInit => NewsInv
  BY NewsMovesAlone, NewsStarts
<1>2. NewsInv /\ [TardisBankNext]_all => NewsInv'
  BY NewsMovesAlone, NewsInvStep
<1>3. NewsInv => News!NoRowTwice /\ News!DetailsAreTheClicked
  BY DEF NewsInv, PageInv, ArticleInv, Distinct, News!NoRowTwice, News!DetailsAreTheClicked
<1>4. NewsInv /\ [TardisBankNext]_all => [News!RowsLeave]_(News!vars) /\ [News!TextIsKept]_(News!vars)
  BY NewsMovesAlone, RowsAreKept, TextsAreKept
<1> QED BY <1>1, <1>2, <1>3, <1>4, PTL
        DEF TardisBankSpec, NewsPagesAreTrue, News!RowsLeaveWhenDeleted, News!TextKeptUntilPublished
=============================================================================
