-------------------------- MODULE ScheduledPayments -------------------------
(***************************************************************************)
(* The pocket money of a child in the TardisBank sample: payment schedules *)
(* on its account, and the scheduler that a job calls from time to time.   *)
(* Time is counted in ticks, TicksPerDay of them a day, the last of which  *)
(* is 23:59:59; days are counted from zero.                                *)
(***************************************************************************)
EXTENDS Account, SequencesExt

CONSTANTS
  ScheduledAmounts,  \* what is agreed, possibly negative
  MonthStarts,   \* the first day of every month, in order
  DaysPerWeek,
  TicksPerDay,
  LastTick,      \* bound: the clock stops here, at the beginning of a day
  MaxSchedules   \* bound: schedules ever added

Day(tick) == tick \div TicksPerDay
Midnight(day) == day * TicksPerDay
TimeOfDay(tick) == tick % TicksPerDay

\* The calendar has the month after the last one in which the clock runs.
CalendarAssumption ==
  /\ MonthStarts \in Seq(Nat) /\ MonthStarts[1] = 0
  /\ \A m \in 1 .. Len(MonthStarts) - 1 : MonthStarts[m] < MonthStarts[m + 1]
  /\ DaysPerWeek \in Nat \ {0} /\ TicksPerDay \in Nat \ {0, 1}
  /\ LastTick \in Nat /\ LastTick % TicksPerDay = 0
  /\ Len(MonthStarts) > 1 /\ Day(LastTick) < MonthStarts[Len(MonthStarts) - 1]
  /\ MaxSchedules \in Nat

VARIABLES
  now,        \* the clock
  schedules,  \* PaymentSchedules of the account, in order
  plans       \* what was agreed, and the due dates paid so far (history)

vars == <<account, now, schedules, plans>>

Intervals == {"Day", "Week", "Month"}

Month(day) == CHOOSE m \in 1 .. Len(MonthStarts) - 1 :
                MonthStarts[m] <= day /\ day < MonthStarts[m + 1]
DaysIn(month) == MonthStarts[month + 1] - MonthStarts[month]
DayOfMonth(tick) == Day(tick) - MonthStarts[Month(Day(tick))]

\* DateTime.AddMonths(1): in a shorter month, its last day.
AddMonth(tick) ==
  LET next == Month(Day(tick)) + 1
      day == Min({DayOfMonth(tick), DaysIn(next) - 1})
  IN Midnight(MonthStarts[next] + day) + TimeOfDay(tick)

\* Not the code: always 30 days, here those of the first month.
NextByDays(s) ==
  [s EXCEPT !.next = CASE s.interval = "Day" -> @ + TicksPerDay
                       [] s.interval = "Week" -> @ + DaysPerWeek * TicksPerDay
                       [] s.interval = "Month" -> @ + DaysIn(1) * TicksPerDay]

CalculateNextRunDate(s) ==
  [s EXCEPT !.next = CASE s.interval = "Day" -> @ + TicksPerDay
                       [] s.interval = "Week" -> @ + DaysPerWeek * TicksPerDay
                       [] s.interval = "Month" -> AddMonth(@)]

BankInit ==
  /\ Init
  /\ now = 0
  /\ schedules = <<>>
  /\ plans = <<>>

Positions == 1 .. Len(schedules)

AddPaymentSchedule(start, interval, amount) ==
  /\ Len(plans) < MaxSchedules
  /\ schedules' = Append(schedules,
       [id |-> Len(plans) + 1, next |-> start, interval |-> interval, amount |-> amount])
  /\ plans' = Append(plans, [start |-> start, interval |-> interval, amount |-> amount, dues |-> <<>>])
  /\ UNCHANGED <<account, now>>

RemovePaymentSchedule(id) ==
  /\ \E i \in Positions : schedules[i].id = id /\ schedules' = RemoveAt(schedules, i)
  /\ UNCHANGED <<account, now, plans>>

(***************************************************************************)
(* One run of the scheduler: the child is selected by the end of the day,  *)
(* its overdue schedules are paid once each, in order.                     *)
(***************************************************************************)
EndOfDay == Midnight(Day(now) + 1) - 1

Selected == \E i \in Positions : schedules[i].next < EndOfDay

\* Not the code: the account pays until the end of the day, as it is selected.
OverdueToday(s) == s.next < EndOfDay

Overdue(s) == s.next <= now

\* The payments of the first n schedules.
Payments(n) ==
  LET pay[i \in 0 .. n] ==
        IF i = 0 THEN State
        ELSE IF Overdue(schedules[i]) THEN AddTransaction(pay[i - 1], schedules[i].amount)
        ELSE pay[i - 1]
  IN pay[n]

Reschedule ==
  schedules' = [i \in Positions |->
    IF Overdue(schedules[i]) THEN CalculateNextRunDate(schedules[i]) ELSE schedules[i]]

RecordDues ==
  plans' = [id \in DOMAIN plans |->
    LET due == {i \in Positions : schedules[i].id = id /\ Overdue(schedules[i])}
    IN IF due = {} THEN plans[id]
       ELSE [plans[id] EXCEPT !.dues = Append(@, schedules[CHOOSE i \in due : TRUE].next)]]

\* Not the code: the first overdue schedule ends the loop.
TriggerFirst ==
  LET due == {i \in Positions : Overdue(schedules[i])}
  IN /\ Become(IF due = {} THEN State ELSE AddTransaction(State, schedules[Min(due)].amount))
     /\ Reschedule
     /\ RecordDues

TriggerScheduledPayments ==
  /\ Become(Payments(Len(schedules)))
  /\ Reschedule
  /\ RecordDues

\* Not the code: only what is due today is looked for.
ExecuteToday ==
  /\ \E i \in Positions : Midnight(Day(now)) <= schedules[i].next /\ schedules[i].next < EndOfDay
  /\ TriggerScheduledPayments
  /\ UNCHANGED now

ExecuteUpdates ==
  /\ Selected
  /\ TriggerScheduledPayments
  /\ UNCHANGED now

Tick ==
  /\ now < LastTick
  /\ now' = now + 1
  /\ UNCHANGED <<account, schedules, plans>>

\* Bound: no schedule starts on the last day.
BankNext ==
  \/ \E start \in Midnight(Day(now)) .. LastTick - TicksPerDay, interval \in Intervals,
        amount \in ScheduledAmounts :
       AddPaymentSchedule(start, interval, amount)
  \/ \E id \in 1 .. MaxSchedules : RemovePaymentSchedule(id)
  \/ ExecuteUpdates
  \/ Tick

\* The job that calls the scheduler keeps calling it, and time passes.
BankSpec ==
  /\ BankInit /\ [][BankNext]_vars
  /\ WF_vars(ExecuteUpdates) /\ WF_vars(Tick)

(***************************************************************************)
(* Properties.                                                             *)
(***************************************************************************)
\* When the payment number k of a plan is due.  A month shorter than the day
\* of the start moves the day for good.
DueDate(plan, k) ==
  LET first == Month(Day(plan.start))
      month == first + k - 1
      shortest == Min({DaysIn(m) - 1 : m \in (first + 1) .. month} \cup {DayOfMonth(plan.start)})
  IN CASE plan.interval = "Day" -> plan.start + (k - 1) * TicksPerDay
       [] plan.interval = "Week" -> plan.start + (k - 1) * DaysPerWeek * TicksPerDay
       [] plan.interval = "Month" -> Midnight(MonthStarts[month] + shortest) + TimeOfDay(plan.start)

\* The accounts and schedules keep their shape: the schedules refer to plans,
\* in the order they were added.
BankTypeOK ==
  /\ TypeOK
  /\ now \in 0 .. LastTick
  /\ \A i \in Positions : schedules[i].id \in DOMAIN plans
  /\ \A i, j \in Positions : i < j => schedules[i].id < schedules[j].id

\* However irregular the runs: every due date is paid once, none is skipped,
\* none is paid early, and the date that comes next is the next of the plan.
PaymentsFollowPlan ==
  /\ \A id \in DOMAIN plans :
       LET dues == plans[id].dues
       IN \A k \in DOMAIN dues : dues[k] = DueDate(plans[id], k) /\ dues[k] <= now
  /\ \A i \in Positions :
       LET plan == plans[schedules[i].id]
       IN schedules[i].next = DueDate(plan, Len(plan.dues) + 1)

\* What the account has received, or had to give, is what the paid dates add
\* up to; nobody asks whether it was there.
PaymentsAreBooked ==
  Balance = Total([id \in DOMAIN plans |-> plans[id].amount * Len(plans[id].dues)])

\* A schedule that stays overdue is paid again and again, until it is not, so
\* every due date that has come is paid unless its schedule is removed.
OverdueSchedule(id) == \E i \in Positions : schedules[i].id = id /\ Overdue(schedules[i])
Pays(id) == id \in DOMAIN plans /\ plans'[id].dues # plans[id].dues

DueDatesGetPaid ==
  \A id \in 1 .. MaxSchedules : <>[]OverdueSchedule(id) => []<><<Pays(id)>>_vars
=============================================================================
