----------------------------- MODULE MCTardisBank ---------------------------
(***************************************************************************)
(* A small instance of every part: two schedules over three days of three  *)
(* ticks, two sessions at one account, two requests and two users, and a   *)
(* browser with two connections.                                           *)
(***************************************************************************)
EXTENDS TardisBank

\* Months of two days, one, two, two and two.
ShortMonths == <<0, 2, 3, 5, 7, 9>>

\* A schedule may take as well as give.
GiveOrTake == {-1, 2}
=============================================================================
