------------------------- MODULE TransactionPolicy -------------------------
(***************************************************************************)
(* What TransactionAttribute says of an action, and what                   *)
(* AutoTransactionHandler decides from it once the action has run.         *)
(*                                                                         *)
(* The attribute may be given globally, on the controller or on the        *)
(* action.  MVC keeps the filters of an action ordered by scope and        *)
(* FindEffectivePolicy returns the last one of the type asked for, so the  *)
(* most specific scope wins.                                               *)
(***************************************************************************)
EXTENDS Naturals

CONSTANTS
  Levels,        \* isolation levels (System.Data.IsolationLevel)
  Actions,       \* action descriptors of the application
  NoAttribute,   \* the null TransactionAttribute
  Filters        \* Filters[a][s]: the attribute that action a has in scope s

Attributes == [isolation : Levels, rollbackOnInvalid : BOOLEAN]

\* 1 is the global scope, 2 the controller, 3 the action.
Scopes == 1..3

ASSUME PolicyAssumption ==
  /\ Actions # {}
  /\ NoAttribute \notin Attributes
  /\ Filters \in [Actions -> [Scopes -> Attributes \cup {NoAttribute}]]

\* The attribute that FindEffectivePolicy<TransactionAttribute> returns.
EffectivePolicy(a) ==
  LET marked == {s \in Scopes : Filters[a][s] # NoAttribute}
  IN  IF marked = {}
        THEN NoAttribute
        ELSE Filters[a][CHOOSE s \in marked : \A t \in marked : t <= s]

(***************************************************************************)
(* How the action ended, as ActionExecutedContext reports it.  An inner    *)
(* filter that handles an exception sets ExceptionHandled and leaves       *)
(* Exception in place.                                                     *)
(***************************************************************************)
Exceptions == {"none", "handled", "unhandled"}

\* Not the code: the two alternatives of the test bound the wrong way.
MustRollBackMisread(attribute, exception, modelValid) ==
  /\ exception # "none" \/ attribute.rollbackOnInvalid
  /\ ~modelValid

\* Not the code: an invalid model always rolls back.
MustRollBackStrictly(attribute, exception, modelValid) ==
  exception # "none" \/ ~modelValid

\* The test that sends an open transaction to RollbackTransactionAsync.
MustRollBack(attribute, exception, modelValid) ==
  \/ exception # "none"
  \/ attribute.rollbackOnInvalid /\ ~modelValid

=============================================================================
