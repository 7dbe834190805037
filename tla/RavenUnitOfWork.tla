--------------------------- MODULE RavenUnitOfWork --------------------------
(***************************************************************************)
(* A request under AutoTransactionHandler when the transaction manager is  *)
(* SharpArch.RavenDb.TransactionManager.                                   *)
(*                                                                         *)
(* The manager keeps a TransactionScope in a field.  RavenDB's client does *)
(* not enlist in it: a document session collects changes, and SaveChanges  *)
(* sends them as one atomic batch, which is where they become durable.     *)
(* Every repository makes a manager of its own over the same session, so   *)
(* scopes nest: the first is the root of an ambient transaction, later     *)
(* ones join it.  Nobody disposes a manager.                               *)
(*                                                                         *)
(* Sessions are not shared between requests; one request is enough.        *)
(***************************************************************************)
EXTENDS TransactionPolicy

CONSTANTS
  Managers,        \* transaction managers over the request's session
  Injected,        \* the one the handler resolves; the others are repositories'
  Writes,          \* the changes the action may make
  NoTransaction    \* there is no ambient transaction

ASSUME RavenAssumption ==
  /\ Injected \in Managers
  /\ NoTransaction \notin Levels

VARIABLES
  pc,           \* how far the request has come
  attribute,    \* the effective TransactionAttribute
  modelValid,   \* ModelState.IsValid
  exception,    \* ActionExecutedContext.Exception and ExceptionHandled
  fault,        \* what made the handler itself throw
  scope,        \* what each manager's _transaction is
  level,        \* isolation level of the ambient transaction
  doomed,       \* the ambient transaction can only abort
  pending,      \* changes the session tracks
  durable,      \* changes the server has applied
  asked,        \* history: changes the action has made and not evicted
  stored,       \* history: the action itself has saved changes
  left,         \* history: the action has closed the injected manager's scope
  discarded     \* history: unsaved changes a completed rollback should discard

requestVars == <<pc, attribute, modelValid, exception, fault>>
scopeVars == <<scope, level, doomed>>
sessionVars == <<pending, durable>>
historyVars == <<asked, stored, left, discarded>>
vars == <<requestVars, scopeVars, sessionVars, historyVars>>

Phases == {"arrived", "action", "executed", "closing", "done"}
Faults == {"none", "save", "complete", "rollback"}

\* A scope is the root of the ambient transaction, has joined it, is the
\* orphan of one that is over, or has been disposed without being cleared.
Live == {"root", "joined", "orphan"}
ScopeStates == {"null", "disposed"} \cup Live

TypeOK ==
  /\ pc \in Phases
  /\ attribute \in Attributes \cup {NoAttribute}
  /\ modelValid \in BOOLEAN
  /\ exception \in Exceptions
  /\ fault \in Faults
  /\ scope \in [Managers -> ScopeStates]
  /\ level \in Levels \cup {NoTransaction}
  /\ doomed \in BOOLEAN
  /\ \A m, n \in Managers : scope[m] = "root" /\ scope[n] = "root" => m = n
  /\ level # NoTransaction <=> \E m \in Managers : scope[m] = "root"
  /\ pending \subseteq Writes
  /\ durable \subseteq Writes
  /\ asked \subseteq Writes
  /\ stored \in BOOLEAN
  /\ left \in BOOLEAN
  /\ discarded \subseteq Writes

Init ==
  /\ pc = "arrived"
  /\ attribute = NoAttribute
  /\ modelValid \in BOOLEAN
  /\ exception = "none"
  /\ fault = "none"
  /\ scope = [m \in Managers |-> "null"]
  /\ level = NoTransaction
  /\ doomed = FALSE
  /\ pending = {}
  /\ durable = {}
  /\ asked = {}
  /\ stored = FALSE
  /\ left = FALSE
  /\ discarded = {}

(***************************************************************************)
(* System.Transactions.                                                    *)
(***************************************************************************)
\* new TransactionScope(Required, level): the root of a new transaction, or a
\* member of the ambient one, which must have the same level.
OpenScope(m, lvl) ==
  \/ /\ level = NoTransaction
     /\ scope' = [scope EXCEPT ![m] = "root"]
     /\ level' = lvl
     /\ UNCHANGED doomed
  \/ /\ level # NoTransaction
     /\ level = lvl \/ lvl = "Unspecified"
     /\ scope' = [scope EXCEPT ![m] = "joined"]
     /\ UNCHANGED <<level, doomed>>

\* Whether disposing the scope of m may throw.  Committing an aborted
\* transaction does; rolling back one that is already over might.
DisposeThrows(m, completed) ==
  IF scope[m] = "root" THEN {completed /\ doomed}
  ELSE IF scope[m] = "orphan" /\ ~completed THEN BOOLEAN
  ELSE {FALSE}

\* Dispose leaves rest in the field of m.  A member that has not been completed
\* dooms the transaction, the root ends it.
DisposeScope(m, completed, rest) ==
  /\ scope' = [n \in Managers |->
       IF n = m THEN rest
       ELSE IF scope[m] = "root" /\ scope[n] = "joined" THEN "orphan"
       ELSE scope[n]]
  /\ level' = IF scope[m] = "root" THEN NoTransaction ELSE level
  /\ doomed' = IF scope[m] = "root" THEN FALSE
               ELSE doomed \/ (scope[m] = "joined" /\ ~completed)

(***************************************************************************)
(* SharpArch.RavenDb.TransactionManager.                                   *)
(***************************************************************************)
IsActive(m) == scope[m] # "null"

\* Not the code: each call opens a scope and forgets the one before.
BeginAnew(m, lvl) == OpenScope(m, lvl)

\* BeginTransaction: _transaction ??= new TransactionScope(...).
BeginTransaction(m, lvl) ==
  IF IsActive(m) THEN UNCHANGED scopeVars ELSE OpenScope(m, lvl)

\* Not the code: the field keeps the disposed scope.
ClearTransactionHalf(m, completed, threw) ==
  /\ threw \in DisposeThrows(m, completed)
  /\ DisposeScope(m, completed, IF IsActive(m) THEN "disposed" ELSE "null")

\* ClearTransaction: when Dispose throws, the field is not reset.
ClearTransaction(m, completed, threw) ==
  /\ threw \in DisposeThrows(m, completed)
  /\ DisposeScope(m, completed, IF threw THEN "disposed" ELSE "null")

SaveChanges ==
  /\ durable' = durable \cup pending
  /\ pending' = {}

\* The server refuses the batch, the token is cancelled or the answer is lost.
SaveChangesFails ==
  /\ durable' \in {durable, durable \cup pending}
  /\ UNCHANGED pending

\* Not the code: the scope is disposed without being completed.
CommitWithoutComplete(m, outcome) ==
  /\ IsActive(m)
  /\ \/ /\ outcome = "save"
        /\ SaveChangesFails
        /\ UNCHANGED scopeVars
     \/ /\ outcome = "complete"
        /\ SaveChanges
        /\ ClearTransaction(m, FALSE, TRUE)
     \/ /\ outcome = "none"
        /\ SaveChanges
        /\ ClearTransaction(m, FALSE, FALSE)

\* CommitTransactionAsync.  The changes are durable before the scope is looked
\* at: Complete throws on a disposed scope, Dispose on a doomed transaction.
CommitTransaction(m, outcome) ==
  /\ IsActive(m)
  /\ \/ /\ outcome = "save"
        /\ SaveChangesFails
        /\ UNCHANGED scopeVars
     \/ /\ outcome = "complete"
        /\ SaveChanges
        /\ \/ scope[m] = "disposed" /\ UNCHANGED scopeVars
           \/ scope[m] \in Live /\ ClearTransaction(m, TRUE, TRUE)
     \/ /\ outcome = "none"
        /\ SaveChanges
        /\ scope[m] \in Live
        /\ ClearTransaction(m, TRUE, FALSE)

\* RollbackTransactionAsync, also without a transaction.
RollbackTransaction(m, threw) ==
  /\ ClearTransaction(m, FALSE, threw)
  /\ UNCHANGED sessionVars

\* History: the rollback of a transaction has been reported as done, so what
\* is not on the server yet should never get there.
Discards(m, threw) ==
  discarded' = IF threw \/ scope[m] \notin Live THEN discarded
               ELSE discarded \cup (pending \ durable)

(***************************************************************************)
(* OnActionExecutionAsync up to next().                                    *)
(***************************************************************************)
BeginRequest ==
  /\ pc = "arrived"
  /\ \E a \in Actions :
       /\ attribute' = EffectivePolicy(a)
       /\ IF EffectivePolicy(a) = NoAttribute
            THEN UNCHANGED scopeVars
            ELSE BeginTransaction(Injected, EffectivePolicy(a).isolation)
  /\ pc' = "action"
  /\ UNCHANGED <<modelValid, exception, fault>>
  /\ UNCHANGED sessionVars
  /\ UNCHANGED historyVars

(***************************************************************************)
(* The action.                                                             *)
(***************************************************************************)
\* Repository SaveAsync, SaveOrUpdateAsync and DeleteAsync: the session tracks
\* the change.
Change(w) ==
  /\ pc = "action"
  /\ w \notin asked
  /\ pending' = pending \cup {w}
  /\ asked' = asked \cup {w}
  /\ UNCHANGED requestVars
  /\ UNCHANGED scopeVars
  /\ UNCHANGED <<durable, stored, left, discarded>>

\* EvictAsync: the session forgets the entity.
Evict(w) ==
  /\ pc = "action"
  /\ w \in pending
  /\ pending' = pending \ {w}
  /\ asked' = asked \ {w}
  /\ UNCHANGED requestVars
  /\ UNCHANGED scopeVars
  /\ UNCHANGED <<durable, stored, left, discarded>>

\* The action gets hold of the session and saves the changes itself.
ActionSaves ==
  /\ pc = "action"
  /\ SaveChanges \/ SaveChangesFails
  /\ stored' = TRUE
  /\ UNCHANGED requestVars
  /\ UNCHANGED scopeVars
  /\ UNCHANGED <<asked, left, discarded>>

ActionBegins(m, lvl) ==
  /\ pc = "action"
  /\ BeginTransaction(m, lvl)
  /\ UNCHANGED requestVars
  /\ UNCHANGED sessionVars
  /\ UNCHANGED historyVars

ActionCommits(m) ==
  /\ pc = "action"
  /\ \E outcome \in Faults : CommitTransaction(m, outcome)
  /\ stored' = TRUE
  /\ left' = (left \/ m = Injected)
  /\ UNCHANGED requestVars
  /\ UNCHANGED <<asked, discarded>>

ActionRollsBack(m) ==
  /\ pc = "action"
  /\ \E threw \in BOOLEAN :
       /\ RollbackTransaction(m, threw)
       /\ Discards(m, threw)
  /\ left' = (left \/ m = Injected)
  /\ UNCHANGED requestVars
  /\ UNCHANGED <<asked, stored>>

\* The action disposes what BeginTransaction returned, as a using block does:
\* the manager's field still refers to it.
ActionDisposes(m) ==
  /\ pc = "action"
  /\ scope[m] \in Live
  /\ DisposeScope(m, FALSE, "disposed")
  /\ left' = (left \/ m = Injected)
  /\ UNCHANGED requestVars
  /\ UNCHANGED sessionVars
  /\ UNCHANGED <<asked, stored, discarded>>

\* The ambient transaction reaches the maximum timeout.
TimesOut ==
  /\ level # NoTransaction
  /\ doomed' = TRUE
  /\ UNCHANGED <<scope, level>>
  /\ UNCHANGED requestVars
  /\ UNCHANGED sessionVars
  /\ UNCHANGED historyVars

AddModelError ==
  /\ pc = "action"
  /\ modelValid' = FALSE
  /\ UNCHANGED <<pc, attribute, exception, fault>>
  /\ UNCHANGED scopeVars
  /\ UNCHANGED sessionVars
  /\ UNCHANGED historyVars

ActionEnds ==
  /\ pc = "action"
  /\ exception' \in Exceptions
  /\ pc' = "executed"
  /\ UNCHANGED <<attribute, modelValid, fault>>
  /\ UNCHANGED scopeVars
  /\ UNCHANGED sessionVars
  /\ UNCHANGED historyVars

(***************************************************************************)
(* OnActionExecutionAsync after next().                                    *)
(***************************************************************************)
Supervised == attribute # NoAttribute

HandlerLeaves ==
  /\ pc = "executed"
  /\ ~(Supervised /\ IsActive(Injected))
  /\ pc' = "closing"
  /\ UNCHANGED <<attribute, modelValid, exception, fault>>
  /\ UNCHANGED scopeVars
  /\ UNCHANGED sessionVars
  /\ UNCHANGED historyVars

HandlerRollsBack ==
  /\ pc = "executed"
  /\ Supervised
  /\ IsActive(Injected)
  /\ MustRollBack(attribute, exception, modelValid)
  /\ \E threw \in BOOLEAN :
       /\ RollbackTransaction(Injected, threw)
       /\ fault' = IF threw THEN "rollback" ELSE "none"
       /\ Discards(Injected, threw)
  /\ pc' = "closing"
  /\ UNCHANGED <<attribute, modelValid, exception>>
  /\ UNCHANGED <<asked, stored, left>>

HandlerCommits ==
  /\ pc = "executed"
  /\ Supervised
  /\ IsActive(Injected)
  /\ ~MustRollBack(attribute, exception, modelValid)
  /\ \E outcome \in Faults :
       /\ CommitTransaction(Injected, outcome)
       /\ fault' = outcome
  /\ pc' = "closing"
  /\ UNCHANGED <<attribute, modelValid, exception>>
  /\ UNCHANGED historyVars

\* The end of the request disposes the session, and nothing else.
EndRequest ==
  /\ pc = "closing"
  /\ pending' = {}
  /\ pc' = "done"
  /\ UNCHANGED <<attribute, modelValid, exception, fault, durable>>
  /\ UNCHANGED scopeVars
  /\ UNCHANGED historyVars

ActionStep ==
  \/ \E w \in Writes : Change(w) \/ Evict(w)
  \/ ActionSaves
  \/ \E m \in Managers, lvl \in Levels : ActionBegins(m, lvl)
  \/ \E m \in Managers : ActionCommits(m) \/ ActionRollsBack(m) \/ ActionDisposes(m)
  \/ AddModelError

HandlerStep ==
  \/ BeginRequest
  \/ HandlerLeaves
  \/ HandlerRollsBack
  \/ HandlerCommits

Next == HandlerStep \/ ActionStep \/ ActionEnds \/ TimesOut \/ EndRequest

Spec == Init /\ [][Next]_vars

(***************************************************************************)
(* What must hold.                                                         *)
(***************************************************************************)
Finished == pc \in {"closing", "done"}

\* The action threw, or left an invalid model behind that its attribute forbids.
ActionFailed ==
  exception # "none" \/ (~modelValid /\ attribute.rollbackOnInvalid)

\* An error in the request leaves nothing of it on the server, however its
\* scopes were nested, closed or lost, as long as the action saved nothing
\* itself (the handler's rollback branch; the session is never saved).
FailureLeavesNothing ==
  Finished /\ Supervised /\ ~stored /\ ActionFailed => durable = {}

\* A request that the handler committed without an error has stored all its
\* changes, those made under another manager's rollback included (the
\* handler's commit branch and CommitTransactionAsync).
SuccessKeepsEverything ==
  Finished /\ Supervised /\ ~left /\ ~ActionFailed /\ fault = "none"
    => asked \subseteq durable

\* Unless the handler throws, it leaves its manager without a scope, also when
\* the action has left a disposed one in it (CommitTransactionAsync,
\* RollbackTransactionAsync and ClearTransaction).
NoStrayScope ==
  Finished /\ Supervised /\ fault = "none" => ~IsActive(Injected)

\* A request never succeeds when its transaction has timed out or a
\* repository's manager has rolled back its part (Complete and Dispose).
DoomIsReported ==
  [][(pc = "executed" /\ pc' = "closing" /\ Supervised /\ ~ActionFailed
        /\ scope[Injected] = "root" /\ doomed)
       => fault' # "none"]_vars

\* What ITransactionManager says of RollbackTransactionAsync: it discards any
\* changes.
RollbackDiscards == durable \cap discarded = {}

\* What TransactionAttribute says: the transaction is either committed or
\* rolled back once the action has been executed.
NoScopeOutlivesRequest ==
  pc = "done" /\ Supervised => scope[Injected] \notin Live

=============================================================================
