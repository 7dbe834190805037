------------------------ MODULE NHibernateUnitOfWork ------------------------
(***************************************************************************)
(* A request of an MVC application whose actions AutoTransactionHandler    *)
(* wraps in a transaction of SharpArch.NHibernate.TransactionManager.      *)
(*                                                                         *)
(* A request arrives, the handler begins a transaction when the action has *)
(* an effective TransactionAttribute, the action runs inside next(), the   *)
(* handler closes the transaction, the result executes and the request     *)
(* scope disposes the session.  The action is application code: it saves   *)
(* entities, queries (which flushes), uses the transaction manager itself, *)
(* adds model errors, returns or throws, in any order.  Meanwhile the      *)
(* client may disconnect, and any call on the database may fail.           *)
(*                                                                         *)
(* The session is NHibernate's and external: a saved entity is queued, or  *)
(* inserted at once when the database generates its identifier, a flush    *)
(* executes the queue, and a rollback leaves the queue alone.              *)
(***************************************************************************)
EXTENDS TransactionPolicy

CONSTANTS
  Requests,         \* requests the application serves
  RootScope,        \* the application's own service scope
  Writes,           \* the writes the actions may make
  Owner,            \* Owner[w]: the request that makes write w
  IdentityWrites,   \* inserts whose identifier the database generates
  NoTransaction,    \* GetCurrentTransaction() is null
  SupportsStatus    \* the manager implements ISupportsTransactionStatus

ASSUME UnitOfWorkAssumption ==
  /\ RootScope \notin Requests
  /\ Owner \in [Writes -> Requests]
  /\ IdentityWrites \subseteq Writes
  /\ NoTransaction \notin Levels
  /\ SupportsStatus \in BOOLEAN

ServiceScopes == Requests \cup {RootScope}

\* Not the code: the session is a singleton of the application.
SingletonSessionOf(r) == RootScope

\* The service scope that holds the session a request works with: ISession
\* is registered as Scoped, and so is the manager that both ITransactionManager
\* and the repositories' INHibernateTransactionManager forward to.
SessionOf(r) == r

Mine(r) == {w \in Writes : Owner[w] = r}

VARIABLES
  pc,            \* how far each request has come
  attribute,     \* the effective TransactionAttribute of its action
  modelValid,    \* ModelState.IsValid
  exception,     \* ActionExecutedContext.Exception and ExceptionHandled
  aborted,       \* HttpContext.RequestAborted is cancelled
  fault,         \* what made the handler itself throw
  transaction,   \* isolation level of the session's current transaction
  queued,        \* writes the session has yet to execute
  flushed,       \* writes executed in the open transaction
  durable,       \* writes the database holds for good
  asked,         \* history: writes the action has made
  tookOver       \* history: the action itself ended a transaction

requestVars == <<pc, attribute, modelValid, exception, aborted, fault>>
sessionVars == <<transaction, queued, flushed, durable>>
historyVars == <<asked, tookOver>>
vars == <<pc, attribute, modelValid, exception, aborted, fault,
          transaction, queued, flushed, durable, asked, tookOver>>

Phases == {"arrived", "action", "executed", "closing", "done"}
Faults == {"none", "begin", "cancelled", "flush", "commit", "rollback"}

TypeOK ==
  /\ pc \in [Requests -> Phases]
  /\ attribute \in [Requests -> Attributes \cup {NoAttribute}]
  /\ modelValid \in [Requests -> BOOLEAN]
  /\ exception \in [Requests -> Exceptions]
  /\ aborted \in [Requests -> BOOLEAN]
  /\ fault \in [Requests -> Faults]
  /\ transaction \in [ServiceScopes -> Levels \cup {NoTransaction}]
  /\ queued \in [ServiceScopes -> SUBSET Writes]
  /\ flushed \in [ServiceScopes -> SUBSET Writes]
  /\ durable \in SUBSET Writes
  /\ asked \in [Requests -> SUBSET Writes]
  /\ tookOver \in [Requests -> BOOLEAN]

Init ==
  /\ pc = [r \in Requests |-> "arrived"]
  /\ attribute = [r \in Requests |-> NoAttribute]
  /\ modelValid \in [Requests -> BOOLEAN]
  /\ exception = [r \in Requests |-> "none"]
  /\ aborted = [r \in Requests |-> FALSE]
  /\ fault = [r \in Requests |-> "none"]
  /\ transaction = [s \in ServiceScopes |-> NoTransaction]
  /\ queued = [s \in ServiceScopes |-> {}]
  /\ flushed = [s \in ServiceScopes |-> {}]
  /\ durable = {}
  /\ asked = [r \in Requests |-> {}]
  /\ tookOver = [r \in Requests |-> FALSE]

(***************************************************************************)
(* The session and its transaction manager.  IsActive is                   *)
(* GetCurrentTransaction()?.IsActive ?? false.                             *)
(***************************************************************************)
IsActive(s) == transaction[s] # NoTransaction

\* Session.BeginTransaction returns a transaction already begun as it is.
BeginTransaction(s, level) ==
  transaction' = [transaction EXCEPT ![s] = IF IsActive(s) THEN @ ELSE level]

\* Not the code: the commit stores what was flushed, and leaves the queue.
CommitWithoutFlush(s) ==
  /\ durable' = durable \cup flushed[s]
  /\ flushed' = [flushed EXCEPT ![s] = {}]
  /\ transaction' = [transaction EXCEPT ![s] = NoTransaction]
  /\ UNCHANGED queued

Commit(s) ==
  /\ durable' = durable \cup queued[s] \cup flushed[s]
  /\ queued' = [queued EXCEPT ![s] = {}]
  /\ flushed' = [flushed EXCEPT ![s] = {}]
  /\ transaction' = [transaction EXCEPT ![s] = NoTransaction]

\* The database refuses the commit after the flush.  The transaction is over,
\* and the failure may be no more than a lost acknowledgement.
CommitFails(s) ==
  /\ durable' \in {durable, durable \cup queued[s] \cup flushed[s]}
  /\ queued' = [queued EXCEPT ![s] = {}]
  /\ flushed' = [flushed EXCEPT ![s] = {}]
  /\ transaction' = [transaction EXCEPT ![s] = NoTransaction]

\* A flush in a transaction stops at an entity that is invalid or that the
\* database rejects, with what came before it executed.
FlushFails(s) ==
  /\ queued[s] # {}
  /\ \E executed \in SUBSET queued[s] :
       flushed' = [flushed EXCEPT ![s] = @ \cup executed]
  /\ UNCHANGED <<transaction, queued, durable>>

\* Rolling back undoes what was executed; the session keeps its queue.
Rollback(s) ==
  /\ flushed' = [flushed EXCEPT ![s] = {}]
  /\ transaction' = [transaction EXCEPT ![s] = NoTransaction]
  /\ UNCHANGED <<queued, durable>>

(***************************************************************************)
(* OnActionExecutionAsync up to next().                                    *)
(***************************************************************************)
\* Not the code: BeginTransaction(default), the level the attribute names ignored.
BeginAtDefault(r, policy) ==
  /\ pc[r] = "arrived"
  /\ attribute' = [attribute EXCEPT ![r] = policy]
  /\ IF policy = NoAttribute
       THEN UNCHANGED transaction
       ELSE BeginTransaction(SessionOf(r), "Unspecified")
  /\ pc' = [pc EXCEPT ![r] = "action"]
  /\ UNCHANGED <<modelValid, exception, aborted, fault, queued, flushed, durable>>
  /\ UNCHANGED historyVars

BeginWith(r, policy) ==
  /\ pc[r] = "arrived"
  /\ attribute' = [attribute EXCEPT ![r] = policy]
  /\ IF policy = NoAttribute
       THEN UNCHANGED transaction
       ELSE BeginTransaction(SessionOf(r), policy.isolation)
  /\ pc' = [pc EXCEPT ![r] = "action"]
  /\ UNCHANGED <<modelValid, exception, aborted, fault, queued, flushed, durable>>
  /\ UNCHANGED historyVars

\* The database cannot be reached: BeginTransaction throws, no action runs.
BeginFailsWith(r, policy) ==
  /\ pc[r] = "arrived"
  /\ policy # NoAttribute
  /\ attribute' = [attribute EXCEPT ![r] = policy]
  /\ fault' = [fault EXCEPT ![r] = "begin"]
  /\ pc' = [pc EXCEPT ![r] = "closing"]
  /\ UNCHANGED <<modelValid, exception, aborted>>
  /\ UNCHANGED sessionVars
  /\ UNCHANGED historyVars

\* GetTransactionAttribute, seen from outside, yields the effective policy.
BeginRequest(r) ==
  \E a \in Actions : BeginWith(r, EffectivePolicy(a))

BeginRequestFails(r) ==
  \E a \in Actions : BeginFailsWith(r, EffectivePolicy(a))

(***************************************************************************)
(* The action: application code that uses a repository, the session or the *)
(* transaction manager.                                                    *)
(***************************************************************************)
\* Repository SaveAsync, SaveOrUpdateAsync, UpdateAsync or DeleteAsync of an
\* entity the session does not have to write at once.
Save(r, w) ==
  /\ pc[r] = "action"
  /\ w \in Mine(r) \ (IdentityWrites \cup asked[r])
  /\ queued' = [queued EXCEPT ![SessionOf(r)] = @ \cup {w}]
  /\ asked' = [asked EXCEPT ![r] = @ \cup {w}]
  /\ UNCHANGED requestVars
  /\ UNCHANGED <<transaction, flushed, durable, tookOver>>

\* The same for an entity whose identifier only the insert yields.
SaveIdentity(r, w) ==
  /\ pc[r] = "action"
  /\ w \in (Mine(r) \cap IdentityWrites) \ asked[r]
  /\ IF IsActive(SessionOf(r))
       THEN /\ flushed' = [flushed EXCEPT ![SessionOf(r)] = @ \cup {w}]
            /\ UNCHANGED durable
       ELSE /\ durable' = durable \cup {w}
            /\ UNCHANGED flushed
  /\ asked' = [asked EXCEPT ![r] = @ \cup {w}]
  /\ UNCHANGED requestVars
  /\ UNCHANGED <<transaction, queued, tookOver>>

\* FlushChangesAsync, FlushAndEvict, or a query in a transaction.
Flush(r) ==
  /\ pc[r] = "action"
  /\ IsActive(SessionOf(r))
  /\ flushed' = [flushed EXCEPT ![SessionOf(r)] = @ \cup queued[SessionOf(r)]]
  /\ queued' = [queued EXCEPT ![SessionOf(r)] = {}]
  /\ UNCHANGED requestVars
  /\ UNCHANGED historyVars
  /\ UNCHANGED <<transaction, durable>>

\* Without a transaction each statement of an explicit flush commits itself.
FlushOutside(r) ==
  /\ pc[r] = "action"
  /\ ~IsActive(SessionOf(r))
  /\ durable' = durable \cup queued[SessionOf(r)]
  /\ queued' = [queued EXCEPT ![SessionOf(r)] = {}]
  /\ UNCHANGED requestVars
  /\ UNCHANGED historyVars
  /\ UNCHANGED <<transaction, flushed>>

\* A flush that fails part way; the action may go on or let it propagate.
FlushThrows(r) ==
  /\ pc[r] = "action"
  /\ IF IsActive(SessionOf(r))
       THEN FlushFails(SessionOf(r))
       ELSE /\ \E executed \in SUBSET queued[SessionOf(r)] :
                 durable' = durable \cup executed
            /\ UNCHANGED <<transaction, queued, flushed>>
  /\ UNCHANGED requestVars
  /\ UNCHANGED historyVars

ActionBegins(r, level) ==
  /\ pc[r] = "action"
  /\ BeginTransaction(SessionOf(r), level)
  /\ UNCHANGED requestVars
  /\ UNCHANGED historyVars
  /\ UNCHANGED <<queued, flushed, durable>>

\* CommitTransactionAsync and RollbackTransactionAsync throw, and change
\* nothing, when there is no transaction.
ActionCommits(r) ==
  /\ pc[r] = "action"
  /\ IsActive(SessionOf(r))
  /\ \/ Commit(SessionOf(r))
     \/ CommitFails(SessionOf(r))
  /\ tookOver' = [tookOver EXCEPT ![r] = TRUE]
  /\ UNCHANGED requestVars
  /\ UNCHANGED asked

\* Also the disposal of what BeginTransaction returned.
ActionRollsBack(r) ==
  /\ pc[r] = "action"
  /\ IsActive(SessionOf(r))
  /\ Rollback(SessionOf(r))
  /\ tookOver' = [tookOver EXCEPT ![r] = TRUE]
  /\ UNCHANGED requestVars
  /\ UNCHANGED asked

AddModelError(r) ==
  /\ pc[r] = "action"
  /\ modelValid' = [modelValid EXCEPT ![r] = FALSE]
  /\ UNCHANGED <<pc, attribute, exception, aborted, fault>>
  /\ UNCHANGED sessionVars
  /\ UNCHANGED historyVars

\* next() completes, whether the action returned or threw.
ActionEnds(r) ==
  /\ pc[r] = "action"
  /\ \E e \in Exceptions : exception' = [exception EXCEPT ![r] = e]
  /\ pc' = [pc EXCEPT ![r] = "executed"]
  /\ UNCHANGED <<attribute, modelValid, aborted, fault>>
  /\ UNCHANGED sessionVars
  /\ UNCHANGED historyVars

\* The client goes away.
ClientAborts(r) ==
  /\ pc[r] # "done"
  /\ aborted' = [aborted EXCEPT ![r] = TRUE]
  /\ UNCHANGED <<pc, attribute, modelValid, exception, fault>>
  /\ UNCHANGED sessionVars
  /\ UNCHANGED historyVars

(***************************************************************************)
(* OnActionExecutionAsync after next().                                    *)
(***************************************************************************)
\* The handler has a transaction of its own to look after.
Supervised(r) == attribute[r] # NoAttribute /\ SupportsStatus

\* Not the code: the handler also returns early when the action has thrown.
HandlerLeavesOnException(r) ==
  /\ pc[r] = "executed"
  /\ Supervised(r) /\ IsActive(SessionOf(r)) => exception[r] # "none"
  /\ pc' = [pc EXCEPT ![r] = "closing"]
  /\ UNCHANGED <<attribute, modelValid, exception, aborted, fault>>
  /\ UNCHANGED sessionVars
  /\ UNCHANGED historyVars

\* Nothing was begun, the manager cannot tell, or the action has already
\* closed the transaction.
HandlerLeaves(r) ==
  /\ pc[r] = "executed"
  /\ ~(Supervised(r) /\ IsActive(SessionOf(r)))
  /\ pc' = [pc EXCEPT ![r] = "closing"]
  /\ UNCHANGED <<attribute, modelValid, exception, aborted, fault>>
  /\ UNCHANGED sessionVars
  /\ UNCHANGED historyVars

\* The rollback takes no cancellation token; the database may still fail it.
HandlerRollsBack(r) ==
  /\ pc[r] = "executed"
  /\ Supervised(r)
  /\ IsActive(SessionOf(r))
  /\ MustRollBack(attribute[r], exception[r], modelValid[r])
  /\ Rollback(SessionOf(r))
  /\ \E f \in {"none", "rollback"} : fault' = [fault EXCEPT ![r] = f]
  /\ pc' = [pc EXCEPT ![r] = "closing"]
  /\ UNCHANGED <<attribute, modelValid, exception, aborted>>
  /\ UNCHANGED historyVars

\* Not the code: the commit takes no cancellation token.
HandlerCommitsRegardless(r) ==
  /\ pc[r] = "executed"
  /\ Supervised(r)
  /\ IsActive(SessionOf(r))
  /\ ~MustRollBack(attribute[r], exception[r], modelValid[r])
  /\ Commit(SessionOf(r))
  /\ pc' = [pc EXCEPT ![r] = "closing"]
  /\ UNCHANGED <<attribute, modelValid, exception, aborted, fault>>
  /\ UNCHANGED historyVars

\* CommitTransactionAsync(RequestAborted): a token that is already cancelled
\* stops it before anything happens.
HandlerCommits(r) ==
  /\ pc[r] = "executed"
  /\ Supervised(r)
  /\ IsActive(SessionOf(r))
  /\ ~MustRollBack(attribute[r], exception[r], modelValid[r])
  /\ \/ /\ aborted[r]
        /\ fault' = [fault EXCEPT ![r] = "cancelled"]
        /\ UNCHANGED sessionVars
     \/ /\ ~aborted[r]
        /\ fault' = [fault EXCEPT ![r] = "flush"]
        /\ FlushFails(SessionOf(r))
     \/ /\ ~aborted[r]
        /\ fault' = [fault EXCEPT ![r] = "commit"]
        /\ CommitFails(SessionOf(r))
     \/ /\ ~aborted[r]
        /\ UNCHANGED fault
        /\ Commit(SessionOf(r))
  /\ pc' = [pc EXCEPT ![r] = "closing"]
  /\ UNCHANGED <<attribute, modelValid, exception, aborted>>
  /\ UNCHANGED historyVars

(***************************************************************************)
(* The end of the request: its service scope disposes the session, which   *)
(* rolls back a transaction that is still open.                            *)
(***************************************************************************)
DisposeScope(r) ==
  /\ pc[r] = "closing"
  /\ transaction' = [transaction EXCEPT ![r] = NoTransaction]
  /\ queued' = [queued EXCEPT ![r] = {}]
  /\ flushed' = [flushed EXCEPT ![r] = {}]
  /\ pc' = [pc EXCEPT ![r] = "done"]
  /\ UNCHANGED <<attribute, modelValid, exception, aborted, fault, durable>>
  /\ UNCHANGED historyVars

ActionStep(r) ==
  \/ \E w \in Writes : Save(r, w)
  \/ \E w \in Writes : SaveIdentity(r, w)
  \/ Flush(r)
  \/ FlushOutside(r)
  \/ FlushThrows(r)
  \/ \E level \in Levels : ActionBegins(r, level)
  \/ ActionCommits(r)
  \/ ActionRollsBack(r)
  \/ AddModelError(r)

HandlerStep(r) ==
  \/ BeginRequest(r)
  \/ BeginRequestFails(r)
  \/ HandlerLeaves(r)
  \/ HandlerRollsBack(r)
  \/ HandlerCommits(r)

RequestStep(r) ==
  \/ HandlerStep(r)
  \/ ActionStep(r)
  \/ ActionEnds(r)
  \/ ClientAborts(r)
  \/ DisposeScope(r)

Next == \E r \in Requests : RequestStep(r)

\* The server keeps running the pipeline; an action that runs comes to an end.
Fairness ==
  \A r \in Requests :
    /\ WF_vars(HandlerStep(r))
    /\ WF_vars(ActionEnds(r))
    /\ WF_vars(DisposeScope(r))

Spec == Init /\ [][Next]_vars
FairSpec == Spec /\ Fairness

(***************************************************************************)
(* What must hold.                                                         *)
(***************************************************************************)
Finished(r) == pc[r] \in {"closing", "done"}

\* The handler began the transaction and the action left it alone.
HandlerOwns(r) == attribute[r] # NoAttribute /\ ~tookOver[r]

\* The action threw, or left an invalid model behind that its attribute forbids.
ActionFailed(r) ==
  \/ exception[r] # "none"
  \/ ~modelValid[r] /\ attribute[r].rollbackOnInvalid

\* A request that failed in the handler's transaction, by an exception, an
\* invalid model or a commit that did not reach the database, leaves no trace
\* in it, whatever the action flushed on the way (AutoTransactionHandler's
\* rollback branch and the disposal of the session).
FailureLeavesNothing ==
  \A r \in Requests :
    /\ Finished(r)
    /\ HandlerOwns(r)
    /\ ActionFailed(r) \/ fault[r] \in {"begin", "cancelled", "flush", "rollback"}
    => durable \cap Mine(r) = {}

\* A request that the handler committed without an error has stored everything
\* its action asked for: nothing stays behind in the session's queue
\* (AutoTransactionHandler's commit branch).
SuccessKeepsEverything ==
  \A r \in Requests :
    /\ Finished(r)
    /\ HandlerOwns(r)
    /\ Supervised(r)
    /\ ~ActionFailed(r)
    /\ fault[r] = "none"
    => asked[r] \subseteq durable

\* When the result executes no transaction of an attributed action is open,
\* and none outlives its request, not even when the action closed the
\* handler's transaction and began another (the handler's IsActive test).
NoStrayTransaction ==
  \A r \in Requests :
    /\ (pc[r] = "closing" /\ Supervised(r) /\ fault[r] = "none")
         => ~IsActive(SessionOf(r))
    /\ pc[r] = "done" => ~IsActive(SessionOf(r))

\* The handler's transaction runs at the isolation level of the attribute,
\* whatever level the action asks of BeginTransaction.
IsolationKept ==
  \A r \in Requests :
    (HandlerOwns(r) /\ IsActive(SessionOf(r)))
      => transaction[SessionOf(r)] = attribute[r].isolation

\* The handler stores nothing for a client that has gone before the commit
\* began (RequestAborted is passed to CommitTransactionAsync).
AbortedStoresNothing ==
  [][\A r \in Requests :
       (aborted[r] /\ pc[r] = "executed" /\ pc'[r] = "closing")
         => durable' = durable]_vars

\* Inside a transaction the writes of a request, those the session queues and
\* those it executes at once, become durable together or not at all, and no
\* request stores or undoes a write of another: the session under this handler
\* is a unit of work.
UoW == INSTANCE UnitOfWork WITH
         inUnit <- [r \in Requests |-> IsActive(SessionOf(r))],
         pending <- [r \in Requests |-> queued[SessionOf(r)] \cup flushed[SessionOf(r)]],
         closed <- [r \in Requests |-> pc[r] = "done"]

IsUnitOfWork == UoW!Spec

\* Every request that arrives ends with its transaction closed, also when
\* the action meddles with it (the early return of the handler).
EveryRequestEnds ==
  \A r \in Requests :
    pc[r] = "arrived" ~> (pc[r] = "done" /\ ~IsActive(SessionOf(r)))

\* What the remarks of TransactionAttribute say of exceptions: the transaction
\* is committed unless one was unhandled.
HandledExceptionCommits ==
  \A r \in Requests :
    /\ Finished(r)
    /\ HandlerOwns(r)
    /\ exception[r] = "handled"
    /\ modelValid[r]
    /\ fault[r] = "none"
    => asked[r] \subseteq durable

\* What the summary of TransactionAttribute says: the transaction is either
\* committed or rolled back once the action has been executed.
ClosedAfterAction ==
  \A r \in Requests :
    (pc[r] = "closing" /\ attribute[r] # NoAttribute /\ fault[r] = "none")
      => ~IsActive(SessionOf(r))

=============================================================================
