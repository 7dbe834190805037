-------------------- MODULE NHibernateUnitOfWork_proofs ---------------------
(***************************************************************************)
(* Type correctness and the safety of the NHibernate unit of work, for any *)
(* number of requests, writes, actions and isolation levels.               *)
(***************************************************************************)
EXTENDS NHibernateUnitOfWork, TransactionPolicy_proofs

\* The variables keep their types: in particular the handler only ever begins
\* a transaction at a level that some attribute names.
THEOREM TypeCorrect == Spec => []TypeOK
<1>1. Init => TypeOK
  BY UnitOfWorkAssumption DEF Init, TypeOK, Phases, Faults, Exceptions
<1>2. TypeOK /\ [Next]_vars => TypeOK'
  <2> USE UnitOfWorkAssumption DEF TypeOK, ServiceScopes, SessionOf, Phases, Faults,
                                  Exceptions, requestVars, sessionVars, historyVars
  <2> SUFFICES ASSUME TypeOK, [Next]_vars PROVE TypeOK'
    OBVIOUS
  <2>1. CASE UNCHANGED vars
    BY <2>1 DEF vars
  <2>2. ASSUME NEW r \in Requests, BeginRequest(r) PROVE TypeOK'
    <3> PICK a \in Actions :
          /\ attribute' = [attribute EXCEPT ![r] = EffectivePolicy(a)]
          /\ IF EffectivePolicy(a) = NoAttribute
               THEN UNCHANGED transaction
               ELSE BeginTransaction(r, EffectivePolicy(a).isolation)
      BY <2>2 DEF BeginRequest, BeginWith
    <3>1. EffectivePolicy(a) \in Attributes \cup {NoAttribute}
      BY EffectivePolicyType
    <3>2. transaction' \in [ServiceScopes -> Levels \cup {NoTransaction}]
      BY <3>1 DEF BeginTransaction, IsActive, Attributes
    <3> QED BY <2>2, <3>1, <3>2 DEF BeginRequest, BeginWith
  <2>3. ASSUME NEW r \in Requests, BeginRequestFails(r) PROVE TypeOK'
    BY <2>3, EffectivePolicyType DEF BeginRequestFails, BeginFailsWith
  <2>4. ASSUME NEW r \in Requests, ActionStep(r) PROVE TypeOK'
    <3>1. ASSUME NEW w \in Writes, Save(r, w) PROVE TypeOK'
      BY <3>1 DEF Save
    <3>2. ASSUME NEW w \in Writes, SaveIdentity(r, w) PROVE TypeOK'
      BY <3>2 DEF SaveIdentity
    <3>3. ASSUME Flush(r) PROVE TypeOK'
      BY <3>3 DEF Flush
    <3>4. ASSUME FlushOutside(r) PROVE TypeOK'
      BY <3>4 DEF FlushOutside
    <3>5. ASSUME FlushThrows(r) PROVE TypeOK'
      BY <3>5 DEF FlushThrows, FlushFails
    <3>6. ASSUME NEW level \in Levels, ActionBegins(r, level) PROVE TypeOK'
      BY <3>6 DEF ActionBegins, BeginTransaction
    <3>7. ASSUME ActionCommits(r) PROVE TypeOK'
      BY <3>7 DEF ActionCommits, Commit, CommitFails
    <3>8. ASSUME ActionRollsBack(r) PROVE TypeOK'
      BY <3>8 DEF ActionRollsBack, Rollback
    <3>9. ASSUME AddModelError(r) PROVE TypeOK'
      BY <3>9 DEF AddModelError
    <3> QED BY <2>4, <3>1, <3>2, <3>3, <3>4, <3>5, <3>6, <3>7, <3>8, <3>9 DEF ActionStep
  <2>5. ASSUME NEW r \in Requests, ActionEnds(r) PROVE TypeOK'
    BY <2>5 DEF ActionEnds
  <2>6. ASSUME NEW r \in Requests, ClientAborts(r) PROVE TypeOK'
    BY <2>6 DEF ClientAborts
  <2>7. ASSUME NEW r \in Requests, HandlerLeaves(r) PROVE TypeOK'
    BY <2>7 DEF HandlerLeaves
  <2>8. ASSUME NEW r \in Requests, HandlerRollsBack(r) PROVE TypeOK'
    BY <2>8 DEF HandlerRollsBack, Rollback
  <2>9. ASSUME NEW r \in Requests, HandlerCommits(r) PROVE TypeOK'
    <3>1. /\ pc' = [pc EXCEPT ![r] = "closing"]
          /\ UNCHANGED <<attribute, modelValid, exception, aborted, asked, tookOver>>
      BY <2>9 DEF HandlerCommits
    <3>2. fault' \in [Requests -> Faults]
      BY <2>9 DEF HandlerCommits
    <3>3. CASE UNCHANGED sessionVars
      BY <3>1, <3>2, <3>3
    <3>4. CASE FlushFails(SessionOf(r))
      <4>1. flushed' \in [ServiceScopes -> SUBSET Writes]
        BY <3>4 DEF FlushFails
      <4> QED BY <3>1, <3>2, <3>4, <4>1 DEF FlushFails
    <3>5. CASE CommitFails(SessionOf(r)) \/ Commit(SessionOf(r))
      <4>1. /\ transaction' = [transaction EXCEPT ![r] = NoTransaction]
            /\ queued' = [queued EXCEPT ![r] = {}]
            /\ flushed' = [flushed EXCEPT ![r] = {}]
        BY <3>5 DEF CommitFails, Commit
      <4>2. durable' \in SUBSET Writes
        BY <3>5 DEF CommitFails, Commit
      <4> QED BY <3>1, <3>2, <4>1, <4>2
    <3> QED BY <2>9, <3>3, <3>4, <3>5 DEF HandlerCommits
  <2>10. ASSUME NEW r \in Requests, DisposeScope(r) PROVE TypeOK'
    BY <2>10 DEF DisposeScope
  <2> QED
    BY <2>1, <2>2, <2>3, <2>4, <2>5, <2>6, <2>7, <2>8, <2>9, <2>10 DEF Next, RequestStep, HandlerStep
<1> QED BY <1>1, <1>2, PTL DEF Spec

(***************************************************************************)
(* The inductive invariant.  What a request promises when it is over rests *)
(* on what holds while its action runs: as long as the action leaves the   *)
(* handler's transaction alone, that transaction is open, nothing of the   *)
(* request is durable yet, and everything asked for is in the session.     *)
(***************************************************************************)
RequestInv(r) ==
  /\ pc[r] = "arrived" =>
       /\ attribute[r] = NoAttribute
       /\ ~IsActive(r)
       /\ asked[r] = {}
       /\ durable \cap Mine(r) = {}
  /\ pc[r] \in {"arrived", "action", "executed"} => fault[r] = "none"
  /\ (pc[r] \in {"action", "executed"} /\ HandlerOwns(r)) =>
       /\ IsActive(r)
       /\ asked[r] \subseteq queued[r] \cup flushed[r]
       /\ durable \cap Mine(r) = {}
  /\ (Finished(r) /\ HandlerOwns(r)) =>
       /\ ActionFailed(r) \/ fault[r] \in {"begin", "cancelled", "flush", "rollback"}
            => durable \cap Mine(r) = {}
       /\ ~ActionFailed(r) /\ fault[r] = "none" /\ SupportsStatus
            => asked[r] \subseteq durable
  /\ (pc[r] = "closing" /\ Supervised(r) /\ fault[r] = "none") => ~IsActive(r)
  /\ pc[r] = "done" => ~IsActive(r)
  /\ (HandlerOwns(r) /\ IsActive(r)) => transaction[r] = attribute[r].isolation

\* A session only ever holds writes of its own request.
ScopesAreIsolated ==
  \A s \in ServiceScopes :
    \A w \in queued[s] \cup flushed[s] : Owner[w] = s

IInv ==
  /\ TypeOK
  /\ ScopesAreIsolated
  /\ \A r \in Requests : RequestInv(r)

\* What a step of request r leaves alone: everything of the other requests,
\* their sessions, and their writes in the database.
OnlyOwn(r) ==
  /\ \A q \in Requests \ {r} :
       /\ pc'[q] = pc[q]
       /\ attribute'[q] = attribute[q]
       /\ modelValid'[q] = modelValid[q]
       /\ exception'[q] = exception[q]
       /\ fault'[q] = fault[q]
       /\ asked'[q] = asked[q]
       /\ tookOver'[q] = tookOver[q]
  /\ \A s \in ServiceScopes \ {r} :
       /\ transaction'[s] = transaction[s]
       /\ queued'[s] = queued[s]
       /\ flushed'[s] = flushed[s]
  /\ durable \subseteq durable'
  /\ durable' \subseteq durable \cup Mine(r)

(***************************************************************************)
(* A step of one request is local to it.                                   *)
(***************************************************************************)
LEMMA Locality ==
  ASSUME TypeOK, ScopesAreIsolated, NEW r \in Requests, RequestStep(r)
  PROVE  OnlyOwn(r) /\ ScopesAreIsolated'
<1> USE UnitOfWorkAssumption DEF ServiceScopes, SessionOf, requestVars, sessionVars, historyVars
<1> DEFINE Work(s) == queued[s] \cup flushed[s]
<1>1. /\ r \in ServiceScopes
      /\ Work(r) \subseteq Mine(r)
      /\ \A s \in ServiceScopes \ {r} : \A w \in Work(s) : Owner[w] = s
      /\ \A w \in Writes : w \in Mine(r) <=> Owner[w] = r
  BY DEF TypeOK, ScopesAreIsolated, Mine
\* It is enough to see that the step writes only at r.
<1> DEFINE
      AtR(f, g) == DOMAIN g = DOMAIN f /\ \A q \in DOMAIN f \ {r} : g[q] = f[q]
      Local ==
        /\ AtR(pc, pc') /\ AtR(attribute, attribute') /\ AtR(modelValid, modelValid')
        /\ AtR(exception, exception') /\ AtR(fault, fault')
        /\ AtR(asked, asked') /\ AtR(tookOver, tookOver')
      LocalSession ==
        /\ AtR(transaction, transaction') /\ AtR(queued, queued') /\ AtR(flushed, flushed')
        /\ queued'[r] \cup flushed'[r] \subseteq Mine(r)
        /\ durable \subseteq durable' /\ durable' \subseteq durable \cup Mine(r)
<1>2. Local /\ LocalSession => OnlyOwn(r) /\ ScopesAreIsolated'
  <2> SUFFICES ASSUME Local, LocalSession PROVE OnlyOwn(r) /\ ScopesAreIsolated'
    OBVIOUS
  <2>1. OnlyOwn(r)
    BY DEF OnlyOwn, TypeOK
  <2>2. ScopesAreIsolated'
    BY <1>1, <2>1 DEF ScopesAreIsolated, OnlyOwn, Mine
  <2> QED BY <2>1, <2>2
<1>3. UNCHANGED sessionVars => LocalSession
  BY <1>1
<1>4. Commit(r) \/ CommitFails(r) => LocalSession
  BY <1>1 DEF Commit, CommitFails, TypeOK
<1>5. FlushFails(r) => LocalSession
  <2> SUFFICES ASSUME FlushFails(r) PROVE LocalSession
    OBVIOUS
  <2> PICK executed \in SUBSET queued[r] :
        flushed' = [flushed EXCEPT ![r] = @ \cup executed]
    BY DEF FlushFails
  <2> QED BY <1>1 DEF FlushFails, TypeOK
<1>6. Rollback(r) => LocalSession
  BY <1>1 DEF Rollback, TypeOK
<1>7. CASE HandlerStep(r)
  <2>1. CASE BeginRequest(r)
    <3>1. Local
      BY <2>1 DEF BeginRequest, BeginWith, TypeOK
    <3>2. LocalSession
      BY <1>1, <2>1 DEF BeginRequest, BeginWith, BeginTransaction, TypeOK
    <3> QED BY <1>2, <3>1, <3>2
  <2>2. CASE BeginRequestFails(r)
    BY <1>2, <1>3, <2>2 DEF BeginRequestFails, BeginFailsWith, TypeOK
  <2>3. CASE HandlerLeaves(r)
    BY <1>2, <1>3, <2>3 DEF HandlerLeaves, TypeOK
  <2>4. CASE HandlerRollsBack(r)
    BY <1>2, <1>6, <2>4 DEF HandlerRollsBack, TypeOK
  <2>5. CASE HandlerCommits(r)
    BY <1>2, <1>3, <1>4, <1>5, <2>5 DEF HandlerCommits, TypeOK
  <2> QED BY <1>7, <2>1, <2>2, <2>3, <2>4, <2>5 DEF HandlerStep
<1>8. CASE ActionStep(r)
  <2>1. ASSUME NEW w \in Writes, Save(r, w) PROVE Local /\ LocalSession
    BY <1>1, <2>1 DEF Save, TypeOK
  <2>2. ASSUME NEW w \in Writes, SaveIdentity(r, w) PROVE Local /\ LocalSession
    BY <1>1, <2>2 DEF SaveIdentity, TypeOK
  <2>3. ASSUME Flush(r) \/ FlushOutside(r) PROVE Local /\ LocalSession
    BY <1>1, <2>3 DEF Flush, FlushOutside, TypeOK
  <2>4. ASSUME FlushThrows(r) PROVE Local /\ LocalSession
    BY <1>1, <1>5, <2>4 DEF FlushThrows, TypeOK
  <2>5. ASSUME NEW level \in Levels, ActionBegins(r, level) PROVE Local /\ LocalSession
    BY <1>1, <2>5 DEF ActionBegins, BeginTransaction, TypeOK
  <2>6. ASSUME ActionCommits(r) PROVE Local /\ LocalSession
    BY <1>4, <2>6 DEF ActionCommits, TypeOK
  <2>7. ASSUME ActionRollsBack(r) PROVE Local /\ LocalSession
    BY <1>6, <2>7 DEF ActionRollsBack, TypeOK
  <2>8. ASSUME AddModelError(r) PROVE Local /\ LocalSession
    BY <1>3, <2>8 DEF AddModelError, TypeOK
  <2> QED BY <1>2, <1>8, <2>1, <2>2, <2>3, <2>4, <2>5, <2>6, <2>7, <2>8 DEF ActionStep
<1>9. CASE ActionEnds(r)
  BY <1>2, <1>3, <1>9 DEF ActionEnds, TypeOK
<1>10. CASE ClientAborts(r)
  BY <1>2, <1>3, <1>10 DEF ClientAborts, TypeOK
<1>11. CASE DisposeScope(r)
  <2>1. Local
    BY <1>11 DEF DisposeScope, TypeOK
  <2>2. LocalSession
    BY <1>1, <1>11 DEF DisposeScope, TypeOK
  <2> QED BY <1>2, <2>1, <2>2
<1> QED BY <1>7, <1>8, <1>9, <1>10, <1>11 DEF RequestStep

\* What a request was promised survives every step of the others.
LEMMA OthersUntouched ==
  ASSUME TypeOK, TypeOK', NEW r \in Requests, OnlyOwn(r),
         NEW q \in Requests \ {r}, RequestInv(q)
  PROVE  RequestInv(q)'
<1>1. /\ pc'[q] = pc[q] /\ attribute'[q] = attribute[q] /\ modelValid'[q] = modelValid[q]
      /\ exception'[q] = exception[q] /\ fault'[q] = fault[q]
      /\ asked'[q] = asked[q] /\ tookOver'[q] = tookOver[q]
      /\ transaction'[q] = transaction[q]
      /\ queued'[q] = queued[q] /\ flushed'[q] = flushed[q]
  BY UnitOfWorkAssumption DEF OnlyOwn, ServiceScopes
<1>2. durable' \cap Mine(q) = durable \cap Mine(q)
  BY DEF OnlyOwn, Mine
<1>3. durable \subseteq durable'
  BY DEF OnlyOwn
<1> QED
  BY <1>1, <1>2, <1>3 DEF RequestInv, IsActive, HandlerOwns, Finished, ActionFailed, Supervised

\* A step of the handler keeps what its own request was promised.
LEMMA HandlerKeepsInv ==
  ASSUME TypeOK, TypeOK', NEW r \in Requests, OnlyOwn(r),
         ScopesAreIsolated, RequestInv(r), HandlerStep(r)
  PROVE  RequestInv(r)'
<1> USE UnitOfWorkAssumption DEF SessionOf, ServiceScopes, sessionVars, historyVars
<1>1. r \in ServiceScopes
  OBVIOUS
<1>2. CASE BeginRequest(r)
  <2> PICK a \in Actions :
        /\ attribute' = [attribute EXCEPT ![r] = EffectivePolicy(a)]
        /\ IF EffectivePolicy(a) = NoAttribute
             THEN UNCHANGED transaction
             ELSE BeginTransaction(r, EffectivePolicy(a).isolation)
    BY <1>2 DEF BeginRequest, BeginWith
  <2>1. EffectivePolicy(a) \in Attributes \cup {NoAttribute}
    BY EffectivePolicyType
  <2>2. attribute'[r] # NoAttribute =>
          /\ transaction'[r] = attribute'[r].isolation
          /\ attribute'[r].isolation \in Levels
    BY <1>2, <2>1 DEF BeginRequest, BeginWith, BeginTransaction, RequestInv, TypeOK, Attributes
  <2>3. /\ pc[r] = "arrived" /\ pc'[r] = "action"
        /\ fault' = fault /\ asked' = asked /\ durable' = durable
    BY <1>2 DEF BeginRequest, BeginWith, TypeOK
  <2> QED BY <2>2, <2>3 DEF RequestInv, IsActive, HandlerOwns, Finished, Supervised
<1>3. CASE BeginRequestFails(r)
  <2>1. /\ pc[r] = "arrived" /\ pc'[r] = "closing" /\ fault'[r] = "begin"
        /\ transaction' = transaction /\ durable' = durable
    BY <1>3 DEF BeginRequestFails, BeginFailsWith, TypeOK
  <2> QED BY <2>1 DEF RequestInv, IsActive, HandlerOwns, Finished, Supervised
<1>4. CASE HandlerLeaves(r)
  <2>1. /\ pc[r] = "executed" /\ pc'[r] = "closing"
        /\ ~(Supervised(r) /\ IsActive(r))
        /\ UNCHANGED <<attribute, modelValid, exception, fault>>
        /\ UNCHANGED <<transaction, queued, flushed, durable, asked, tookOver>>
    BY <1>4 DEF HandlerLeaves, TypeOK
  <2> QED BY <2>1 DEF RequestInv, IsActive, HandlerOwns, Finished, ActionFailed, Supervised
<1>5. CASE HandlerRollsBack(r)
  <2>1. /\ pc[r] = "executed" /\ pc'[r] = "closing"
        /\ transaction'[r] = NoTransaction
        /\ durable' = durable
        /\ UNCHANGED <<attribute, modelValid, exception, asked, tookOver>>
    BY <1>5 DEF HandlerRollsBack, Rollback, TypeOK
  <2>2. ActionFailed(r)
    BY <1>5 DEF HandlerRollsBack, MustRollBack, ActionFailed
  <2> QED BY <2>1, <2>2 DEF RequestInv, IsActive, HandlerOwns, Finished, ActionFailed, Supervised
<1>6. CASE HandlerCommits(r)
  <2>1. /\ pc[r] = "executed" /\ pc'[r] = "closing" /\ fault[r] = "none"
        /\ UNCHANGED <<attribute, modelValid, exception, asked, tookOver>>
        /\ IsActive(r)
    BY <1>6 DEF HandlerCommits, TypeOK, RequestInv
  <2>2. ~ActionFailed(r)
    BY <1>6 DEF HandlerCommits, MustRollBack, ActionFailed
  <2>3. CASE durable' = durable /\ transaction' = transaction /\ fault'[r] \in {"cancelled", "flush"}
    BY <2>1, <2>2, <2>3 DEF RequestInv, IsActive, HandlerOwns, Finished, ActionFailed, Supervised
  <2>4. CASE fault'[r] = "commit" /\ CommitFails(r)
    <3>1. transaction'[r] = NoTransaction
      BY <2>4 DEF CommitFails, TypeOK
    <3> QED
      BY <2>1, <2>2, <2>4, <3>1
         DEF RequestInv, IsActive, HandlerOwns, Finished, ActionFailed, Supervised
  <2>5. CASE fault'[r] = "none" /\ Commit(r)
    <3>1. /\ transaction'[r] = NoTransaction
          /\ queued[r] \cup flushed[r] \subseteq durable'
      BY <2>5 DEF Commit, TypeOK
    <3> QED
      BY <2>1, <2>2, <2>5, <3>1
         DEF RequestInv, IsActive, HandlerOwns, Finished, ActionFailed, Supervised
  <2> QED BY <1>6, <2>1, <2>3, <2>4, <2>5 DEF HandlerCommits, FlushFails, TypeOK
<1> QED BY <1>2, <1>3, <1>4, <1>5, <1>6 DEF HandlerStep

\* So does a step of the action: while the handler's transaction is the open
\* one, what the action writes stays in the session, and an action that ends
\* the transaction itself has taken over.
LEMMA ActionKeepsInv ==
  ASSUME TypeOK, TypeOK', NEW r \in Requests, OnlyOwn(r),
         ScopesAreIsolated, RequestInv(r), ActionStep(r)
  PROVE  RequestInv(r)'
<1> USE UnitOfWorkAssumption DEF SessionOf, ServiceScopes, requestVars, sessionVars, historyVars
<1>1. /\ r \in ServiceScopes
      /\ pc[r] = "action" /\ pc' = pc
      /\ UNCHANGED <<attribute, exception, fault>>
  BY DEF ActionStep, Save, SaveIdentity, Flush, FlushOutside, FlushThrows, ActionBegins,
         ActionCommits, ActionRollsBack, AddModelError
\* It is enough to keep the two conjuncts that speak of a running action.
<1> DEFINE Running ==
        HandlerOwns(r) =>
          /\ IsActive(r)
          /\ asked[r] \subseteq queued[r] \cup flushed[r]
          /\ durable \cap Mine(r) = {}
          /\ transaction[r] = attribute[r].isolation
<1>2. Running
  BY <1>1 DEF RequestInv
<1>3. Running' => RequestInv(r)'
  BY <1>1 DEF RequestInv, Finished, IsActive, HandlerOwns
<1>4. ASSUME NEW w \in Writes, Save(r, w) PROVE Running'
  BY <1>2, <1>4 DEF Save, TypeOK, HandlerOwns, IsActive
<1>5. ASSUME NEW w \in Writes, SaveIdentity(r, w) PROVE Running'
  BY <1>2, <1>5 DEF SaveIdentity, TypeOK, HandlerOwns, IsActive
<1>6. ASSUME Flush(r) \/ FlushOutside(r) PROVE Running'
  BY <1>2, <1>6 DEF Flush, FlushOutside, TypeOK, HandlerOwns, IsActive
<1>7. ASSUME FlushThrows(r) PROVE Running'
  <2>1. CASE IsActive(r)
    <3>1. flushed[r] \subseteq flushed'[r]
      BY <1>7, <2>1 DEF FlushThrows, FlushFails, TypeOK
    <3> QED
      BY <1>2, <1>7, <2>1, <3>1 DEF FlushThrows, FlushFails, HandlerOwns, IsActive
  <2>2. CASE ~IsActive(r)
    BY <1>2, <1>7, <2>2 DEF FlushThrows, HandlerOwns, IsActive
  <2> QED BY <2>1, <2>2
<1>8. ASSUME NEW level \in Levels, ActionBegins(r, level) PROVE Running'
  BY <1>2, <1>8 DEF ActionBegins, BeginTransaction, TypeOK, HandlerOwns, IsActive
<1>9. ASSUME ActionCommits(r) \/ ActionRollsBack(r) PROVE Running'
  BY <1>9 DEF ActionCommits, ActionRollsBack, TypeOK, HandlerOwns
<1>10. ASSUME AddModelError(r) PROVE Running'
  BY <1>2, <1>10 DEF AddModelError, HandlerOwns, IsActive
<1> QED BY <1>3, <1>4, <1>5, <1>6, <1>7, <1>8, <1>9, <1>10 DEF ActionStep

\* Every step keeps the inductive invariant.
LEMMA Inductive == IInv /\ TypeOK' /\ [Next]_vars => IInv'
<1> SUFFICES ASSUME IInv, TypeOK', [Next]_vars PROVE IInv'
  OBVIOUS
<1> USE DEF IInv
<1>1. CASE UNCHANGED vars
  BY <1>1 DEF vars, ScopesAreIsolated, RequestInv, IsActive, HandlerOwns, Finished,
              ActionFailed, Supervised
<1>2. ASSUME NEW r \in Requests, RequestStep(r) PROVE IInv'
  <2>1. OnlyOwn(r) /\ ScopesAreIsolated'
    BY <1>2, Locality
  <2>2. RequestInv(r)'
    <3>1. CASE HandlerStep(r)
      BY <2>1, <3>1, HandlerKeepsInv
    <3>2. CASE ActionStep(r)
      BY <2>1, <3>2, ActionKeepsInv
    <3>3. CASE ActionEnds(r)
      <4>1. /\ pc[r] = "action" /\ pc'[r] = "executed"
            /\ UNCHANGED <<attribute, modelValid, fault, transaction, queued, flushed,
                           durable, asked, tookOver>>
        BY <3>3 DEF ActionEnds, TypeOK, sessionVars, historyVars
      <4> QED BY <4>1 DEF RequestInv, IsActive, HandlerOwns, Finished, Supervised
    <3>4. CASE ClientAborts(r)
      BY <3>4 DEF ClientAborts, sessionVars, historyVars, RequestInv, IsActive,
                  HandlerOwns, Finished, ActionFailed, Supervised
    <3>5. CASE DisposeScope(r)
      <4>1. /\ pc[r] = "closing" /\ pc'[r] = "done"
            /\ transaction'[r] = NoTransaction
            /\ UNCHANGED <<attribute, modelValid, exception, fault, durable, asked, tookOver>>
        BY <3>5 DEF DisposeScope, TypeOK, historyVars, ServiceScopes
      <4> QED BY <4>1 DEF RequestInv, IsActive, HandlerOwns, Finished, ActionFailed, Supervised
    <3> QED BY <1>2, <3>1, <3>2, <3>3, <3>4, <3>5 DEF RequestStep
  <2>3. ASSUME NEW q \in Requests \ {r} PROVE RequestInv(q)'
    BY <2>1, OthersUntouched
  <2> QED BY <2>1, <2>2, <2>3
<1> QED BY <1>1, <1>2 DEF Next

THEOREM InvariantHolds == Spec => []IInv
<1>1. Init => IInv
  <2> SUFFICES ASSUME Init PROVE IInv
    OBVIOUS
  <2>1. TypeOK
    BY UnitOfWorkAssumption DEF Init, TypeOK, Phases, Faults, Exceptions
  <2>2. ScopesAreIsolated
    BY DEF Init, ScopesAreIsolated
  <2>3. ASSUME NEW r \in Requests PROVE RequestInv(r)
    BY DEF Init, RequestInv, IsActive, HandlerOwns, Finished, ServiceScopes, Supervised
  <2> QED BY <2>1, <2>2, <2>3 DEF IInv
<1>2. IInv /\ TypeOK' /\ [Next]_vars => IInv'
  BY Inductive
<1> QED BY <1>1, <1>2, TypeCorrect, PTL DEF Spec

\* A failed request leaves nothing in the database: for every number of
\* concurrent requests, every set of writes and every attribute.
THEOREM FailureIsSafe == Spec => []FailureLeavesNothing
<1>1. IInv => FailureLeavesNothing
  BY DEF IInv, RequestInv, FailureLeavesNothing
<1> QED BY <1>1, InvariantHolds, PTL

\* A request that the handler committed has lost nothing.
THEOREM SuccessIsSafe == Spec => []SuccessKeepsEverything
<1>1. IInv => SuccessKeepsEverything
  BY DEF IInv, RequestInv, SuccessKeepsEverything, Supervised
<1> QED BY <1>1, InvariantHolds, PTL

\* No transaction is left open behind the handler, or by a request.
THEOREM TransactionsEnd == Spec => []NoStrayTransaction
<1>1. IInv => NoStrayTransaction
  BY DEF IInv, RequestInv, NoStrayTransaction, SessionOf
<1> QED BY <1>1, InvariantHolds, PTL

\* The handler's transaction has the isolation level of the attribute.
THEOREM IsolationHolds == Spec => []IsolationKept
<1>1. IInv => IsolationKept
  BY DEF IInv, RequestInv, IsolationKept, SessionOf
<1> QED BY <1>1, InvariantHolds, PTL

\* The handler stores nothing for a client that has gone.
THEOREM AbortIsSafe == Spec => AbortedStoresNothing
<1>1. TypeOK /\ [Next]_vars =>
        [\A r \in Requests :
           (aborted[r] /\ pc[r] = "executed" /\ pc'[r] = "closing") => durable' = durable]_vars
  <2> SUFFICES ASSUME TypeOK, Next, NEW r \in Requests,
                      aborted[r], pc[r] = "executed", pc'[r] = "closing"
               PROVE  durable' = durable
    OBVIOUS
  <2> PICK q \in Requests : RequestStep(q)
    BY DEF Next
  <2>1. CASE q = r
    <3>1. ~ActionStep(r) /\ ~ActionEnds(r) /\ ~DisposeScope(r)
      BY DEF ActionStep, Save, SaveIdentity, Flush, FlushOutside, FlushThrows, ActionBegins,
             ActionCommits, ActionRollsBack, AddModelError, ActionEnds, DisposeScope
    <3>2. CASE HandlerStep(r)
      BY <3>2 DEF HandlerStep, BeginRequest, BeginWith, BeginRequestFails, BeginFailsWith, HandlerLeaves,
                  HandlerRollsBack, HandlerCommits, Rollback, sessionVars
    <3>3. CASE ClientAborts(r)
      BY <3>3 DEF ClientAborts, sessionVars
    <3> QED BY <2>1, <3>1, <3>2, <3>3 DEF RequestStep
  <2>2. CASE q # r
    <3>1. pc'[r] = pc[r]
      BY <2>2 DEF RequestStep, HandlerStep, BeginRequest, BeginWith, BeginRequestFails, BeginFailsWith, HandlerLeaves,
                  HandlerRollsBack, HandlerCommits, ActionStep, Save, SaveIdentity, Flush,
                  FlushOutside, FlushThrows, ActionBegins, ActionCommits, ActionRollsBack,
                  AddModelError, ActionEnds, ClientAborts, DisposeScope, requestVars, TypeOK
    <3> QED BY <3>1
  <2> QED BY <2>1, <2>2
<1> QED BY <1>1, TypeCorrect, PTL DEF Spec, AbortedStoresNothing

(***************************************************************************)
(* The session under the handler is a unit of work.                        *)
(***************************************************************************)
\* The step of a request is the step of its unit of work, or none.
LEMMA StepRefines ==
  ASSUME TypeOK, ScopesAreIsolated, NEW r \in Requests, RequestStep(r)
  PROVE  UoW!Next \/ UNCHANGED UoW!vars
<1> USE UnitOfWorkAssumption DEF SessionOf, ServiceScopes, requestVars, sessionVars, historyVars
<1> DEFINE unit == [q \in Requests |-> IsActive(q)]
           work == [q \in Requests |-> queued[q] \cup flushed[q]]
           over == [q \in Requests |-> pc[q] = "done"]
<1>1. /\ r \in ServiceScopes
      /\ \A q \in Requests : q \in ServiceScopes
      /\ queued[r] \in SUBSET Writes /\ flushed[r] \in SUBSET Writes
      /\ \A w \in queued[r] \cup flushed[r] : Owner[w] = r
  BY DEF TypeOK, ScopesAreIsolated
<1>2. pc' = pc \/ (pc[r] # "done" /\ pc'[r] # "done") => over' = over
  <2>1. CASE pc' = pc
    BY <2>1
  <2>2. CASE pc[r] # "done" /\ pc'[r] # "done"
    <3>1. \A q \in Requests \ {r} : pc'[q] = pc[q]
      BY Locality DEF OnlyOwn
    <3> QED BY <2>2, <3>1
  <2> QED BY <2>1, <2>2
<1>3. UNCHANGED <<transaction, queued, flushed>> => unit' = unit /\ work' = work
  BY DEF IsActive
<1>4. UNCHANGED sessionVars /\ over' = over => UNCHANGED UoW!vars
  BY <1>3 DEF UoW!vars
<1>5. Commit(r) /\ IsActive(r) /\ pc[r] # "done" /\ over' = over => UoW!Commit(r)
  <2> SUFFICES ASSUME Commit(r), IsActive(r), pc[r] # "done", over' = over
               PROVE  UoW!Commit(r)
    OBVIOUS
  <2>1. unit' = [unit EXCEPT ![r] = FALSE]
    BY <1>1 DEF Commit, IsActive, TypeOK
  <2>2. work' = [work EXCEPT ![r] = {}]
    BY <1>1 DEF Commit, TypeOK
  <2>3. durable' = durable \cup work[r]
    BY DEF Commit
  <2> QED BY <2>1, <2>2, <2>3 DEF UoW!Commit
<1>6. Rollback(r) /\ IsActive(r) /\ pc[r] # "done" /\ over' = over
        => \E kept \in SUBSET Writes : UoW!Abandon(r, kept)
  <2> SUFFICES ASSUME Rollback(r), IsActive(r), pc[r] # "done", over' = over
               PROVE  \E kept \in SUBSET Writes : UoW!Abandon(r, kept)
    OBVIOUS
  <2>1. unit' = [unit EXCEPT ![r] = FALSE]
    BY <1>1 DEF Rollback, IsActive, TypeOK
  <2>2. work' = [work EXCEPT ![r] = queued[r]]
    BY <1>1 DEF Rollback, TypeOK
  <2> QED BY <1>1, <2>1, <2>2 DEF UoW!Abandon, Rollback
<1>7. CommitFails(r) /\ IsActive(r) /\ pc[r] # "done" /\ over' = over
        => UoW!Commit(r) \/ \E kept \in SUBSET Writes : UoW!Abandon(r, kept)
  <2> SUFFICES ASSUME CommitFails(r), IsActive(r), pc[r] # "done", over' = over
               PROVE  UoW!Commit(r) \/ \E kept \in SUBSET Writes : UoW!Abandon(r, kept)
    OBVIOUS
  <2>1. unit' = [unit EXCEPT ![r] = FALSE]
    BY <1>1 DEF CommitFails, IsActive, TypeOK
  <2>2. work' = [work EXCEPT ![r] = {}]
    BY <1>1 DEF CommitFails, TypeOK
  <2>3. durable' = durable \/ durable' = durable \cup work[r]
    BY DEF CommitFails
  <2> QED BY <2>1, <2>2, <2>3 DEF UoW!Commit, UoW!Abandon
<1>8. FlushFails(r) /\ over' = over => UNCHANGED UoW!vars
  <2> SUFFICES ASSUME FlushFails(r), over' = over PROVE UNCHANGED UoW!vars
    OBVIOUS
  <2> PICK executed \in SUBSET queued[r] :
        flushed' = [flushed EXCEPT ![r] = @ \cup executed]
    BY DEF FlushFails
  <2>1. unit' = unit
    BY DEF FlushFails, IsActive
  <2>2. ASSUME NEW q \in Requests PROVE queued'[q] \cup flushed'[q] = queued[q] \cup flushed[q]
    BY <1>1 DEF FlushFails, TypeOK
  <2> QED BY <2>1, <2>2 DEF FlushFails, UoW!vars
\* How the steps of this request's unit enter its next-state relation.
<1>abandon. (\E kept \in SUBSET Writes : UoW!Abandon(r, kept)) => UoW!Next
  BY DEF UoW!Next
<1>through. (\E stored, kept \in SUBSET Writes : UoW!WriteThrough(r, stored, kept)) => UoW!Next
  BY DEF UoW!Next
<1>unit. UoW!Begin(r) \/ UoW!Commit(r) \/ UoW!Close(r) => UoW!Next
  BY DEF UoW!Next
<1>write. ASSUME NEW w \in Writes, UoW!Write(r, w) PROVE UoW!Next
  BY <1>write DEF UoW!Next
\* Work done at once: in a unit it is written, outside it goes through.
<1>9. ASSUME NEW w \in Writes, Save(r, w) PROVE UoW!Write(r, w)
  <2>1. unit' = unit /\ over' = over /\ pc[r] # "done"
    BY <1>9 DEF Save, IsActive
  <2>2. work' = [work EXCEPT ![r] = @ \cup {w}]
    BY <1>1, <1>9 DEF Save, TypeOK
  <2>3. Owner[w] = r
    BY <1>9 DEF Save, Mine
  <2> QED BY <1>9, <2>1, <2>2, <2>3 DEF UoW!Write, Save
<1>10. ASSUME NEW w \in Writes, SaveIdentity(r, w)
       PROVE  \/ UoW!Write(r, w)
              \/ \E stored, kept \in SUBSET Writes : UoW!WriteThrough(r, stored, kept)
  <2>1. unit' = unit /\ over' = over /\ pc[r] # "done" /\ Owner[w] = r
    BY <1>10 DEF SaveIdentity, IsActive, Mine
  <2>2. CASE IsActive(r)
    <3>1. work' = [work EXCEPT ![r] = @ \cup {w}]
      BY <1>1, <1>10, <2>2 DEF SaveIdentity, TypeOK
    <3> QED BY <1>10, <2>1, <2>2, <3>1 DEF UoW!Write, SaveIdentity
  <2>3. CASE ~IsActive(r)
    <3>1. work' = [work EXCEPT ![r] = work[r]] /\ durable' = durable \cup {w}
      BY <1>1, <1>10, <2>3 DEF SaveIdentity
    <3>2. {w} \in SUBSET Writes /\ work[r] \in SUBSET Writes
      BY <1>1
    <3> QED BY <2>1, <2>3, <3>1, <3>2 DEF UoW!WriteThrough
  <2> QED BY <2>2, <2>3
<1>11. ASSUME Flush(r) PROVE UNCHANGED UoW!vars
  <2>1. unit' = unit /\ over' = over /\ durable' = durable
    BY <1>11 DEF Flush, IsActive
  <2>2. ASSUME NEW q \in Requests PROVE queued'[q] \cup flushed'[q] = queued[q] \cup flushed[q]
    BY <1>1, <1>11 DEF Flush, TypeOK
  <2> QED BY <2>1, <2>2 DEF UoW!vars
<1>12. ASSUME FlushOutside(r) 
       PROVE  \E stored, kept \in SUBSET Writes : UoW!WriteThrough(r, stored, kept)
  <2>1. unit' = unit /\ over' = over /\ pc[r] # "done" /\ ~IsActive(r)
    BY <1>12 DEF FlushOutside, IsActive
  <2>2. work' = [work EXCEPT ![r] = flushed[r]] /\ durable' = durable \cup queued[r]
    <3>1. \A q \in Requests : queued'[q] = IF q = r THEN {} ELSE queued[q]
      BY <1>1, <1>12 DEF FlushOutside, TypeOK
    <3>2. flushed' = flushed /\ durable' = durable \cup queued[r]
      BY <1>12 DEF FlushOutside
    <3> QED BY <3>1, <3>2
  <2> PICK stored \in SUBSET Writes : stored = queued[r]
    BY <1>1
  <2> PICK kept \in SUBSET Writes : kept = flushed[r]
    BY <1>1
  <2>3. UoW!WriteThrough(r, stored, kept)
    BY <1>1, <2>1, <2>2 DEF UoW!WriteThrough
  <2> QED BY <2>3
<1>13. ASSUME FlushThrows(r)
       PROVE  \/ UNCHANGED UoW!vars
              \/ \E stored, kept \in SUBSET Writes : UoW!WriteThrough(r, stored, kept)
  <2>1. over' = over /\ pc[r] # "done"
    BY <1>13 DEF FlushThrows
  <2>2. CASE IsActive(r)
    BY <1>8, <1>13, <2>1, <2>2 DEF FlushThrows
  <2>3. CASE ~IsActive(r)
    <3> PICK executed \in SUBSET queued[r] : durable' = durable \cup executed
      BY <1>13, <2>3 DEF FlushThrows
    <3>1. unit' = unit /\ work' = work
      BY <1>3, <1>13, <2>3 DEF FlushThrows
    <3>2. work' = [work EXCEPT ![r] = work[r]]
      BY <3>1
    <3> PICK kept \in SUBSET Writes : kept = work[r]
      BY <1>1
    <3>3. executed \in SUBSET Writes
      BY <1>1
    <3>4. UoW!WriteThrough(r, executed, kept)
      BY <1>1, <2>1, <2>3, <3>1, <3>2 DEF UoW!WriteThrough
    <3> QED BY <3>3, <3>4
  <2> QED BY <2>2, <2>3
<1>14. ASSUME NEW level \in Levels, ActionBegins(r, level)
       PROVE  UoW!Begin(r) \/ UNCHANGED UoW!vars
  <2>1. over' = over /\ work' = work /\ durable' = durable /\ pc[r] # "done"
    BY <1>14 DEF ActionBegins
  <2>2. CASE IsActive(r)
    BY <1>14, <2>1, <2>2 DEF ActionBegins, BeginTransaction, IsActive, TypeOK, UoW!vars
  <2>3. CASE ~IsActive(r)
    <3>1. unit' = [unit EXCEPT ![r] = TRUE]
      BY <1>1, <1>14, <2>3 DEF ActionBegins, BeginTransaction, IsActive, TypeOK
    <3> QED BY <2>1, <2>3, <3>1 DEF UoW!Begin
  <2> QED BY <2>2, <2>3
<1>15. ASSUME BeginRequest(r) PROVE UoW!Begin(r) \/ UNCHANGED UoW!vars
  <2>1. over' = over /\ work' = work /\ durable' = durable /\ pc[r] # "done"
    BY <1>2, <1>15 DEF BeginRequest, BeginWith, TypeOK
  <2>2. transaction' = transaction \/ \E level \in Levels : BeginTransaction(r, level)
    BY <1>15, EffectivePolicyType DEF BeginRequest, BeginWith, Attributes
  <2>3. CASE IsActive(r) \/ transaction' = transaction
    BY <2>1, <2>2, <2>3 DEF BeginTransaction, IsActive, TypeOK, UoW!vars
  <2>4. CASE ~IsActive(r) /\ \E level \in Levels : BeginTransaction(r, level)
    <3>0. PICK level \in Levels : transaction' = [transaction EXCEPT ![r] = level]
      BY <2>4 DEF BeginTransaction
    <3>1. unit' = [unit EXCEPT ![r] = TRUE]
      BY <1>1, <2>4, <3>0 DEF IsActive, TypeOK
    <3> QED BY <2>1, <2>4, <3>1 DEF UoW!Begin
  <2> QED BY <2>2, <2>3, <2>4
<1>16. ASSUME DisposeScope(r) PROVE UoW!Close(r)
  <2>1. pc[r] # "done" /\ durable' = durable /\ over' = [over EXCEPT ![r] = TRUE]
    BY <1>16 DEF DisposeScope, TypeOK
  <2>2. unit' = [unit EXCEPT ![r] = FALSE]
    BY <1>1, <1>16 DEF DisposeScope, IsActive, TypeOK
  <2>3. work' = [work EXCEPT ![r] = {}]
    BY <1>1, <1>16 DEF DisposeScope, TypeOK
  <2> QED BY <2>1, <2>2, <2>3 DEF UoW!Close
<1>17. CASE HandlerStep(r)
  <2>1. CASE BeginRequest(r)
    BY <1>15, <1>unit, <2>1
  <2>2. CASE BeginRequestFails(r) \/ HandlerLeaves(r)
    BY <1>2, <1>4, <2>2 DEF BeginRequestFails, BeginFailsWith, HandlerLeaves, TypeOK
  <2>3. CASE HandlerRollsBack(r)
    <3>1. \E kept \in SUBSET Writes : UoW!Abandon(r, kept)
      BY <1>2, <1>6, <2>3 DEF HandlerRollsBack, TypeOK
    <3> QED BY <1>abandon, <3>1
  <2>4. CASE HandlerCommits(r)
    <3>1. over' = over /\ pc[r] # "done" /\ IsActive(r)
      BY <1>2, <2>4 DEF HandlerCommits, TypeOK
    <3>2. UNCHANGED sessionVars \/ FlushFails(r) \/ CommitFails(r) \/ Commit(r)
      BY <2>4 DEF HandlerCommits
    <3> QED BY <1>4, <1>5, <1>7, <1>8, <1>abandon, <1>unit, <3>1, <3>2
  <2> QED BY <1>17, <2>1, <2>2, <2>3, <2>4 DEF HandlerStep
<1>18. CASE ActionStep(r)
  <2>1. CASE ActionCommits(r)
    <3>1. over' = over /\ pc[r] # "done" /\ IsActive(r) /\ (Commit(r) \/ CommitFails(r))
      BY <2>1 DEF ActionCommits
    <3> QED BY <1>5, <1>7, <1>abandon, <1>unit, <3>1
  <2>2. CASE ActionRollsBack(r)
    <3>1. \E kept \in SUBSET Writes : UoW!Abandon(r, kept)
      BY <1>6, <2>2 DEF ActionRollsBack
    <3> QED BY <1>abandon, <3>1
  <2>3. CASE AddModelError(r)
    BY <1>4, <2>3 DEF AddModelError
  <2>4. CASE \E w \in Writes : SaveIdentity(r, w)
    BY <1>10, <1>through, <1>write, <2>4
  <2>5. CASE FlushThrows(r)
    BY <1>13, <1>through, <2>5
  <2>6. CASE FlushOutside(r)
    BY <1>12, <1>through, <2>6
  <2>7. CASE \E w \in Writes : Save(r, w)
    BY <1>9, <1>write, <2>7
  <2>8. CASE Flush(r) \/ \E level \in Levels : ActionBegins(r, level)
    BY <1>11, <1>14, <1>unit, <2>8
  <2> QED BY <1>18, <2>1, <2>2, <2>3, <2>4, <2>5, <2>6, <2>7, <2>8 DEF ActionStep
<1>19. CASE ActionEnds(r)
  BY <1>2, <1>4, <1>19 DEF ActionEnds, TypeOK
<1>20. CASE ClientAborts(r)
  BY <1>4, <1>20 DEF ClientAborts
<1> QED BY <1>16, <1>17, <1>18, <1>19, <1>20, <1>unit DEF RequestStep

\* NHibernate's session, driven by AutoTransactionHandler and an arbitrary
\* action, implements the abstract unit of work: inside a transaction the
\* writes of a request become durable together or not at all.
THEOREM UnitOfWorkImplemented == Spec => IsUnitOfWork
<1>1. Init => UoW!Init
  BY DEF Init, UoW!Init, IsActive, SessionOf, ServiceScopes
<1>2. TypeOK /\ ScopesAreIsolated /\ [Next]_vars => [UoW!Next]_UoW!vars
  <2> SUFFICES ASSUME TypeOK, ScopesAreIsolated, [Next]_vars PROVE [UoW!Next]_UoW!vars
    OBVIOUS
  <2>1. CASE UNCHANGED vars
    BY <2>1 DEF vars, UoW!vars, IsActive
  <2>2. CASE Next
    BY <2>2, StepRefines DEF Next
  <2> QED BY <2>1, <2>2
<1>3. IInv => ScopesAreIsolated
  BY DEF IInv
<1> QED BY <1>1, <1>2, <1>3, TypeCorrect, InvariantHolds, PTL DEF Spec, IsUnitOfWork, UoW!Spec

=============================================================================
