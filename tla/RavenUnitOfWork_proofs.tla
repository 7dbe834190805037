----------------------- MODULE RavenUnitOfWork_proofs -----------------------
(***************************************************************************)
(* What the handler makes of RavenDB's transaction manager, for any number *)
(* of repositories' managers, changes, actions and isolation levels.       *)
(***************************************************************************)
EXTENDS RavenUnitOfWork, TransactionPolicy_proofs

\* The variables that the scopes leave alone.
PlainTypeOK ==
  /\ pc \in Phases
  /\ attribute \in Attributes \cup {NoAttribute}
  /\ modelValid \in BOOLEAN
  /\ exception \in Exceptions
  /\ fault \in Faults
  /\ pending \subseteq Writes
  /\ durable \subseteq Writes
  /\ asked \subseteq Writes
  /\ stored \in BOOLEAN
  /\ left \in BOOLEAN
  /\ discarded \subseteq Writes

\* There is one root at most, and it is what the ambient transaction hangs on.
ScopesOK ==
  /\ scope \in [Managers -> ScopeStates]
  /\ level \in Levels \cup {NoTransaction}
  /\ doomed \in BOOLEAN
  /\ \A m, n \in Managers : scope[m] = "root" /\ scope[n] = "root" => m = n
  /\ level # NoTransaction <=> \E m \in Managers : scope[m] = "root"

LEMMA TypeParts == TypeOK <=> PlainTypeOK /\ ScopesOK
BY DEF TypeOK, PlainTypeOK, ScopesOK

LEMMA OpenKeepsScopes ==
  ASSUME ScopesOK, NEW m \in Managers, NEW lvl \in Levels, scope[m] = "null",
         OpenScope(m, lvl)
  PROVE  ScopesOK' /\ scope'[m] # "null"
BY RavenAssumption DEF ScopesOK, OpenScope, ScopeStates, Live

LEMMA BeginKeepsScopes ==
  ASSUME ScopesOK, NEW m \in Managers, NEW lvl \in Levels, BeginTransaction(m, lvl)
  PROVE  ScopesOK' /\ scope'[m] # "null"
<1>1. CASE IsActive(m)
  BY <1>1 DEF BeginTransaction, scopeVars, ScopesOK, IsActive
<1>2. CASE ~IsActive(m)
  BY <1>2, OpenKeepsScopes DEF BeginTransaction, IsActive
<1> QED BY <1>1, <1>2

LEMMA DisposeKeepsScopes ==
  ASSUME ScopesOK, NEW m \in Managers, NEW completed \in BOOLEAN,
         NEW rest \in {"null", "disposed"}, DisposeScope(m, completed, rest)
  PROVE  ScopesOK' /\ scope'[m] = rest
<1>1. scope' = [n \in Managers |->
         IF n = m THEN rest
         ELSE IF scope[m] = "root" /\ scope[n] = "joined" THEN "orphan"
         ELSE scope[n]]
  BY DEF DisposeScope
<1>2. CASE scope[m] = "root"
  <2>1. \A n \in Managers : scope'[n] # "root"
    BY <1>1, <1>2 DEF ScopesOK
  <2> QED BY <1>1, <1>2, <2>1 DEF DisposeScope, ScopesOK, ScopeStates, Live
<1>3. CASE scope[m] # "root"
  <2>1. \A n \in Managers : scope'[n] = "root" <=> scope[n] = "root"
    BY <1>1, <1>3 DEF ScopesOK
  <2>2. scope' \in [Managers -> ScopeStates] /\ doomed' \in BOOLEAN /\ level' = level
    BY <1>1, <1>3 DEF DisposeScope, ScopesOK, ScopeStates, Live
  <2> QED BY <1>1, <2>1, <2>2 DEF ScopesOK
<1> QED BY <1>2, <1>3

LEMMA ClearKeepsScopes ==
  ASSUME ScopesOK, NEW m \in Managers, NEW completed \in BOOLEAN, NEW threw \in BOOLEAN,
         ClearTransaction(m, completed, threw)
  PROVE  ScopesOK' /\ (~threw => ~IsActive(m)')
BY DisposeKeepsScopes DEF ClearTransaction, IsActive

LEMMA CommitKeepsScopes ==
  ASSUME ScopesOK, NEW m \in Managers, NEW outcome \in Faults, CommitTransaction(m, outcome)
  PROVE  ScopesOK' /\ (outcome = "none" => ~IsActive(m)')
<1>1. CASE UNCHANGED scopeVars /\ outcome # "none"
  BY <1>1 DEF scopeVars, ScopesOK
<1>2. CASE outcome # "none" /\ ClearTransaction(m, TRUE, TRUE)
  BY <1>2, ClearKeepsScopes
<1>3. CASE outcome = "none" /\ ClearTransaction(m, TRUE, FALSE)
  BY <1>3, ClearKeepsScopes
<1> QED BY <1>1, <1>2, <1>3 DEF CommitTransaction

\* What a commit does to the session.
LEMMA CommitStores ==
  ASSUME NEW m \in Managers, NEW outcome \in Faults, CommitTransaction(m, outcome),
         pending \subseteq Writes, durable \subseteq Writes
  PROVE  /\ pending' \subseteq Writes /\ durable' \subseteq Writes
         /\ pending \cup durable \subseteq pending' \cup durable'
         /\ outcome = "none" => durable' = durable \cup pending
BY DEF CommitTransaction, SaveChanges, SaveChangesFails

(***************************************************************************)
(* The inductive invariant.  Until the handler has its say every change    *)
(* asked for is pending or, if the action saved it, durable; and the       *)
(* handler's scope is in its manager unless the action closed it.          *)
(***************************************************************************)
Running == pc \in {"arrived", "action", "executed"}

RunningInv ==
  Running =>
    /\ fault = "none"
    /\ asked \subseteq pending \cup durable
    /\ ~stored => durable = {}
    /\ pc = "arrived" => scope[Injected] = "null" /\ attribute = NoAttribute
    /\ Supervised /\ ~left => IsActive(Injected)

RavenInv ==
  /\ PlainTypeOK
  /\ ScopesOK
  /\ RunningInv
  /\ FailureLeavesNothing
  /\ SuccessKeepsEverything
  /\ NoStrayScope

LEMMA RavenInvInit == Init => RavenInv
BY RavenAssumption
   DEF Init, RavenInv, PlainTypeOK, ScopesOK, RunningInv, Running, FailureLeavesNothing,
       SuccessKeepsEverything, NoStrayScope, Finished, Supervised, Phases, Exceptions, Faults,
       ScopeStates, Live

\* While the action runs nothing has been promised yet.
LEMMA ActionKeeps ==
  ASSUME RavenInv, pc = "action", UNCHANGED <<pc, attribute, fault>>,
         PlainTypeOK', ScopesOK',
         asked' \subseteq pending' \cup durable',
         ~stored' => ~stored /\ durable' = durable,
         ~left' => ~left /\ (IsActive(Injected) => IsActive(Injected)')
  PROVE  RavenInv'
BY DEF RavenInv, RunningInv, Running, FailureLeavesNothing, SuccessKeepsEverything, NoStrayScope,
       Finished, Supervised

LEMMA RavenInvStep == RavenInv /\ [Next]_vars => RavenInv'
<1> SUFFICES ASSUME RavenInv, [Next]_vars PROVE RavenInv'
  OBVIOUS
<1> USE RavenAssumption DEF requestVars, sessionVars, historyVars
<1>1. CASE UNCHANGED vars
  BY <1>1 DEF vars, scopeVars, RavenInv, PlainTypeOK, ScopesOK, RunningInv, Running,
     FailureLeavesNothing, SuccessKeepsEverything, NoStrayScope, Finished, Supervised,
     ActionFailed, IsActive
<1>2. CASE BeginRequest
  <2> PICK a \in Actions :
        /\ attribute' = EffectivePolicy(a)
        /\ IF EffectivePolicy(a) = NoAttribute
             THEN UNCHANGED scopeVars
             ELSE BeginTransaction(Injected, EffectivePolicy(a).isolation)
    BY <1>2 DEF BeginRequest
  <2>1. attribute' \in Attributes \cup {NoAttribute}
    BY EffectivePolicyType
  <2>2. ScopesOK' /\ (attribute' # NoAttribute => IsActive(Injected)')
    <3>1. CASE attribute' = NoAttribute
      BY <3>1 DEF scopeVars, RavenInv, ScopesOK
    <3>2. CASE attribute' # NoAttribute
      <4>1. EffectivePolicy(a).isolation \in Levels
        BY <2>1, <3>2 DEF Attributes
      <4>2. BeginTransaction(Injected, EffectivePolicy(a).isolation)
        BY <3>2
      <4> QED BY <4>1, <4>2, BeginKeepsScopes DEF RavenInv, IsActive
    <3> QED BY <3>1, <3>2
  <2>3. /\ pc = "arrived" /\ pc' = "action"
        /\ UNCHANGED <<modelValid, exception, fault, pending, durable, asked, stored, left, discarded>>
    BY <1>2 DEF BeginRequest
  <2>4. PlainTypeOK'
    BY <2>1, <2>3 DEF RavenInv, PlainTypeOK, Phases
  <2> QED
    BY <2>2, <2>3, <2>4 DEF RavenInv, RunningInv, Running, FailureLeavesNothing,
       SuccessKeepsEverything, NoStrayScope, Finished, Supervised
<1>3. CASE ActionStep
  <2>1. ASSUME NEW w \in Writes, Change(w) \/ Evict(w) PROVE RavenInv'
    <3>1. PlainTypeOK' /\ ScopesOK' /\ asked' \subseteq pending' \cup durable'
      BY <2>1 DEF Change, Evict, scopeVars, RavenInv, PlainTypeOK, ScopesOK, RunningInv, Running
    <3> QED BY <2>1, <3>1, ActionKeeps DEF Change, Evict, scopeVars, IsActive
  <2>2. CASE ActionSaves
    <3>1. PlainTypeOK' /\ ScopesOK' /\ asked' \subseteq pending' \cup durable'
      BY <2>2 DEF ActionSaves, SaveChanges, SaveChangesFails, scopeVars, RavenInv, PlainTypeOK,
         ScopesOK, RunningInv, Running
    <3> QED BY <2>2, <3>1, ActionKeeps DEF ActionSaves, scopeVars, IsActive
  <2>3. ASSUME NEW m \in Managers, NEW lvl \in Levels, ActionBegins(m, lvl) PROVE RavenInv'
    <3>1. ScopesOK' /\ (IsActive(Injected) => IsActive(Injected)')
      <4>1. CASE IsActive(m)
        BY <2>3, <4>1 DEF ActionBegins, BeginTransaction, scopeVars, IsActive, RavenInv, ScopesOK
      <4>2. CASE ~IsActive(m)
        BY <2>3, <4>2, OpenKeepsScopes DEF ActionBegins, BeginTransaction, OpenScope, IsActive,
           RavenInv, ScopesOK
      <4> QED BY <4>1, <4>2
    <3>2. PlainTypeOK' /\ asked' \subseteq pending' \cup durable'
      BY <2>3 DEF ActionBegins, RavenInv, PlainTypeOK, RunningInv, Running
    <3> QED BY <2>3, <3>1, <3>2, ActionKeeps DEF ActionBegins
  <2>4. ASSUME NEW m \in Managers, ActionCommits(m) PROVE RavenInv'
    <3> PICK outcome \in Faults : CommitTransaction(m, outcome)
      BY <2>4 DEF ActionCommits
    <3>1. ScopesOK'
      BY CommitKeepsScopes DEF RavenInv
    <3>2. /\ pending' \subseteq Writes /\ durable' \subseteq Writes
          /\ pending \cup durable \subseteq pending' \cup durable'
      BY CommitStores DEF RavenInv, PlainTypeOK
    <3>3. PlainTypeOK' /\ asked' \subseteq pending' \cup durable'
      BY <2>4, <3>2 DEF ActionCommits, RavenInv, PlainTypeOK, RunningInv, Running
    <3>4. ~left' => ~left /\ (IsActive(Injected) => IsActive(Injected)')
      <4>1. CASE m = Injected
        BY <2>4, <4>1 DEF ActionCommits
      <4>2. CASE m # Injected
        BY <2>4, <4>2 DEF ActionCommits, CommitTransaction, ClearTransaction, DisposeScope,
           scopeVars, IsActive
      <4> QED BY <4>1, <4>2
    <3> QED BY <2>4, <3>1, <3>3, <3>4, ActionKeeps DEF ActionCommits
  <2>5. ASSUME NEW m \in Managers, ActionRollsBack(m) PROVE RavenInv'
    <3> PICK threw \in BOOLEAN : RollbackTransaction(m, threw) /\ Discards(m, threw)
      BY <2>5 DEF ActionRollsBack
    <3>1. ScopesOK'
      BY ClearKeepsScopes DEF RollbackTransaction, RavenInv
    <3>2. PlainTypeOK' /\ asked' \subseteq pending' \cup durable'
      BY <2>5 DEF ActionRollsBack, RollbackTransaction, Discards, RavenInv, PlainTypeOK, RunningInv,
         Running
    <3>3. ~left' => ~left /\ (IsActive(Injected) => IsActive(Injected)')
      BY <2>5 DEF ActionRollsBack, RollbackTransaction, ClearTransaction, DisposeScope, IsActive
    <3> QED
      BY <2>5, <3>1, <3>2, <3>3, ActionKeeps DEF ActionRollsBack, RollbackTransaction
  <2>6. ASSUME NEW m \in Managers, ActionDisposes(m) PROVE RavenInv'
    <3>1. ScopesOK'
      BY <2>6, DisposeKeepsScopes DEF ActionDisposes, RavenInv
    <3>2. PlainTypeOK' /\ asked' \subseteq pending' \cup durable'
      BY <2>6 DEF ActionDisposes, RavenInv, PlainTypeOK, RunningInv, Running
    <3>3. ~left' => ~left /\ (IsActive(Injected) => IsActive(Injected)')
      BY <2>6 DEF ActionDisposes, DisposeScope, IsActive
    <3> QED BY <2>6, <3>1, <3>2, <3>3, ActionKeeps DEF ActionDisposes
  <2>7. CASE AddModelError
    <3>1. PlainTypeOK' /\ ScopesOK' /\ asked' \subseteq pending' \cup durable'
      BY <2>7 DEF AddModelError, scopeVars, RavenInv, PlainTypeOK, ScopesOK, RunningInv, Running
    <3> QED BY <2>7, <3>1, ActionKeeps DEF AddModelError, scopeVars, IsActive
  <2> QED BY <1>3, <2>1, <2>2, <2>3, <2>4, <2>5, <2>6, <2>7 DEF ActionStep
<1>4. CASE ActionEnds
  BY <1>4 DEF ActionEnds, scopeVars, RavenInv, PlainTypeOK, ScopesOK, RunningInv, Running, Phases,
     FailureLeavesNothing, SuccessKeepsEverything, NoStrayScope, Finished, Supervised, IsActive
<1>5. CASE HandlerLeaves
  <2>1. PlainTypeOK' /\ ScopesOK'
    BY <1>5 DEF HandlerLeaves, scopeVars, RavenInv, PlainTypeOK, ScopesOK, Phases
  <2>2. pc' = "closing" /\ FailureLeavesNothing' /\ SuccessKeepsEverything' /\ NoStrayScope'
    BY <1>5 DEF HandlerLeaves, scopeVars, RavenInv, RunningInv, Running, FailureLeavesNothing,
       SuccessKeepsEverything, NoStrayScope, Finished, Supervised, IsActive
  <2> QED BY <2>1, <2>2 DEF RavenInv, RunningInv, Running
<1>6. CASE HandlerRollsBack
  <2> PICK threw \in BOOLEAN :
        /\ RollbackTransaction(Injected, threw)
        /\ fault' = IF threw THEN "rollback" ELSE "none"
        /\ Discards(Injected, threw)
    BY <1>6 DEF HandlerRollsBack
  <2>1. ScopesOK' /\ (~threw => ~IsActive(Injected)')
    BY ClearKeepsScopes DEF RollbackTransaction, RavenInv
  <2>2. PlainTypeOK' /\ pc' = "closing"
    BY <1>6 DEF HandlerRollsBack, RollbackTransaction, Discards, RavenInv, PlainTypeOK, Phases,
       Faults
  <2>3. ActionFailed /\ ActionFailed' /\ UNCHANGED <<durable, stored>>
    BY <1>6 DEF HandlerRollsBack, MustRollBack, ActionFailed, RollbackTransaction
  <2>4. FailureLeavesNothing' /\ SuccessKeepsEverything' /\ NoStrayScope'
    BY <1>6, <2>1, <2>2, <2>3 DEF HandlerRollsBack, RavenInv, RunningInv, Running,
       FailureLeavesNothing, SuccessKeepsEverything, NoStrayScope
  <2> QED BY <2>1, <2>2, <2>4 DEF RavenInv, RunningInv, Running
<1>7. CASE HandlerCommits
  <2> PICK outcome \in Faults : CommitTransaction(Injected, outcome) /\ fault' = outcome
    BY <1>7 DEF HandlerCommits
  <2>1. ScopesOK' /\ (outcome = "none" => ~IsActive(Injected)')
    BY CommitKeepsScopes DEF RavenInv
  <2>2. /\ pending' \subseteq Writes /\ durable' \subseteq Writes
        /\ outcome = "none" => durable' = durable \cup pending
    BY CommitStores DEF RavenInv, PlainTypeOK
  <2>3. PlainTypeOK' /\ pc' = "closing"
    BY <1>7, <2>2 DEF HandlerCommits, RavenInv, PlainTypeOK, Phases
  <2>4. ~ActionFailed'
    BY <1>7 DEF HandlerCommits, MustRollBack, ActionFailed
  <2>5. FailureLeavesNothing' /\ SuccessKeepsEverything' /\ NoStrayScope'
    BY <1>7, <2>1, <2>2, <2>3, <2>4 DEF HandlerCommits, RavenInv, RunningInv, Running,
       FailureLeavesNothing, SuccessKeepsEverything, NoStrayScope
  <2> QED BY <2>1, <2>3, <2>5 DEF RavenInv, RunningInv, Running
<1>8. CASE TimesOut
  <2>1. PlainTypeOK' /\ ScopesOK'
    BY <1>8 DEF TimesOut, RavenInv, PlainTypeOK, ScopesOK
  <2> QED
    BY <1>8, <2>1 DEF TimesOut, RavenInv, RunningInv, Running, FailureLeavesNothing,
       SuccessKeepsEverything, NoStrayScope, Finished, Supervised, ActionFailed, IsActive
<1>9. CASE EndRequest
  <2>1. PlainTypeOK' /\ ScopesOK' /\ pc' = "done"
    BY <1>9 DEF EndRequest, scopeVars, RavenInv, PlainTypeOK, ScopesOK, Phases
  <2> QED
    BY <1>9, <2>1 DEF EndRequest, scopeVars, RavenInv, RunningInv, Running, FailureLeavesNothing,
       SuccessKeepsEverything, NoStrayScope, Finished, Supervised, ActionFailed, IsActive
<1> QED
  BY <1>1, <1>2, <1>3, <1>4, <1>5, <1>6, <1>7, <1>8, <1>9 DEF Next, HandlerStep

THEOREM RavenInvariant == Spec => []RavenInv
BY RavenInvInit, RavenInvStep, PTL DEF Spec

\* The variables keep their types; of all the managers' scopes one at most is
\* the root of the ambient transaction.
THEOREM RavenTypeCorrect == Spec => []TypeOK
<1>1. RavenInv => TypeOK
  BY TypeParts DEF RavenInv
<1> QED BY <1>1, RavenInvariant, PTL

\* A failed request whose action saved nothing itself leaves nothing on the
\* server (the handler's rollback branch).
THEOREM RavenFailureIsSafe == Spec => []FailureLeavesNothing
<1>1. RavenInv => FailureLeavesNothing
  BY DEF RavenInv
<1> QED BY <1>1, RavenInvariant, PTL

\* A request the handler has committed has stored all its changes (the
\* handler's commit branch).
THEOREM RavenSuccessIsSafe == Spec => []SuccessKeepsEverything
<1>1. RavenInv => SuccessKeepsEverything
  BY DEF RavenInv
<1> QED BY <1>1, RavenInvariant, PTL

\* A handler that does not throw leaves its manager without a scope
\* (ClearTransaction).
THEOREM RavenScopesEnd == Spec => []NoStrayScope
<1>1. RavenInv => NoStrayScope
  BY DEF RavenInv
<1> QED BY <1>1, RavenInvariant, PTL

\* The handler never succeeds over a doomed transaction (Complete, Dispose).
THEOREM DoomNeverHidden == Spec => DoomIsReported
<1>1. RavenInv /\ [Next]_vars =>
        [(pc = "executed" /\ pc' = "closing" /\ Supervised /\ ~ActionFailed
            /\ scope[Injected] = "root" /\ doomed) => fault' # "none"]_vars
  <2> SUFFICES ASSUME Next, pc = "executed", pc' = "closing", Supervised, ~ActionFailed,
                      scope[Injected] = "root", doomed
               PROVE  fault' # "none"
    OBVIOUS
  <2>1. HandlerCommits
    BY DEF Next, HandlerStep, BeginRequest, HandlerLeaves, HandlerRollsBack, ActionStep, Change,
       Evict, ActionSaves, ActionBegins, ActionCommits, ActionRollsBack, ActionDisposes,
       AddModelError, ActionEnds, TimesOut, EndRequest, requestVars, IsActive, MustRollBack,
       ActionFailed
  <2> PICK outcome \in Faults : CommitTransaction(Injected, outcome) /\ fault' = outcome
    BY <2>1 DEF HandlerCommits
  <2> QED BY DEF CommitTransaction, ClearTransaction, DisposeThrows
<1> QED BY <1>1, RavenInvariant, PTL DEF Spec, DoomIsReported

=============================================================================
