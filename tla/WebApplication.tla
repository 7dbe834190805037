--------------------------- MODULE WebApplication ---------------------------
(***************************************************************************)
(* The transaction filter as a whole: every request first looks up its     *)
(* attribute in the cache all requests share, and then runs its action     *)
(* under the transaction that attribute asks for.                          *)
(*                                                                         *)
(* NHibernateUnitOfWork takes the attribute for granted; here it comes     *)
(* from AttributeCache.                                                    *)
(***************************************************************************)
CONSTANTS
  Levels, Actions, NoAttribute, Filters,
  Requests, RootScope, Writes, Owner, IdentityWrites, NoTransaction, SupportsStatus,
  NoRequest, StaleReads

VARIABLES
  \* the cache
  cache, lock, stage, action, result, replacing,
  \* the requests and their sessions
  pc, attribute, modelValid, exception, aborted, fault,
  transaction, queued, flushed, durable, asked, tookOver

cacheVars == <<cache, lock, stage, action, result, replacing>>
unitVars == <<pc, attribute, modelValid, exception, aborted, fault,
              transaction, queued, flushed, durable, asked, tookOver>>
vars == <<cacheVars, unitVars>>

Cache == INSTANCE AttributeCache
Unit == INSTANCE NHibernateUnitOfWork

ASSUME WebApplicationAssumption ==
  /\ Cache!PolicyAssumption
  /\ Cache!CacheAssumption
  /\ Unit!UnitOfWorkAssumption

TypeOK == Cache!TypeOK /\ Unit!TypeOK

Init == Cache!Init /\ Unit!Init

\* GetTransactionAttribute(context), the handler's first statement.
GetTransactionAttribute(r) ==
  /\ pc[r] = "arrived"
  /\ \/ stage[r] = "idle" /\ Cache!Ask(r)
     \/ Cache!LookupStep(r)
  /\ UNCHANGED unitVars

\* Not the code: the handler goes on before the lookup has returned.
BeginEarly(r) ==
  /\ stage[r] # "idle"
  /\ Unit!BeginWith(r, result[r]) \/ Unit!BeginFailsWith(r, result[r])
  /\ UNCHANGED cacheVars

\* The rest of OnActionExecutionAsync before next().
Begin(r) ==
  /\ stage[r] = "got"
  /\ Unit!BeginWith(r, result[r]) \/ Unit!BeginFailsWith(r, result[r])
  /\ UNCHANGED cacheVars

\* next(), what the handler does after it, and the end of the request.
Run(r) ==
  /\ \/ Unit!ActionStep(r)
     \/ Unit!ActionEnds(r)
     \/ Unit!HandlerLeaves(r)
     \/ Unit!HandlerRollsBack(r)
     \/ Unit!HandlerCommits(r)
     \/ Unit!ClientAborts(r)
     \/ Unit!DisposeScope(r)
  /\ UNCHANGED cacheVars

Next == \E r \in Requests : GetTransactionAttribute(r) \/ Begin(r) \/ Run(r)

Spec == Init /\ [][Next]_vars

(***************************************************************************)
(* What must hold.                                                         *)
(***************************************************************************)
\* An action never runs under the attribute of another one, and none that has
\* an attribute runs without it, however the lookups of concurrent requests
\* interleave (GetTransactionAttribute and OnActionExecutionAsync).
RunsUnderItsPolicy ==
  \A r \in Requests :
    pc[r] # "arrived" => attribute[r] = Cache!EffectivePolicy(action[r])

=============================================================================
