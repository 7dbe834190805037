------------------------ MODULE WebApplication_proofs -----------------------
(***************************************************************************)
(* The composition of the cache and the requests, for any number of them:  *)
(* what is proved of the cache carries over, and with it every action runs *)
(* under its own attribute.                                                *)
(***************************************************************************)
EXTENDS WebApplication, TLAPS

Proved == INSTANCE AttributeCache_proofs

LEMMA ProvedAssumptions == Proved!PolicyAssumption /\ Proved!CacheAssumption
BY WebApplicationAssumption
   DEF Cache!Attributes, Cache!Scopes, Proved!Attributes, Proved!Scopes

\* The composition moves the cache by the cache's own steps, one at a time.
LEMMA CacheMoves == [Next]_vars => [Proved!Next]_(Proved!vars)
<1> SUFFICES ASSUME [Next]_vars PROVE [Proved!Next]_(Proved!vars)
  OBVIOUS
<1>1. CASE UNCHANGED vars
  BY <1>1 DEF vars, cacheVars, Proved!vars
<1>2. ASSUME NEW r \in Requests, Begin(r) \/ Run(r) PROVE UNCHANGED Proved!vars
  BY <1>2 DEF Begin, Run, cacheVars, Proved!vars
<1>3. ASSUME NEW r \in Requests, GetTransactionAttribute(r) PROVE Proved!Next
  <2>1. CASE Cache!Ask(r)
    <3>1. Proved!Ask(r)
      BY <2>1 DEF Cache!Ask, Proved!Ask
    <3> QED BY <3>1 DEF Proved!Next
  <2>2. CASE Cache!LookupStep(r)
    <3>1. Proved!LookupStep(r)
      BY <2>2 DEF Cache!LookupStep, Cache!Hit, Cache!Miss, Cache!Acquire, Cache!Find, Cache!Add,
           Cache!Store, Cache!Leave, Cache!With, Cache!Empty, Cache!EffectivePolicy, Cache!Scopes,
           Proved!LookupStep, Proved!Hit, Proved!Miss, Proved!Acquire, Proved!Find, Proved!Add,
           Proved!Store, Proved!Leave, Proved!With, Proved!Empty, Proved!EffectivePolicy, Proved!Scopes
    <3> QED BY <3>1 DEF Proved!Next
  <2> QED BY <1>3, <2>1, <2>2 DEF GetTransactionAttribute
<1> QED BY <1>1, <1>2, <1>3 DEF Next

LEMMA CacheStep == Proved!CacheInv /\ [Next]_vars => Proved!CacheInv'
BY CacheMoves, ProvedAssumptions, Proved!CacheInvStep

LEMMA CacheInit == Init => Proved!CacheInv
<1>1. Init => Proved!Init
  BY DEF Init, Cache!Init, Cache!Empty, Proved!Init, Proved!Empty
<1> QED BY <1>1, ProvedAssumptions, Proved!CacheInvInit

(***************************************************************************)
(* The inductive invariant: once a request has its answer, nothing moves   *)
(* its lookup any more, and it runs under that answer.                     *)
(***************************************************************************)
RequestInv ==
  /\ DOMAIN pc = Requests /\ DOMAIN attribute = Requests
  /\ DOMAIN stage = Requests /\ DOMAIN result = Requests /\ DOMAIN action = Requests
  /\ \A r \in Requests :
       pc[r] # "arrived" => stage[r] = "got" /\ attribute[r] = result[r]

WebInv == Proved!CacheInv /\ RequestInv

LEMMA WebInvInit == Init => WebInv
<1>1. Init => RequestInv
  BY DEF Init, Cache!Init, Unit!Init, RequestInv
<1> QED BY <1>1, CacheInit DEF WebInv

\* What a request does once its action runs touches neither its attribute
\* nor what the others have reached.
LEMMA RunKeepsAttribute ==
  ASSUME NEW r \in Requests, Run(r), DOMAIN pc = Requests
  PROVE  /\ attribute' = attribute
         /\ DOMAIN pc' = Requests
         /\ \A q \in Requests : pc[q] = "arrived" => pc'[q] = "arrived"
<1>1. CASE Unit!ActionStep(r)
  <2>1. UNCHANGED <<pc, attribute>>
    BY <1>1 DEF Unit!ActionStep, Unit!Save, Unit!SaveIdentity, Unit!Flush, Unit!FlushOutside,
                Unit!FlushThrows, Unit!ActionBegins, Unit!ActionCommits, Unit!ActionRollsBack,
                Unit!AddModelError, Unit!requestVars
  <2> QED BY <2>1
<1>2. CASE Unit!ActionEnds(r) \/ Unit!ClientAborts(r) \/ Unit!DisposeScope(r)
  BY <1>2 DEF Unit!ActionEnds, Unit!ClientAborts, Unit!DisposeScope
<1>3. CASE Unit!HandlerLeaves(r) \/ Unit!HandlerRollsBack(r) \/ Unit!HandlerCommits(r)
  BY <1>3 DEF Unit!HandlerLeaves, Unit!HandlerRollsBack, Unit!HandlerCommits
<1> QED BY <1>1, <1>2, <1>3 DEF Run

LEMMA WebInvStep == WebInv /\ [Next]_vars => WebInv'
<1> SUFFICES ASSUME WebInv, [Next]_vars PROVE RequestInv'
  BY CacheStep DEF WebInv
<1> USE DEF WebInv, RequestInv
<1>1. CASE UNCHANGED vars
  BY <1>1 DEF vars, cacheVars, unitVars
<1>2. ASSUME NEW r \in Requests, GetTransactionAttribute(r) PROVE RequestInv'
  <2>1. pc[r] = "arrived" /\ UNCHANGED <<pc, attribute>>
    BY <1>2 DEF GetTransactionAttribute, unitVars
  <2>2. /\ DOMAIN stage' = Requests /\ DOMAIN result' = Requests /\ DOMAIN action' = Requests
        /\ \A q \in Requests \ {r} : stage'[q] = stage[q] /\ result'[q] = result[q]
    BY <1>2 DEF GetTransactionAttribute, Cache!Ask, Cache!LookupStep, Cache!Hit, Cache!Miss,
         Cache!Acquire, Cache!Find, Cache!Add, Cache!Store, Cache!Leave
  <2> QED BY <2>1, <2>2
<1>3. ASSUME NEW r \in Requests, Begin(r) PROVE RequestInv'
  BY <1>3 DEF Begin, cacheVars, Unit!BeginWith, Unit!BeginFailsWith
<1>4. ASSUME NEW r \in Requests, Run(r) PROVE RequestInv'
  BY <1>4, RunKeepsAttribute DEF Run, cacheVars
<1> QED BY <1>1, <1>2, <1>3, <1>4 DEF Next

THEOREM WebInvariant == Spec => []WebInv
BY WebInvInit, WebInvStep, PTL DEF Spec

\* Every action runs under its own effective policy (GetTransactionAttribute
\* and OnActionExecutionAsync together).
THEOREM PolicyIsKept == Spec => []RunsUnderItsPolicy
<1>1. WebInv => RunsUnderItsPolicy
  BY DEF WebInv, RequestInv, RunsUnderItsPolicy, Proved!CacheInv, Proved!LookupInv,
         Proved!EffectivePolicy, Proved!Scopes, Cache!EffectivePolicy, Cache!Scopes
<1> QED BY <1>1, WebInvariant, PTL

=============================================================================
