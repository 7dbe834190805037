------------------------ MODULE AttributeCache_proofs -----------------------
(***************************************************************************)
(* The attribute cache is right for any number of requests, any actions    *)
(* and any placement of attributes, with or without stale first reads.     *)
(***************************************************************************)
EXTENDS AttributeCache, TransactionPolicy_proofs

\* Between lock and the closing brace.
Inside(r) == stage[r] \in {"finding", "adding", "storing", "leaving"}

(***************************************************************************)
(* The inductive invariant: one request at a time is inside the lock, so   *)
(* what it has read of the cache there is still true when it stores.       *)
(***************************************************************************)
LockInv == \A r \in Requests : Inside(r) <=> lock = r

EntriesRight == \A a \in DOMAIN cache : cache[a] = EffectivePolicy(a)

LookupInv(r) ==
  /\ stage[r] \in {"adding", "storing", "leaving", "got"} =>
       result[r] = EffectivePolicy(action[r])
  /\ stage[r] \in {"adding", "storing"} => action[r] \notin DOMAIN cache
  /\ stage[r] = "storing" => replacing[r] = With(cache, action[r], result[r])
  /\ stage[r] \in {"leaving", "got"} => action[r] \in DOMAIN cache

CacheInv ==
  /\ TypeOK
  /\ LockInv
  /\ EntriesRight
  /\ \A r \in Requests : LookupInv(r)

LEMMA CacheInvInit == Init => CacheInv
BY CacheAssumption DEF Init, CacheInv, TypeOK, Dictionary, Empty, Stages, LockInv, Inside,
                       EntriesRight, LookupInv

\* A step of the invariant, with the action of each line of the lookup.
LEMMA CacheInvStep == CacheInv /\ [Next]_vars => CacheInv'
<1> SUFFICES ASSUME CacheInv, [Next]_vars PROVE CacheInv'
  OBVIOUS
<1> USE DEF CacheInv
<1>1. CASE UNCHANGED vars
  BY <1>1 DEF vars, TypeOK, Dictionary, LockInv, Inside, EntriesRight, LookupInv
<1>2. ASSUME NEW r \in Requests, Ask(r) PROVE CacheInv'
  <2>1. TypeOK' /\ LockInv' /\ EntriesRight'
    BY <1>2 DEF Ask, TypeOK, Dictionary, Stages, LockInv, Inside, EntriesRight
  <2>2. \A q \in Requests : LookupInv(q)'
    BY <1>2 DEF Ask, TypeOK, LookupInv
  <2> QED BY <2>1, <2>2
<1>3. ASSUME NEW r \in Requests, Hit(r) PROVE CacheInv'
  <2>1. TypeOK' /\ LockInv' /\ EntriesRight'
    BY <1>3 DEF Hit, TypeOK, Dictionary, Stages, LockInv, Inside, EntriesRight
  <2>2. \A q \in Requests : LookupInv(q)'
    BY <1>3 DEF Hit, TypeOK, EntriesRight, LookupInv
  <2> QED BY <2>1, <2>2
<1>4. ASSUME NEW r \in Requests, Miss(r) PROVE CacheInv'
  <2>1. TypeOK' /\ LockInv' /\ EntriesRight'
    BY <1>4 DEF Miss, TypeOK, Dictionary, Stages, LockInv, Inside, EntriesRight
  <2>2. \A q \in Requests : LookupInv(q)'
    BY <1>4 DEF Miss, TypeOK, LookupInv
  <2> QED BY <2>1, <2>2
<1>5. ASSUME NEW r \in Requests, Acquire(r) PROVE CacheInv'
  <2>1. TypeOK' /\ LockInv' /\ EntriesRight'
    BY <1>5, CacheAssumption DEF Acquire, TypeOK, Dictionary, Stages, LockInv, Inside, EntriesRight
  <2>2. \A q \in Requests : LookupInv(q)'
    BY <1>5 DEF Acquire, TypeOK, LookupInv
  <2> QED BY <2>1, <2>2
<1>6. ASSUME NEW r \in Requests, Find(r) PROVE CacheInv'
  <2>1. EffectivePolicy(action[r]) \in Attributes \cup {NoAttribute}
    BY EffectivePolicyType DEF TypeOK
  <2>2. TypeOK' /\ LockInv' /\ EntriesRight'
    BY <1>6, <2>1 DEF Find, TypeOK, Dictionary, Stages, LockInv, Inside, EntriesRight
  <2>3. \A q \in Requests : LookupInv(q)'
    BY <1>6 DEF Find, TypeOK, LookupInv
  <2> QED BY <2>2, <2>3
<1>7. ASSUME NEW r \in Requests, Add(r) PROVE CacheInv'
  <2>1. Dictionary(With(cache, action[r], result[r]))
    BY DEF With, Dictionary, TypeOK
  <2>2. TypeOK'
    BY <1>7, <2>1 DEF Add, TypeOK, Stages, Dictionary
  <2>3. LockInv' /\ EntriesRight'
    BY <1>7 DEF Add, TypeOK, LockInv, Inside, EntriesRight
  <2>4. \A q \in Requests : LookupInv(q)'
    BY <1>7 DEF Add, TypeOK, LookupInv
  <2> QED BY <2>2, <2>3, <2>4
<1>8. ASSUME NEW r \in Requests, Store(r) PROVE CacheInv'
  <2>1. stage[r] = "storing" /\ cache' = With(cache, action[r], result[r])
    BY <1>8 DEF Store, LookupInv
  <2>2. DOMAIN cache' = DOMAIN cache \cup {action[r]}
    BY <2>1 DEF With
  <2>3. TypeOK'
    BY <1>8 DEF Store, TypeOK, Stages, Dictionary, Empty
  <2>4. LockInv'
    BY <1>8 DEF Store, TypeOK, LockInv, Inside
  <2>5. EntriesRight'
    BY <2>1, <2>2 DEF With, EntriesRight, LookupInv
  <2>6. ASSUME NEW q \in Requests PROVE LookupInv(q)'
    <3>1. CASE q = r
      BY <1>8, <2>1, <2>2, <3>1 DEF Store, TypeOK, LookupInv
    <3>2. CASE q # r
      <4>1. ~Inside(q)
        BY <2>1, <3>2 DEF LockInv, Inside
      <4> QED BY <1>8, <2>2, <3>2, <4>1 DEF Store, TypeOK, LookupInv, Inside
    <3> QED BY <3>1, <3>2
  <2> QED BY <2>3, <2>4, <2>5, <2>6
<1>9. ASSUME NEW r \in Requests, Leave(r) PROVE CacheInv'
  <2>1. TypeOK' /\ EntriesRight'
    BY <1>9 DEF Leave, TypeOK, Dictionary, Stages, EntriesRight
  <2>2. LockInv'
    BY <1>9, CacheAssumption DEF Leave, TypeOK, LockInv, Inside
  <2>3. \A q \in Requests : LookupInv(q)'
    BY <1>9 DEF Leave, TypeOK, LookupInv
  <2> QED BY <2>1, <2>2, <2>3
<1> QED
  BY <1>1, <1>2, <1>3, <1>4, <1>5, <1>6, <1>7, <1>8, <1>9 DEF Next, LookupStep

\* One request at a time is inside the lock, and what is cached is right.
THEOREM CacheInvariant == Spec => []CacheInv
BY CacheInvInit, CacheInvStep, PTL DEF Spec

\* The variables keep their types: the field always holds a dictionary of
\* attributes of actions of the application.
THEOREM CacheTypeCorrect == Spec => []TypeOK
<1>1. CacheInv => TypeOK
  BY DEF CacheInv
<1> QED BY <1>1, CacheInvariant, PTL

\* GetTransactionAttribute returns the effective policy to every request.
THEOREM AnswersAreRight == Spec => []AnswersRight
<1>1. CacheInv => AnswersRight
  BY DEF CacheInv, LookupInv, AnswersRight
<1> QED BY <1>1, CacheInvariant, PTL

\* Add never meets a dictionary that has the key already.
THEOREM AddIsSafe == Spec => []AddNeverThrows
<1>1. CacheInv => AddNeverThrows
  BY DEF CacheInv, LookupInv, AddNeverThrows
<1> QED BY <1>1, CacheInvariant, PTL

\* Whoever has an answer finds it in the cache, null answers included.
THEOREM AnswersStayCached == Spec => []AnswersAreKept
<1>1. CacheInv => AnswersAreKept
  BY DEF CacheInv, LookupInv, AnswersAreKept
<1> QED BY <1>1, CacheInvariant, PTL

\* No replacement of the dictionary loses or changes an entry.
THEOREM EntriesNeverLost == Spec => EntriesStay
<1>1. CacheInv /\ [Next]_vars
        => [\A a \in DOMAIN cache : a \in DOMAIN cache' /\ cache'[a] = cache[a]]_vars
  <2> SUFFICES ASSUME CacheInv, Next, NEW a \in DOMAIN cache
               PROVE  a \in DOMAIN cache' /\ cache'[a] = cache[a]
    OBVIOUS
  <2>1. ASSUME NEW r \in Requests, Store(r)
        PROVE  a \in DOMAIN cache' /\ cache'[a] = cache[a]
    <3>1. cache' = With(cache, action[r], result[r]) /\ action[r] \notin DOMAIN cache
      BY <2>1 DEF Store, CacheInv, LookupInv
    <3> QED BY <3>1 DEF With
  <2>2. ASSUME NEW r \in Requests, Ask(r) \/ (LookupStep(r) /\ ~Store(r))
        PROVE  UNCHANGED cache
    BY <2>2 DEF Ask, LookupStep, Hit, Miss, Acquire, Find, Add, Leave
  <2> QED BY <2>1, <2>2 DEF Next
<1> QED BY <1>1, CacheInvariant, PTL DEF Spec, EntriesStay

=============================================================================
