--------------------------- MODULE AttributeCache ---------------------------
(***************************************************************************)
(* ApplyTransactionFilterBase: the process-wide cache of the effective     *)
(* TransactionAttribute of each action.                                    *)
(*                                                                         *)
(* The cache is an immutable dictionary in a static field.  Requests read  *)
(* it without the lock; one that misses takes the lock, finds the policy   *)
(* and replaces the dictionary by one with the entry added, unless another *)
(* has been faster.  The field is not volatile, so the first read may      *)
(* yield an earlier dictionary that lacks the entry.  Null is a value of   *)
(* the cache like any other: it says that the action has no attribute.     *)
(***************************************************************************)
EXTENDS TransactionPolicy

CONSTANTS
  Requests,     \* requests that run concurrently
  NoRequest,    \* nobody holds the lock
  StaleReads    \* the processor may serve the first read from the past

ASSUME CacheAssumption ==
  /\ NoRequest \notin Requests
  /\ StaleReads \in BOOLEAN

VARIABLES
  cache,      \* _attributeCache: a function on the actions it has
  lock,       \* the request that holds _lock
  stage,      \* how far each request is in GetTransactionAttribute
  action,     \* the action each request is for
  result,     \* the local transactionAttribute
  replacing   \* the dictionary Add has built, about to be stored

vars == <<cache, lock, stage, action, result, replacing>>

Stages == {"idle", "reading", "waiting", "finding", "adding", "storing", "leaving", "got"}

\* Dictionaries of the code: each key has the value it was added with.
Dictionary(d) ==
  /\ DOMAIN d \subseteq Actions
  /\ \A a \in DOMAIN d : d[a] \in Attributes \cup {NoAttribute}

TypeOK ==
  /\ Dictionary(cache)
  /\ lock \in Requests \cup {NoRequest}
  /\ stage \in [Requests -> Stages]
  /\ action \in [Requests -> Actions]
  /\ result \in [Requests -> Attributes \cup {NoAttribute}]
  /\ DOMAIN replacing = Requests
  /\ \A r \in Requests : Dictionary(replacing[r])

Empty == [a \in {} |-> NoAttribute]

\* ImmutableDictionary.Add.
With(d, a, value) ==
  [b \in DOMAIN d \cup {a} |-> IF b = a THEN value ELSE d[b]]

Init ==
  /\ cache = Empty
  /\ lock = NoRequest
  /\ stage = [r \in Requests |-> "idle"]
  /\ action \in [Requests -> Actions]
  /\ result = [r \in Requests |-> NoAttribute]
  /\ replacing = [r \in Requests |-> Empty]

\* The filter asks for the attribute of the action it runs for.
Ask(r) ==
  /\ stage[r] \in {"idle", "got"}
  /\ \E a \in Actions : action' = [action EXCEPT ![r] = a]
  /\ stage' = [stage EXCEPT ![r] = "reading"]
  /\ UNCHANGED <<cache, lock, result, replacing>>

\* TryGetValue outside the lock finds an entry.
Hit(r) ==
  /\ stage[r] = "reading"
  /\ action[r] \in DOMAIN cache
  /\ result' = [result EXCEPT ![r] = cache[action[r]]]
  /\ stage' = [stage EXCEPT ![r] = "got"]
  /\ UNCHANGED <<cache, lock, action, replacing>>

Miss(r) ==
  /\ stage[r] = "reading"
  /\ action[r] \notin DOMAIN cache \/ StaleReads
  /\ stage' = [stage EXCEPT ![r] = "waiting"]
  /\ UNCHANGED <<cache, lock, action, result, replacing>>

\* Not the code: the critical section without its lock.
AcquireNothing(r) ==
  /\ stage[r] = "waiting"
  /\ lock' = r
  /\ stage' = [stage EXCEPT ![r] = "finding"]
  /\ UNCHANGED <<cache, action, result, replacing>>

Acquire(r) ==
  /\ stage[r] = "waiting"
  /\ lock = NoRequest
  /\ lock' = r
  /\ stage' = [stage EXCEPT ![r] = "finding"]
  /\ UNCHANGED <<cache, action, result, replacing>>

\* Not the code: a missing policy ends the search without an entry.
FindNonNull(r) ==
  /\ stage[r] = "finding"
  /\ result' = [result EXCEPT ![r] = EffectivePolicy(action[r])]
  /\ stage' = [stage EXCEPT ![r] =
                 IF action[r] \in DOMAIN cache \/ EffectivePolicy(action[r]) = NoAttribute
                   THEN "leaving" ELSE "adding"]
  /\ UNCHANGED <<cache, lock, action, replacing>>

\* FindEffectivePolicy, then ContainsKey on the dictionary of this moment.
Find(r) ==
  /\ stage[r] = "finding"
  /\ result' = [result EXCEPT ![r] = EffectivePolicy(action[r])]
  /\ stage' = [stage EXCEPT ![r] =
                 IF action[r] \in DOMAIN cache THEN "leaving" ELSE "adding"]
  /\ UNCHANGED <<cache, lock, action, replacing>>

\* Not the code: an action without attribute is cached with a default one.
AddDefaulted(r) ==
  /\ stage[r] = "adding"
  /\ replacing' = [replacing EXCEPT ![r] =
       With(cache, action[r],
            IF result[r] = NoAttribute
              THEN [isolation |-> "Unspecified", rollbackOnInvalid |-> TRUE]
              ELSE result[r])]
  /\ stage' = [stage EXCEPT ![r] = "storing"]
  /\ UNCHANGED <<cache, lock, action, result>>

\* Add reads the field once more and builds the new dictionary ...
Add(r) ==
  /\ stage[r] = "adding"
  /\ replacing' = [replacing EXCEPT ![r] = With(cache, action[r], result[r])]
  /\ stage' = [stage EXCEPT ![r] = "storing"]
  /\ UNCHANGED <<cache, lock, action, result>>

\* ... which the assignment then puts into the field.
Store(r) ==
  /\ stage[r] = "storing"
  /\ cache' = replacing[r]
  /\ replacing' = [replacing EXCEPT ![r] = Empty]
  /\ stage' = [stage EXCEPT ![r] = "leaving"]
  /\ UNCHANGED <<lock, action, result>>

Leave(r) ==
  /\ stage[r] = "leaving"
  /\ lock' = NoRequest
  /\ stage' = [stage EXCEPT ![r] = "got"]
  /\ UNCHANGED <<cache, action, result, replacing>>

\* GetTransactionAttribute after the call and up to its return.
LookupStep(r) ==
  \/ Hit(r)
  \/ Miss(r)
  \/ Acquire(r)
  \/ Find(r)
  \/ Add(r)
  \/ Store(r)
  \/ Leave(r)

Next == \E r \in Requests : Ask(r) \/ LookupStep(r)

Spec == Init /\ [][Next]_vars

\* The requests' threads run.  Weak fairness is enough where reads are not
\* stale: each action enters the cache once, after which nobody takes the lock
\* for it, so those who wait for the lock get it.
FairSpec == Spec /\ \A r \in Requests : WF_vars(LookupStep(r))

(***************************************************************************)
(* What must hold.                                                         *)
(***************************************************************************)
\* Whoever asks gets the effective policy of its action, from the cache or
\* not, and null only where there is no attribute.
AnswersRight ==
  \A r \in Requests :
    stage[r] = "got" => result[r] = EffectivePolicy(action[r])

\* An entry once cached stays, with its value: no concurrent addition is lost
\* between reading the dictionary and storing its successor.
EntriesStay ==
  [][\A a \in DOMAIN cache : a \in DOMAIN cache' /\ cache'[a] = cache[a]]_vars

\* Add meets a dictionary that lacks the key, so it never throws.
AddNeverThrows ==
  \A r \in Requests : stage[r] = "adding" => action[r] \notin DOMAIN cache

\* A request that has been through the lock leaves its answer in the cache,
\* the null answer included: later requests need the lock no more.
AnswersAreKept ==
  \A r \in Requests : stage[r] = "got" => action[r] \in DOMAIN cache

\* Every request gets its answer, although Monitor promises no fairness.
EveryLookupEnds ==
  \A r \in Requests : stage[r] = "reading" ~> stage[r] = "got"

=============================================================================
