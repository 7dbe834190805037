---------------------------- MODULE SignatureCache --------------------------
(***************************************************************************)
(* TypePropertyDescriptorCache and its use by BaseObject: the process-wide *)
(* cache of the signature properties of each type.                         *)
(*                                                                         *)
(* GetSignatureProperties tries Find, which allocates no closure, and then *)
(* GetOrAdd of the ConcurrentDictionary: this looks again, calls the       *)
(* factory without a lock and adds what it made unless another thread has  *)
(* been faster, whose descriptor it then returns.  For a value object with *)
(* domain signatures the factory throws.  Every call of the factory makes  *)
(* a new object; an object nobody holds may be used again.                 *)
(***************************************************************************)
CONSTANTS
  Threads,
  Types,         \* types of domain objects
  Ambiguous,     \* value objects with properties marked DomainSignature
  Descriptors,   \* the objects a factory can make
  NoDescriptor   \* null

SignatureAssumption ==
  /\ Ambiguous \subseteq Types
  /\ NoDescriptor \notin Descriptors

VARIABLES
  cache,       \* _cache
  stage,       \* how far each thread is in GetSignatureProperties
  type,        \* the type each looks up
  descriptor,  \* what each has found or made
  overtaken,   \* Clear has been called since the lookup began (history)
  answers      \* descriptors of each type that lookups begun since the last Clear returned (history)

vars == <<cache, stage, type, descriptor, overtaken, answers>>

Idle == {"idle", "threw"}

TypeOK ==
  /\ cache \in [Types -> Descriptors \cup {NoDescriptor}]
  /\ stage \in [Threads -> Idle \cup {"find", "getOrAdd", "create", "add", "return"}]
  /\ type \in [Threads -> Types]
  /\ descriptor \in [Threads -> Descriptors \cup {NoDescriptor}]
  /\ overtaken \in [Threads -> BOOLEAN]
  /\ answers \in [Types -> SUBSET Descriptors]
  /\ \A t \in Threads : stage[t] \in {"add", "return"} <=> descriptor[t] # NoDescriptor

Init ==
  /\ cache = [x \in Types |-> NoDescriptor]
  /\ stage = [t \in Threads |-> "idle"]
  /\ type \in [Threads -> Types]
  /\ descriptor = [t \in Threads |-> NoDescriptor]
  /\ overtaken = [t \in Threads |-> FALSE]
  /\ answers = [x \in Types |-> {}]

GetSignatureProperties(t, x) ==
  /\ stage[t] \in Idle
  /\ stage' = [stage EXCEPT ![t] = "find"]
  /\ type' = [type EXCEPT ![t] = x]
  /\ overtaken' = [overtaken EXCEPT ![t] = FALSE]
  /\ UNCHANGED <<cache, descriptor, answers>>

\* A lookup in the dictionary; what is not there is looked for in stage next.
LookUp(t, next) ==
  /\ descriptor' = [descriptor EXCEPT ![t] = cache[type[t]]]
  /\ stage' = [stage EXCEPT ![t] = IF cache[type[t]] # NoDescriptor THEN "return" ELSE next]
  /\ UNCHANGED <<cache, type, overtaken, answers>>

Find(t) == stage[t] = "find" /\ LookUp(t, "getOrAdd")

GetOrAdd(t) == stage[t] = "getOrAdd" /\ LookUp(t, "create")

Held == {cache[x] : x \in Types} \cup {descriptor[t] : t \in Threads} \cup UNION {answers[x] : x \in Types}

\* A new object, as long as there is one (bound).
Room == Descriptors \ Held # {}
Fresh == CHOOSE d \in Descriptors : d \notin Held

\* Not the code: such a type gets an empty descriptor after it has thrown.
CreateAndRemember(t) ==
  /\ stage[t] = "create" /\ Room
  /\ IF type[t] \in Ambiguous
     THEN cache' = [cache EXCEPT ![type[t]] = Fresh] /\ UNCHANGED descriptor
     ELSE descriptor' = [descriptor EXCEPT ![t] = Fresh] /\ UNCHANGED cache
  /\ stage' = [stage EXCEPT ![t] = IF type[t] \in Ambiguous THEN "threw" ELSE "add"]
  /\ UNCHANGED <<type, overtaken, answers>>

Create(t) ==
  /\ stage[t] = "create" /\ Room
  /\ IF type[t] \in Ambiguous
     THEN stage' = [stage EXCEPT ![t] = "threw"] /\ UNCHANGED descriptor
     ELSE /\ descriptor' = [descriptor EXCEPT ![t] = Fresh]
          /\ stage' = [stage EXCEPT ![t] = "add"]
  /\ UNCHANGED <<cache, type, overtaken, answers>>

\* Not the code: the entry of a faster thread is replaced.
Replace(t) ==
  /\ stage[t] = "add"
  /\ cache' = [cache EXCEPT ![type[t]] = descriptor[t]]
  /\ stage' = [stage EXCEPT ![t] = "return"]
  /\ UNCHANGED <<type, descriptor, overtaken, answers>>

\* Not the code: what a thread has made is forgotten when another was faster.
TryAddOrNothing(t) ==
  /\ stage[t] = "add"
  /\ IF cache[type[t]] = NoDescriptor
     THEN cache' = [cache EXCEPT ![type[t]] = descriptor[t]] /\ UNCHANGED descriptor
     ELSE descriptor' = [descriptor EXCEPT ![t] = NoDescriptor] /\ UNCHANGED cache
  /\ stage' = [stage EXCEPT ![t] = "return"]
  /\ UNCHANGED <<type, overtaken, answers>>

TryAdd(t) ==
  /\ stage[t] = "add"
  /\ IF cache[type[t]] = NoDescriptor
     THEN cache' = [cache EXCEPT ![type[t]] = descriptor[t]] /\ UNCHANGED descriptor
     ELSE descriptor' = [descriptor EXCEPT ![t] = cache[type[t]]] /\ UNCHANGED cache
  /\ stage' = [stage EXCEPT ![t] = "return"]
  /\ UNCHANGED <<type, overtaken, answers>>

Return(t) ==
  /\ stage[t] = "return"
  /\ answers' = [answers EXCEPT ![type[t]] = IF overtaken[t] THEN @ ELSE @ \cup {descriptor[t]}]
  /\ stage' = [stage EXCEPT ![t] = "idle"]
  /\ descriptor' = [descriptor EXCEPT ![t] = NoDescriptor]
  /\ UNCHANGED <<cache, type, overtaken>>

\* Anyone who has the cache may clear it; BaseObject never does.
Clear ==
  /\ cache' = [x \in Types |-> NoDescriptor]
  /\ overtaken' = [t \in Threads |-> stage[t] \notin Idle]
  /\ answers' = [x \in Types |-> {}]
  /\ UNCHANGED <<stage, type, descriptor>>

Step(t) == Find(t) \/ GetOrAdd(t) \/ Create(t) \/ TryAdd(t) \/ Return(t)

Next ==
  \/ \E t \in Threads, x \in Types : GetSignatureProperties(t, x)
  \/ \E t \in Threads : Step(t)
  \/ Clear

Spec == Init /\ [][Next]_vars

(***************************************************************************)
(* Properties.                                                             *)
(***************************************************************************)
\* Of the threads that race to describe a type all return the same object,
\* as long as nobody clears the cache: signatures are compared property by
\* property of it.
OneDescriptorPerType == \A x \in Types : \A d, e \in answers[x] : d = e

\* A type whose signature is ambiguous is refused at every lookup, not only
\* at the first.
AmbiguousAlwaysRefused ==
  \A t \in Threads : type[t] \in Ambiguous => stage[t] # "return"
=============================================================================
