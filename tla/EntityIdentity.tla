--------------------------- MODULE EntityIdentity ---------------------------
(***************************************************************************)
(* Equality and hash codes of entities over their life: created transient, *)
(* compared and hashed, put into a hash set, saved (an id arrives), loaded *)
(* again by other sessions as further objects or behind lazy proxies.      *)
(*                                                                         *)
(* A proxy forwards every virtual call to its target, so the code of an    *)
(* entity always runs on the target, while the reference handed to it as   *)
(* the other entity may be a proxy.  Hash codes are free of collisions: a  *)
(* code is the kind of data it was computed from, the class, and the data. *)
(***************************************************************************)
EXTENDS FiniteSets

CONSTANTS
  Objects,     \* entity instances
  Proxies,     \* lazy proxies the sessions make
  Types,       \* entity classes
  SignedTypes, \* those with a property marked as domain signature
  Ids,         \* ids the database gives out
  NoId,        \* default(TId)
  Values,      \* values of the signature properties
  None         \* no object yet, no hash code computed

ASSUME EntityAssumption ==
  /\ SignedTypes \subseteq Types
  /\ Objects \cap Proxies = {}
  /\ NoId \notin Ids

VARIABLES
  type,      \* the class of each object; None before it is created
  id,        \* Id
  value,     \* the values of its signature properties
  cached,    \* _cachedHashcode
  target,    \* the object behind each proxy
  rows,      \* the database: type and id of each row
  loaded,    \* the objects that came from the database (history)
  set        \* a hash set: each member with the hash code it was put under

vars == <<type, id, value, cached, target, rows, loaded, set>>

References == Objects \cup Proxies

HashCodes == {"reference", "signature", "id"} \X Types \X (Objects \cup Values \cup Ids)

ASSUME NoneAssumption == None \notin Objects \cup Types \cup HashCodes

TypeOK ==
  /\ type \in [Objects -> Types \cup {None}]
  /\ id \in [Objects -> Ids \cup {NoId}]
  /\ value \in [Objects -> Values]
  /\ cached \in [Objects -> HashCodes \cup {None}]
  /\ target \in [Proxies -> Objects \cup {None}]
  /\ rows \subseteq Types \X Ids
  /\ loaded \subseteq Objects
  /\ set \subseteq References \X HashCodes

(***************************************************************************)
(* Equality.                                                               *)
(***************************************************************************)
Target(r) == IF r \in Proxies THEN target[r] ELSE r

\* References the program holds.
Live(r) == IF r \in Proxies THEN target[r] # None ELSE type[r] # None

IsTransient(o) == id[o] = NoId

HasSameNonDefaultIdAs(a, b) == ~IsTransient(a) /\ ~IsTransient(b) /\ id[a] = id[b]

\* Without signature properties this is the reference equality of object,
\* which the caller has ruled out.
HasSameObjectSignatureAs(a, b) == type[a] \in SignedTypes /\ value[a] = value[b]

\* Not the code: signatures are compared whatever the ids are.
EqualsBySignature(p, q) ==
  LET a == Target(p)
      b == Target(q)
  IN \/ a = q
     \/ type[a] = type[b] /\ (HasSameNonDefaultIdAs(a, b) \/ HasSameObjectSignatureAs(a, b))

\* Not the code: the type of the other entity is not unproxied.
EqualsProxied(p, q) ==
  LET a == Target(p)
      b == Target(q)
  IN \/ a = q
     \/ /\ q \notin Proxies
        /\ type[a] = type[b]
        /\ \/ HasSameNonDefaultIdAs(a, b)
           \/ IsTransient(a) /\ IsTransient(b) /\ HasSameObjectSignatureAs(a, b)

Equals(p, q) ==
  LET a == Target(p)
      b == Target(q)
  IN \/ a = q
     \/ /\ type[a] = type[b]
        /\ \/ HasSameNonDefaultIdAs(a, b)
           \/ IsTransient(a) /\ IsTransient(b) /\ HasSameObjectSignatureAs(a, b)

(***************************************************************************)
(* Hash codes.                                                             *)
(***************************************************************************)
\* BaseObject.GetHashCode.
SignatureHash(o) ==
  IF type[o] \in SignedTypes THEN <<"signature", type[o], value[o]>> ELSE <<"reference", type[o], o>>

\* Not the code: nothing is cached.
FreshHashCode(o) ==
  IF IsTransient(o) THEN SignatureHash(o) ELSE <<"id", type[o], id[o]>>

\* Not the code: persistent entities are hashed by their signature too.
HashCodeOfSignature(o) ==
  IF cached[o] # None THEN cached[o] ELSE SignatureHash(o)

\* Not the code: the test for transient is the wrong way round.
HashCodeInverted(o) ==
  IF cached[o] # None THEN cached[o]
  ELSE IF ~IsTransient(o) THEN SignatureHash(o)
  ELSE <<"id", type[o], id[o]>>

\* Computed once, from the id or, while there is none, from the signature.
GetHashCode(o) ==
  IF cached[o] # None THEN cached[o]
  ELSE IF IsTransient(o) THEN SignatureHash(o)
  ELSE <<"id", type[o], id[o]>>

\* HashSet.Contains: a member put under the same code that is equal.
Contains(r) ==
  \E m \in set : m[2] = GetHashCode(Target(r)) /\ Equals(m[1], r)

(***************************************************************************)
(* The program and its sessions.                                           *)
(***************************************************************************)
Init ==
  /\ type = [o \in Objects |-> None]
  /\ id = [o \in Objects |-> NoId]
  /\ value \in [Objects -> Values]
  /\ cached = [o \in Objects |-> None]
  /\ target = [p \in Proxies |-> None]
  /\ rows = {}
  /\ loaded = {}
  /\ set = {}

\* new Entity().
Create(o) ==
  /\ type[o] = None
  /\ \E t \in Types : type' = [type EXCEPT ![o] = t]
  /\ UNCHANGED <<id, value, cached, target, rows, loaded, set>>

\* The program sets a signature property.
Change(o) ==
  /\ type[o] # None
  /\ \E v \in Values : value' = [value EXCEPT ![o] = v]
  /\ UNCHANGED <<type, id, cached, target, rows, loaded, set>>

\* The session saves a transient entity and assigns the id.
Save(o) ==
  /\ type[o] # None
  /\ IsTransient(o)
  /\ \E i \in Ids :
       /\ <<type[o], i>> \notin rows
       /\ id' = [id EXCEPT ![o] = i]
       /\ rows' = rows \cup {<<type[o], i>>}
  /\ UNCHANGED <<type, value, cached, target, loaded, set>>

\* Another session loads a row into an object of its own; what it reads is
\* what the last flush wrote, not what this program holds.
Load(o) ==
  /\ type[o] = None
  /\ \E row \in rows :
       /\ type' = [type EXCEPT ![o] = row[1]]
       /\ id' = [id EXCEPT ![o] = row[2]]
  /\ loaded' = loaded \cup {o}
  /\ UNCHANGED <<value, cached, target, rows, set>>

\* A session hands out a proxy for a persistent object it has.
Proxy(p) ==
  /\ target[p] = None
  /\ \E o \in Objects :
       /\ type[o] # None
       /\ ~IsTransient(o)
       /\ target' = [target EXCEPT ![p] = o]
  /\ UNCHANGED <<type, id, value, cached, rows, loaded, set>>

Hash(r) ==
  /\ Live(r)
  /\ cached' = [cached EXCEPT ![Target(r)] = GetHashCode(Target(r))]
  /\ UNCHANGED <<type, id, value, target, rows, loaded, set>>

\* HashSet.Add computes the code, compares with the members under it, and
\* adds the reference when none is equal.
AddToSet(r) ==
  /\ Live(r)
  /\ cached' = [cached EXCEPT ![Target(r)] = GetHashCode(Target(r))]
  /\ set' = IF Contains(r) THEN set ELSE set \cup {<<r, GetHashCode(Target(r))>>}
  /\ UNCHANGED <<type, id, value, target, rows, loaded>>

Next ==
  \/ \E o \in Objects : Create(o) \/ Change(o) \/ Save(o) \/ Load(o)
  \/ \E p \in Proxies : Proxy(p)
  \/ \E r \in References : Hash(r) \/ AddToSet(r)

Spec == Init /\ [][Next]_vars

(***************************************************************************)
(* Properties.                                                             *)
(***************************************************************************)
\* Equality is an equivalence on everything the program holds, proxies and
\* objects, transient and persistent, with and without a signature.
EqualityIsEquivalence ==
  /\ \A p \in References : Live(p) => Equals(p, p)
  /\ \A p, q \in References : Live(p) /\ Live(q) /\ Equals(p, q) => Equals(q, p)
  /\ \A p, q, r \in References :
       Live(p) /\ Live(q) /\ Live(r) /\ Equals(p, q) /\ Equals(q, r) => Equals(p, r)

\* A member of a hash set is found again after its id has arrived and after
\* its signature has changed.
MembersStayFindable == \A m \in set : Contains(m[1])

\* A hash set holds one of the objects sessions loaded from a row, or of
\* their proxies, however the signatures of the copies differ.
LoadedMembersDistinct ==
  \A m, n \in set :
    Target(m[1]) \in loaded /\ Target(n[1]) \in loaded /\ Equals(m[1], n[1]) => m = n

\* The three above, by which collections and sessions recognise an entity
\* (Entity.Equals, Entity.GetHashCode).
EntitiesAreIdentified ==
  TypeOK /\ EqualityIsEquivalence /\ MembersStayFindable /\ LoadedMembersDistinct

\* Persistent entities that are equal stay equal: what the program does to
\* the signature of one of them does not separate them.
IdentityIsStable ==
  [][\A p, q \in References :
       Live(p) /\ Live(q) /\ ~IsTransient(Target(p)) /\ ~IsTransient(Target(q))
         => (Equals(p, q) <=> Equals(p, q)')]_vars
=============================================================================
