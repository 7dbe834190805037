------------------------- MODULE Persistence_proofs -------------------------
(***************************************************************************)
(* What is proved of the parts of Persistence, for any number of objects,  *)
(* rows, scopes and what else its constants name; each part first by       *)
(* itself, then as the composition moves it.                               *)
(***************************************************************************)
EXTENDS Persistence, FiniteSetTheorems, SequenceTheorems, TLAPS

(***************************************************************************)
(* EntityIdentity: equality is an equivalence and hash sets of entities    *)
(* keep working.                                                           *)
(*                                                                         *)
(* The inductive invariant.  A hash code never changes once computed, so a *)
(* member still has the code it was put under; an object from the database *)
(* has had its id from the start, so its code can only come from the id.   *)
(***************************************************************************)
Persistent(o) == type[o] # None /\ id[o] # NoId

LifeInv ==
  /\ \A p \in Proxies : target[p] # None => Persistent(target[p])
  /\ \A o \in Objects : type[o] = None => id[o] = NoId /\ cached[o] = None
  /\ \A o \in loaded : Persistent(o) /\ cached[o] \in {None, <<"id", type[o], id[o]>>}

MembersInv == \A m \in set : Live(m[1]) /\ cached[Target(m[1])] = m[2]

IdentityInv == TypeOK /\ LifeInv /\ MembersInv /\ LoadedMembersDistinct

\* What equality comes to for what the program holds.
Same(a, b) ==
  \/ a = b
  \/ /\ type[a] = type[b]
     /\ id[a] = id[b]
     /\ id[a] = NoId => type[a] \in SignedTypes /\ value[a] = value[b]

LEMMA LiveTarget ==
  ASSUME TypeOK, NEW r \in References, Live(r)
  PROVE  Target(r) \in Objects /\ (r \in Objects => Target(r) = r)
BY EntityAssumption, NoneAssumption DEF TypeOK, References, Live, Target

LEMMA LiveType ==
  ASSUME TypeOK, LifeInv, NEW r \in References, Live(r)
  PROVE  type[Target(r)] # None
BY EntityAssumption DEF TypeOK, LifeInv, Persistent, References, Live, Target

LEMMA EqualsMeansSame ==
  ASSUME TypeOK, LifeInv, NEW p \in References, NEW q \in References, Live(p), Live(q)
  PROVE  Equals(p, q) <=> Same(Target(p), Target(q))
<1> DEFINE a == Target(p)
           b == Target(q)
<1>1. a \in Objects /\ b \in Objects
  BY LiveTarget
<1>2. a = q => a = b
  BY LiveTarget, <1>1
<1>3. a = b => a = q \/ id[a] # NoId
  <2>1. CASE q \in Objects
    BY <2>1, LiveTarget
  <2>2. CASE q \in Proxies
    BY <2>2 DEF LifeInv, Persistent, Live, Target
  <2> QED BY <2>1, <2>2 DEF References
<1>4. Equals(p, q) <=> (a = q \/ (type[a] = type[b] /\
        ((id[a] # NoId /\ id[b] # NoId /\ id[a] = id[b])
          \/ (id[a] = NoId /\ id[b] = NoId /\ type[a] \in SignedTypes /\ value[a] = value[b]))))
  BY DEF Equals, HasSameNonDefaultIdAs, IsTransient, HasSameObjectSignatureAs
<1> QED BY <1>2, <1>3, <1>4 DEF Same

\* The same as one formula, which holds after a step as well.
EqualsSame ==
  \A p, q \in References : Live(p) /\ Live(q) => (Equals(p, q) <=> Same(Target(p), Target(q)))

LEMMA EqualsSameNow == TypeOK /\ LifeInv => EqualsSame
BY EqualsMeansSame DEF EqualsSame

LEMMA EqualsSameNext == TypeOK' /\ LifeInv' => EqualsSame'
BY EqualsSameNow, PTL

\* The three laws, from what equality comes to.
LEMMA SameIsEquivalence == TypeOK /\ LifeInv => EqualityIsEquivalence
<1> SUFFICES ASSUME TypeOK, LifeInv PROVE EqualityIsEquivalence
  OBVIOUS
<1>1. ASSUME NEW p \in References, Live(p) PROVE Equals(p, p)
  BY <1>1, EqualsMeansSame DEF Same
<1>2. ASSUME NEW p \in References, NEW q \in References, Live(p), Live(q), Equals(p, q)
      PROVE  Equals(q, p)
  <2>1. Same(Target(p), Target(q))
    BY <1>2, EqualsMeansSame
  <2>2. Same(Target(q), Target(p))
    BY <2>1 DEF Same
  <2> QED BY <1>2, <2>2, EqualsMeansSame
<1>3. ASSUME NEW p \in References, NEW q \in References, NEW r \in References,
             Live(p), Live(q), Live(r), Equals(p, q), Equals(q, r)
      PROVE  Equals(p, r)
  <2>1. Same(Target(p), Target(q)) /\ Same(Target(q), Target(r))
    BY <1>3, EqualsMeansSame
  <2>2. Same(Target(p), Target(r))
    BY <2>1 DEF Same
  <2> QED BY <1>3, <2>2, EqualsMeansSame
<1> QED BY <1>1, <1>2, <1>3 DEF EqualityIsEquivalence

LEMMA IdentityInit == Init => IdentityInv
BY NoneAssumption, EntityAssumption
   DEF Init, IdentityInv, TypeOK, LifeInv, MembersInv, LoadedMembersDistinct, Live

\* A code that GetHashCode computes is well-formed, is the cached one if
\* there is one, and comes from the id for an object of the database.
LEMMA HashCodeType ==
  ASSUME TypeOK, LifeInv, NEW o \in Objects, type[o] # None
  PROVE  /\ GetHashCode(o) \in HashCodes
         /\ cached[o] # None => GetHashCode(o) = cached[o]
         /\ o \in loaded => GetHashCode(o) = <<"id", type[o], id[o]>>
<1>1. type[o] \in Types /\ id[o] \in Ids \cup {NoId} /\ value[o] \in Values
  BY DEF TypeOK
<1>2. cached[o] \in HashCodes \cup {None}
  BY DEF TypeOK
<1>3. CASE cached[o] # None
  BY <1>2, <1>3 DEF GetHashCode, LifeInv
<1>4. CASE cached[o] = None /\ id[o] = NoId
  BY <1>1, <1>4 DEF GetHashCode, IsTransient, SignatureHash, LifeInv, HashCodes, Persistent
<1>5. CASE cached[o] = None /\ id[o] # NoId
  BY <1>1, <1>5 DEF GetHashCode, IsTransient, LifeInv, HashCodes, Persistent
<1> QED BY <1>3, <1>4, <1>5

\* The members and what they equal do not notice a step that touches only
\* objects in none of them, signatures, or codes not computed yet.
LEMMA MembersUndisturbed ==
  ASSUME IdentityInv, TypeOK', LifeInv', set' = set,
         \A r \in References : Live(r) => Live(r)' /\ Target(r)' = Target(r),
         \A m \in set : cached'[Target(m[1])] = cached[Target(m[1])],
         \A o \in loaded : type'[o] = type[o] /\ id'[o] = id[o],
         \A m \in set : Target(m[1]) \in loaded' => Target(m[1]) \in loaded
  PROVE  MembersInv' /\ LoadedMembersDistinct'
<1> USE DEF IdentityInv
<1>1. \A m \in set : m[1] \in References /\ Live(m[1]) /\ Live(m[1])' /\ Target(m[1])' = Target(m[1])
  BY DEF TypeOK, MembersInv
<1>2. MembersInv'
  BY <1>1 DEF MembersInv
<1>3. ASSUME NEW m \in set, NEW n \in set, Target(m[1])' \in loaded', Target(n[1])' \in loaded',
             Equals(m[1], n[1])'
      PROVE  m = n
  <2> DEFINE a == Target(m[1])
             b == Target(n[1])
  <2>1. a \in loaded /\ b \in loaded
    BY <1>1, <1>3
  <2>2. EqualsSame'
    BY EqualsSameNext
  <2>3. a = b \/ (type'[a] = type'[b] /\ id'[a] = id'[b])
    BY <1>1, <1>3, <2>2 DEF EqualsSame, Same
  <2>4. a = b \/ (type[a] = type[b] /\ id[a] = id[b])
    BY <2>1, <2>3
  <2>5. id[a] # NoId
    BY <2>1 DEF LifeInv, Persistent
  <2>6. Same(a, b)
    BY <2>4, <2>5 DEF Same
  <2> QED BY <2>1, <2>6, <1>1, EqualsMeansSame DEF LoadedMembersDistinct
<1> QED BY <1>1, <1>2, <1>3 DEF LoadedMembersDistinct

\* One step of the invariant for each action.
LEMMA IdentityStep == IdentityInv /\ [Next]_vars => IdentityInv'
<1> SUFFICES ASSUME IdentityInv, [Next]_vars PROVE IdentityInv'
  OBVIOUS
<1> USE DEF IdentityInv
<1> USE EntityAssumption, NoneAssumption
<1>1. CASE UNCHANGED vars
  <2>1. TypeOK' /\ LifeInv'
    BY <1>1 DEF vars, TypeOK, LifeInv, Persistent
  <2>2. MembersInv' /\ LoadedMembersDistinct'
    BY <1>1, <2>1, MembersUndisturbed DEF vars, Live, Target
  <2> QED BY <2>1, <2>2
<1>2. ASSUME NEW o \in Objects, Create(o) PROVE IdentityInv'
  <2>1. TypeOK'
    BY <1>2 DEF Create, TypeOK
  <2>2. LifeInv'
    BY <1>2 DEF Create, TypeOK, LifeInv, Persistent
  <2>3. \A r \in References : Live(r) => Live(r)' /\ Target(r)' = Target(r)
    BY <1>2 DEF Create, TypeOK, References, Live, Target
  <2>4. \A x \in loaded : type'[x] = type[x]
    BY <1>2 DEF Create, TypeOK, LifeInv, Persistent
  <2>5. \A m \in set : Target(m[1])' = Target(m[1])
    BY <1>2 DEF Create, Target
  <2> QED BY <1>2, <2>1, <2>2, <2>3, <2>4, <2>5, MembersUndisturbed DEF Create
<1>3. ASSUME NEW o \in Objects, Change(o) PROVE IdentityInv'
  <2>1. TypeOK' /\ LifeInv'
    BY <1>3 DEF Change, TypeOK, LifeInv, Persistent
  <2>2. \A r \in References : Live(r) => Live(r)' /\ Target(r)' = Target(r)
    BY <1>3 DEF Change, Live, Target
  <2>3. \A m \in set : Target(m[1])' = Target(m[1])
    BY <1>3 DEF Change, Target
  <2> QED BY <1>3, <2>1, <2>2, <2>3, MembersUndisturbed DEF Change
<1>4. ASSUME NEW o \in Objects, Save(o) PROVE IdentityInv'
  <2>1. TypeOK'
    BY <1>4 DEF Save, TypeOK
  <2>2. o \notin loaded
    BY <1>4 DEF Save, IsTransient, LifeInv, Persistent
  <2>3. LifeInv'
    BY <1>4, <2>2 DEF Save, TypeOK, LifeInv, Persistent
  <2>4. \A r \in References : Live(r) => Live(r)' /\ Target(r)' = Target(r)
    BY <1>4 DEF Save, Live, Target
  <2>5. \A x \in loaded : id'[x] = id[x]
    BY <1>4, <2>2 DEF Save, TypeOK
  <2>6. \A m \in set : Target(m[1])' = Target(m[1])
    BY <1>4 DEF Save, Target
  <2> QED BY <1>4, <2>1, <2>3, <2>4, <2>5, <2>6, MembersUndisturbed DEF Save
<1>5. ASSUME NEW o \in Objects, Load(o) PROVE IdentityInv'
  <2>1. TypeOK'
    BY <1>5 DEF Load, TypeOK
  <2>2. type[o] = None /\ o \notin loaded /\ cached[o] = None
    BY <1>5 DEF Load, LifeInv, Persistent
  <2>3. LifeInv'
    BY <1>5, <2>2 DEF Load, TypeOK, LifeInv, Persistent
  <2>4. \A r \in References : Live(r) => Live(r)' /\ Target(r)' = Target(r)
    BY <1>5 DEF Load, TypeOK, References, Live, Target
  <2>5. \A x \in loaded : type'[x] = type[x] /\ id'[x] = id[x]
    BY <1>5, <2>2 DEF Load, TypeOK
  <2>6. \A m \in set : Target(m[1])' = Target(m[1])
    BY <1>5 DEF Load, Target
  <2>7. \A m \in set : Target(m[1]) # o
    BY <2>2, LiveType DEF MembersInv, TypeOK
  <2> QED BY <1>5, <2>1, <2>3, <2>4, <2>5, <2>6, <2>7, MembersUndisturbed DEF Load
<1>6. ASSUME NEW p \in Proxies, Proxy(p) PROVE IdentityInv'
  <2>1. TypeOK'
    BY <1>6 DEF Proxy, TypeOK
  <2>2. LifeInv'
    BY <1>6 DEF Proxy, TypeOK, LifeInv, Persistent, IsTransient
  <2>3. \A r \in References : Live(r) => Live(r)' /\ Target(r)' = Target(r)
    BY <1>6 DEF Proxy, TypeOK, References, Live, Target
  <2>4. \A m \in set : Target(m[1]) \in loaded' => Target(m[1]) \in loaded
    BY <1>6 DEF Proxy
  <2> QED BY <1>6, <2>1, <2>2, <2>3, <2>4, MembersUndisturbed DEF Proxy
<1>7. ASSUME NEW r \in References, Hash(r) PROVE IdentityInv'
  <2> DEFINE o == Target(r)
  <2>1. o \in Objects /\ type[o] # None
    BY <1>7, LiveTarget, LiveType DEF Hash
  <2>2. /\ GetHashCode(o) \in HashCodes
        /\ cached[o] # None => GetHashCode(o) = cached[o]
        /\ o \in loaded => GetHashCode(o) = <<"id", type[o], id[o]>>
    BY <2>1, HashCodeType
  <2>3. /\ cached' = [cached EXCEPT ![o] = GetHashCode(o)]
        /\ UNCHANGED <<type, id, value, target, rows, loaded, set>>
    BY <1>7 DEF Hash
  <2> HIDE DEF o
  <2>4. TypeOK'
    BY <2>1, <2>2, <2>3 DEF TypeOK
  <2>5. LifeInv'
    BY <2>1, <2>2, <2>3 DEF TypeOK, LifeInv, Persistent
  <2>6. \A m \in set : cached'[Target(m[1])] = cached[Target(m[1])]
    BY <2>2, <2>3 DEF MembersInv, TypeOK
  <2>7. \A q \in References : Live(q) => Live(q)' /\ Target(q)' = Target(q)
    BY <1>7 DEF Hash, Live, Target
  <2>8. \A m \in set : Target(m[1])' = Target(m[1])
    BY <1>7 DEF Hash, Target
  <2> QED BY <1>7, <2>4, <2>5, <2>6, <2>7, <2>8, MembersUndisturbed DEF Hash
<1>8. ASSUME NEW r \in References, AddToSet(r) PROVE IdentityInv'
  <2> DEFINE o == Target(r)
             h == GetHashCode(o)
  <2>1. o \in Objects /\ type[o] # None
    BY <1>8, LiveTarget, LiveType DEF AddToSet
  <2>2. /\ h \in HashCodes
        /\ cached[o] # None => h = cached[o]
        /\ o \in loaded => h = <<"id", type[o], id[o]>>
    BY <2>1, HashCodeType
  <2>3. \A q \in References : (Live(q) <=> Live(q)') /\ Target(q)' = Target(q)
    BY <1>8 DEF AddToSet, Live, Target
  <2>4. \A m \in set : Target(m[1])' = Target(m[1]) /\ m[1] \in References
    BY <1>8 DEF AddToSet, Target, TypeOK
  <2>5. /\ cached' = [cached EXCEPT ![o] = h]
        /\ set' \in {set, set \cup {<<r, h>>}}
        /\ set' # set => ~ \E m \in set : m[2] = h /\ Equals(m[1], r)
        /\ Live(r)
        /\ UNCHANGED <<type, id, value, target, rows, loaded>>
    BY <1>8 DEF AddToSet, Contains
  <2>6. o = Target(r)
    OBVIOUS
  <2> HIDE DEF o, h
  <2>7. TypeOK'
    BY <2>1, <2>2, <2>5 DEF TypeOK
  <2>8. LifeInv'
    BY <2>1, <2>2, <2>5 DEF TypeOK, LifeInv, Persistent
  <2>9. \A m \in set : cached'[Target(m[1])] = cached[Target(m[1])]
    BY <2>2, <2>5 DEF MembersInv, TypeOK
  <2>10. CASE set' = set
    BY <2>3, <2>4, <2>5, <2>7, <2>8, <2>9, <2>10, MembersUndisturbed
  <2>11. CASE set' # set
    <3>1. set' = set \cup {<<r, h>>}
      BY <2>5, <2>11
    <3>2. cached'[o] = h
      BY <2>1, <2>5 DEF TypeOK
    <3>3. MembersInv'
      BY <2>3, <2>4, <2>5, <2>6, <2>9, <3>1, <3>2 DEF MembersInv
    <3>4. EqualsSame /\ EqualsSame'
      BY <2>7, <2>8, EqualsSameNow, EqualsSameNext
    <3>5. \A p, q \in References : Live(p) /\ Live(q) => (Equals(p, q)' <=> Equals(p, q))
      BY <2>3, <2>5, <3>4 DEF EqualsSame, Same
    <3>6. ASSUME NEW m \in set, Target(m[1]) \in loaded, o \in loaded,
                 Equals(m[1], r) \/ Equals(r, m[1])
          PROVE  FALSE
      <4>1. Live(m[1]) /\ cached[Target(m[1])] = m[2] /\ m[2] \in HashCodes
        BY <2>4 DEF MembersInv, TypeOK
      <4>2. m[2] = <<"id", type[Target(m[1])], id[Target(m[1])]>>
        BY <3>6, <4>1 DEF LifeInv
      <4>3. Same(Target(m[1]), o) \/ Same(o, Target(m[1]))
        BY <2>4, <2>5, <2>6, <3>4, <3>6, <4>1 DEF EqualsSame
      <4>4. m[2] = h
        BY <2>2, <3>6, <4>2, <4>3 DEF Same
      <4>5. Equals(m[1], r)
        BY <2>4, <2>5, <3>6, <4>1, SameIsEquivalence DEF EqualityIsEquivalence
      <4> QED BY <2>5, <2>11, <4>4, <4>5
    <3>7. LoadedMembersDistinct'
      <4> SUFFICES ASSUME NEW m \in set', NEW n \in set', Target(m[1])' \in loaded',
                          Target(n[1])' \in loaded', Equals(m[1], n[1])'
                   PROVE  m = n
        BY DEF LoadedMembersDistinct
      <4>1. m[1] \in References /\ n[1] \in References /\ Live(m[1]) /\ Live(n[1])
        BY <2>3, <2>4, <2>7, <3>3 DEF MembersInv, TypeOK
      <4>2. Target(m[1]) \in loaded /\ Target(n[1]) \in loaded /\ Equals(m[1], n[1])
        BY <2>3, <2>5, <3>5, <4>1
      <4>3. CASE m \in set /\ n \in set
        BY <4>2, <4>3 DEF LoadedMembersDistinct
      <4>4. CASE m \in set /\ n = <<r, h>>
        BY <2>6, <3>6, <4>2, <4>4
      <4>5. CASE m = <<r, h>> /\ n \in set
        BY <2>6, <3>6, <4>2, <4>5
      <4>6. CASE m = <<r, h>> /\ n = <<r, h>>
        BY <4>6
      <4> QED BY <3>1, <4>3, <4>4, <4>5, <4>6
    <3> QED BY <2>7, <2>8, <3>3, <3>7
  <2> QED BY <2>10, <2>11
<1> QED BY <1>1, <1>2, <1>3, <1>4, <1>5, <1>6, <1>7, <1>8 DEF Next

\* The invariant: members keep their codes, and the objects of a row that a
\* hash set holds are one.
THEOREM IdentityInvariant == Spec => []IdentityInv
BY IdentityInit, IdentityStep, PTL DEF Spec

\* The variables keep their types.
THEOREM EntityTypeCorrect == Spec => []TypeOK
<1>1. IdentityInv => TypeOK
  BY DEF IdentityInv
<1> QED BY <1>1, IdentityInvariant, PTL

\* Equality of entities is reflexive, symmetric and transitive whatever the
\* program holds: objects, copies, proxies, transient or not.
THEOREM EqualityIsAnEquivalence == Spec => []EqualityIsEquivalence
<1>1. IdentityInv => EqualityIsEquivalence
  BY SameIsEquivalence DEF IdentityInv
<1> QED BY <1>1, IdentityInvariant, PTL

\* An entity put into a hash set is found there for good.
THEOREM MembersAreFound == Spec => []MembersStayFindable
<1>1. ASSUME IdentityInv, NEW m \in set PROVE Contains(m[1])
  <2>1. m[1] \in References /\ Live(m[1]) /\ cached[Target(m[1])] = m[2] /\ m[2] \in HashCodes
    BY <1>1 DEF IdentityInv, TypeOK, MembersInv
  <2>2. m[2] = GetHashCode(Target(m[1]))
    BY <2>1, NoneAssumption DEF GetHashCode
  <2>3. Equals(m[1], m[1])
    BY <1>1, <2>1, SameIsEquivalence DEF IdentityInv, EqualityIsEquivalence
  <2> QED BY <2>2, <2>3 DEF Contains
<1>2. IdentityInv => MembersStayFindable
  BY <1>1 DEF MembersStayFindable
<1> QED BY <1>2, IdentityInvariant, PTL

\* No hash set holds two of the objects loaded from one row.
THEOREM LoadedMembersAreDistinct == Spec => []LoadedMembersDistinct
<1>1. IdentityInv => LoadedMembersDistinct
  BY DEF IdentityInv
<1> QED BY <1>1, IdentityInvariant, PTL

\* Entities are identified at every moment of their lives.
THEOREM IdentificationHolds == Spec => []EntitiesAreIdentified
<1>1. TypeOK /\ EqualityIsEquivalence /\ MembersStayFindable /\ LoadedMembersDistinct
        => EntitiesAreIdentified
  BY DEF EntitiesAreIdentified
<1> QED BY <1>1, EntityTypeCorrect, EqualityIsAnEquivalence, MembersAreFound,
           LoadedMembersAreDistinct, PTL

\* Nothing the program does to two persistent entities changes whether they
\* are equal.
THEOREM PersistentIdentityIsStable == Spec => IdentityIsStable
<1> DEFINE Kept == \A p, q \in References :
         Live(p) /\ Live(q) /\ ~IsTransient(Target(p)) /\ ~IsTransient(Target(q))
           => (Equals(p, q) <=> Equals(p, q)')
<1>1. ASSUME IdentityInv, IdentityInv', [Next]_vars PROVE Kept
  <2>1. EqualsSame /\ EqualsSame'
    BY <1>1, EqualsSameNow, EqualsSameNext DEF IdentityInv
  <2>2. ASSUME NEW p \in References, Live(p), ~IsTransient(Target(p))
        PROVE  /\ Live(p)' /\ Target(p)' = Target(p)
               /\ type'[Target(p)] = type[Target(p)] /\ id'[Target(p)] = id[Target(p)]
    <3>1. Target(p) \in Objects /\ type[Target(p)] # None /\ id[Target(p)] # NoId
      BY <1>1, <2>2, LiveTarget, LiveType DEF IdentityInv, IsTransient
    <3>2. Live(p)' /\ Target(p)' = Target(p)
      BY <1>1, <2>2, NoneAssumption
         DEF IdentityInv, TypeOK, References, Live, Target, Next, vars,
             Create, Change, Save, Load, Proxy, Hash, AddToSet
    <3>3. type' = type \/ \E o \in Objects : type[o] = None /\ \E t : type' = [type EXCEPT ![o] = t]
      BY <1>1 DEF Next, vars, Create, Change, Save, Load, Proxy, Hash, AddToSet
    <3>4. id' = id \/ \E o \in Objects : id[o] = NoId /\ \E i : id' = [id EXCEPT ![o] = i]
      BY <1>1 DEF Next, vars, Create, Change, Save, Load, Proxy, Hash, AddToSet, IsTransient,
                  IdentityInv, LifeInv
    <3> QED BY <1>1, <3>1, <3>2, <3>3, <3>4 DEF IdentityInv, TypeOK
  <2>3. ASSUME NEW p \in References, NEW q \in References, Live(p), Live(q),
               ~IsTransient(Target(p)), ~IsTransient(Target(q))
        PROVE  Equals(p, q) <=> Equals(p, q)'
    <3>1. Same(Target(p), Target(q)) <=> Same(Target(p), Target(q))'
      BY <2>2, <2>3 DEF Same, IsTransient
    <3> QED BY <2>1, <2>2, <2>3, <3>1 DEF EqualsSame
  <2> QED BY <2>3
<1>2. IdentityInv /\ IdentityInv' /\ [Next]_vars => [Kept]_vars
  BY <1>1
<1> QED BY <1>2, IdentityInvariant, PTL DEF Spec, IdentityIsStable

\* In the composition the entities of EntityIdentity move or rest.
LEMMA PersistenceMovesEntities == PersistenceSpec => Spec
<1>1. PersistenceInit => Init
  BY DEF PersistenceInit
<1>2. [PersistenceNext]_all => [Next]_vars
  BY DEF PersistenceNext, all, vars, identityVars,
         IdentityMoves, SessionMoves, FlushMoves, FindersMove, ServicesMove
<1> QED BY <1>1, <1>2, PTL DEF PersistenceSpec, Spec

\* In the composition, too, equality is an equivalence and members of a hash set
\* are found (Entity.Equals, GetHashCode).
THEOREM EntitiesStayIdentified == PersistenceSpec => []EntitiesAreIdentified
BY PersistenceMovesEntities, IdentificationHolds

\* In the composition, too, no step separates or joins persistent entities.
THEOREM EntitiesKeepIdentity == PersistenceSpec => IdentityIsStable
BY PersistenceMovesEntities, PersistentIdentityIsStable

(***************************************************************************)
(* Registration: what a container has made.  st is a state of the          *)
(* container, as in Provide.  Every object is the one cached for its       *)
(* service in the place that owns it, only the root owns factories, and    *)
(* what an object uses is what its place has cached.                       *)
(***************************************************************************)
Object == [service : Services!Services, owner : Services!Places, uses : Nat, open : BOOLEAN]
Contents == [objects : Seq(Object), cache : [Services!Services -> [Services!Places -> Nat]], result : Nat]

Needs(st, v, p) ==
  CASE v = "factory" -> 0
    [] v = "manager" -> st.cache["session"][p]
    [] OTHER -> st.cache["factory"][Root]

Place(v, s) == IF v = "factory" THEN Root ELSE s

Cached(st) ==
  \A v \in Services!Services, p \in Services!Places :
    st.cache[v][p] # 0 =>
      /\ st.cache[v][p] \in DOMAIN st.objects
      /\ st.objects[st.cache[v][p]].service = v
      /\ st.objects[st.cache[v][p]].owner = p

Made(st, i) ==
  LET o == st.objects[i]
  IN /\ st.cache[o.service][o.owner] = i
     /\ o.service = "factory" <=> o.owner = Root
     /\ o.uses = Needs(st, o.service, o.owner)
     /\ o.service # "factory" => o.uses # 0
     /\ o.uses < i

Sound(st) == st \in Contents /\ Cached(st) /\ \A i \in DOMAIN st.objects : Made(st, i)

\* What was there stays, and what is new is open and belongs to s or the root.
Grown(st, new, s) ==
  /\ DOMAIN st.objects \subseteq DOMAIN new.objects
  /\ \A i \in DOMAIN st.objects : new.objects[i] = st.objects[i]
  /\ \A i \in DOMAIN new.objects \ DOMAIN st.objects :
       new.objects[i].open /\ new.objects[i].owner \in {s, Root}

\* The result of a call has no part in it.
LEMMA SoundApart ==
  ASSUME NEW st, NEW new, Sound(st), new \in Contents, new.objects = st.objects, new.cache = st.cache
  PROVE  Sound(new)
<1>1. \A v, p : Needs(new, v, p) = Needs(st, v, p)
  BY DEF Needs
<1>2. Cached(new)
  BY DEF Sound, Cached
<1>3. \A i \in DOMAIN new.objects : Made(new, i)
  BY <1>1 DEF Sound, Made
<1> QED BY <1>2, <1>3 DEF Sound

LEMMA ProvideSound ==
  ASSUME NEW st, Sound(st), NEW v \in Services!Services, NEW s \in Scopes,
         st.result = Needs(st, v, s), v # "factory" => st.result # 0
  PROVE  LET new == Services!Provide(st, v, s)
         IN  /\ Sound(new) /\ Grown(st, new, s)
             /\ new.result # 0 /\ new.result = new.cache[v][Place(v, s)]
             /\ \A w \in Services!Services, p \in Services!Places :
                  st.cache[w][p] # 0 => new.cache[w][p] = st.cache[w][p]
<1> USE PersistenceAssumption DEF Services!RegistrationAssumption
<1> DEFINE new == Services!Provide(st, v, s)
           place == Place(v, s)
           old == st.cache[v][place]
           size == Len(st.objects)
           o == [service |-> v, owner |-> place, uses |-> st.result, open |-> TRUE]
<1>1. new = IF old # 0 THEN [st EXCEPT !.result = old]
            ELSE [objects |-> Append(st.objects, o),
                  cache |-> [st.cache EXCEPT ![v][place] = size + 1],
                  result |-> size + 1]
  <2>1. /\ (Services!Lifetime[v] = "singleton") <=> (v = "factory")
        /\ Services!Lifetime[v] # "transient"
    BY DEF Services!Lifetime, Services!Services
  <2> QED BY <2>1 DEF Services!Provide, Place
<1>2. place \in Services!Places /\ s \in Services!Places /\ Root \in Services!Places /\ s # Root
  BY DEF Place, Services!Places
<1>3. st.objects \in Seq(Object) /\ st.cache \in [Services!Services -> [Services!Places -> Nat]] /\ st.result \in Nat
  BY DEF Sound, Contents
<1> HIDE DEF new, place
<1>4. CASE old # 0
  <2>1. new.objects = st.objects /\ new.cache = st.cache /\ new.result = old /\ new \in Contents
    BY <1>1, <1>2, <1>3, <1>4 DEF Sound, Contents
  <2>2. Sound(new) /\ Grown(st, new, s)
    BY <2>1, SoundApart DEF Grown
  <2> QED BY <1>4, <2>1, <2>2 DEF new, place
<1>5. CASE old = 0
  <2>1. /\ new.objects = Append(st.objects, o) /\ new.result = size + 1
        /\ new.cache = [st.cache EXCEPT ![v][place] = size + 1]
    BY <1>1, <1>5
  <2>2. size \in Nat /\ DOMAIN st.objects = 1 .. size
    BY <1>3
  <2>3. o \in Object
    BY <1>2, <1>3 DEF Object
  <2>4. /\ new.objects \in Seq(Object) /\ DOMAIN new.objects = 1 .. size + 1
        /\ new.objects[size + 1] = o
        /\ \A i \in 1 .. size : new.objects[i] = st.objects[i]
    BY <1>3, <2>1, <2>2, <2>3
  <2>5. /\ new.cache \in [Services!Services -> [Services!Places -> Nat]]
        /\ new.cache[v][place] = size + 1
        /\ \A w \in Services!Services, p \in Services!Places :
             w # v \/ p # place => new.cache[w][p] = st.cache[w][p]
    BY <1>2, <1>3, <2>1, <2>2, SMTT(30)
  <2>6. new \in Contents
    <3>1. \A a \in Seq(Object), c \in [Services!Services -> [Services!Places -> Nat]], r \in Nat :
            [objects |-> a, cache |-> c, result |-> r] \in Contents
      BY DEF Contents
    <3> DEFINE a == Append(st.objects, o)
               c == [st.cache EXCEPT ![v][place] = size + 1]
    <3>2. a \in Seq(Object) /\ c \in [Services!Services -> [Services!Places -> Nat]] /\ size + 1 \in Nat
      BY <2>1, <2>2, <2>4, <2>5
    <3>3. new = [objects |-> a, cache |-> c, result |-> size + 1]
      BY <1>1, <1>5
    <3> HIDE DEF a, c, size
    <3> QED BY <3>1, <3>2, <3>3
  <2>7. \A w \in Services!Services, p \in Services!Places :
          st.cache[w][p] # 0 => new.cache[w][p] = st.cache[w][p]
    BY <1>5, <2>5
  <2>8. Cached(new)
    <3> SUFFICES ASSUME NEW w \in Services!Services, NEW p \in Services!Places, new.cache[w][p] # 0
                 PROVE  /\ new.cache[w][p] \in DOMAIN new.objects
                        /\ new.objects[new.cache[w][p]].service = w
                        /\ new.objects[new.cache[w][p]].owner = p
      BY DEF Cached
    <3>1. CASE w = v /\ p = place
      BY <2>2, <2>4, <2>5, <3>1
    <3>2. CASE w # v \/ p # place
      <4>1. st.cache[w][p] # 0 /\ st.cache[w][p] \in 1 .. size
        BY <2>2, <2>5, <3>2 DEF Sound, Cached
      <4>2. st.objects[st.cache[w][p]].service = w /\ st.objects[st.cache[w][p]].owner = p
        BY <4>1 DEF Sound, Cached
      <4>3. new.cache[w][p] = st.cache[w][p] /\ st.cache[w][p] \in 1 .. size + 1
        BY <2>2, <2>7, <4>1
      <4>4. new.objects[st.cache[w][p]] = st.objects[st.cache[w][p]]
        BY <2>4, <4>1
      <4> QED BY <2>4, <4>2, <4>3, <4>4
    <3> QED BY <3>1, <3>2
  <2>9. ASSUME NEW i \in 1 .. size PROVE Made(new, i)
    <3>1. Made(st, i) /\ st.objects[i] \in Object
      BY <1>3, <2>2 DEF Sound
    <3>2. st.objects[i].service \in Services!Services /\ st.objects[i].owner \in Services!Places
      BY <3>1 DEF Object
    <3>3. st.cache[st.objects[i].service][st.objects[i].owner] # 0
      BY <3>1 DEF Made
    <3> DEFINE w == st.objects[i].service
               p == st.objects[i].owner
    <3>4. new.cache[w][p] = i
      BY <2>7, <3>1, <3>2, <3>3 DEF Made
    <3>5. st.objects[i].uses = Needs(st, w, p) /\ (w # "factory" => Needs(st, w, p) # 0)
      BY <3>1 DEF Made
    <3>6. Needs(new, w, p) = Needs(st, w, p)
      BY <1>2, <2>7, <3>2, <3>5 DEF Needs, Services!Services
    <3> QED BY <2>4, <3>1, <3>4, <3>6 DEF Made
  <2>10. Made(new, size + 1)
    <3>1. Needs(new, v, place) = st.result
      BY <1>2, <1>5, <2>5, <2>7 DEF Needs, Place, place, Services!Services
    <3>2. st.result < size + 1
      BY <1>2, <2>2 DEF Needs, Sound, Cached, Services!Services
    <3> QED BY <1>2, <2>4, <2>5, <3>1, <3>2 DEF Made, Place, place
  <2>11. Sound(new)
    BY <2>2, <2>4, <2>6, <2>8, <2>9, <2>10 DEF Sound
  <2>12. Grown(st, new, s)
    BY <2>2, <2>4 DEF Grown, Place, place
  <2> QED BY <2>1, <2>2, <2>5, <2>7, <2>11, <2>12 DEF new, place
<1> QED BY <1>4, <1>5 DEF new

LEMMA GrownTransitive ==
  ASSUME NEW a, NEW b, NEW c, NEW s, Grown(a, b, s), Grown(b, c, s)
  PROVE  Grown(a, c, s)
BY DEF Grown

\* Resolving a service yields the one its place has cached.
LEMMA ResolvedSound ==
  ASSUME Sound(Services!Container), NEW v \in Services!Services, NEW s \in Scopes
  PROVE  LET new == Services!Resolved(v, s)
         IN  /\ Sound(new) /\ Grown(Services!Container, new, s)
             /\ new.result # 0 /\ new.result = new.cache[v][Place(v, s)]
<1> DEFINE st == Services!Container
           factory == Services!Provide(st, "factory", s)
           session == Services!Provide(factory, "session", s)
           stateless == Services!Provide(factory, "stateless", s)
           manager == Services!Provide(session, "manager", s)
<1>1. {"factory", "session", "stateless", "manager"} = Services!Services
  BY DEF Services!Services
<1>2. st.result = Needs(st, "factory", s)
  BY DEF Services!Container, Needs
<1> HIDE DEF st
<1>3. /\ Sound(factory) /\ Grown(st, factory, s)
      /\ factory.result # 0 /\ factory.result = factory.cache["factory"][Root]
  BY <1>1, <1>2, ProvideSound DEF Place, st
<1> HIDE DEF factory
<1>4. /\ Sound(session) /\ Grown(factory, session, s)
      /\ session.result # 0 /\ session.result = session.cache["session"][s]
  BY <1>1, <1>3, ProvideSound DEF Place, Needs
<1>5. /\ Sound(stateless) /\ Grown(factory, stateless, s)
      /\ stateless.result # 0 /\ stateless.result = stateless.cache["stateless"][s]
  <2>1. "stateless" \in Services!Services /\ factory.result = Needs(factory, "stateless", s)
    BY <1>1, <1>3 DEF Needs
  <2> QED BY <1>3, <2>1, ProvideSound DEF Place
<1> HIDE DEF session, stateless
<1>6. /\ Sound(manager) /\ Grown(session, manager, s)
      /\ manager.result # 0 /\ manager.result = manager.cache["manager"][s]
  BY <1>1, <1>4, ProvideSound DEF Place, Needs
<1> HIDE DEF manager
<1>7. Services!Resolved(v, s) = CASE v = "factory" -> factory [] v = "session" -> session
                                  [] v = "stateless" -> stateless [] v = "manager" -> manager
  BY DEF Services!Resolved, st, factory, session, stateless, manager
<1>8. Grown(st, session, s) /\ Grown(st, stateless, s) /\ Grown(st, manager, s)
  BY <1>3, <1>4, <1>5, <1>6, GrownTransitive
<1>9. CASE v = "factory"
  BY <1>3, <1>7, <1>9 DEF Place, st
<1>10. CASE v = "session"
  BY <1>4, <1>7, <1>8, <1>10 DEF Place, st
<1>11. CASE v = "stateless"
  BY <1>5, <1>7, <1>8, <1>11 DEF Place, st
<1>12. CASE v = "manager"
  BY <1>6, <1>7, <1>8, <1>12 DEF Place, st
<1> QED BY <1>1, <1>9, <1>10, <1>11, <1>12

(***************************************************************************)
(* The inductive invariant: the container is sound, an object that a       *)
(* consumer does not dispose itself is open until its place is closed, and *)
(* what a consumer holds belongs to its own scope, which is open.          *)
(***************************************************************************)
ServicesInv ==
  /\ scopes \in [Services!Places -> {"new", "open", "closed"}]
  /\ holds \in [Scopes -> [Consumers -> Nat]]
  /\ Sound(Services!Container)
  /\ \A s \in Scopes : scopes[s] = "open" => scopes[Root] = "open"
  /\ \A i \in DOMAIN objects :
       /\ scopes[objects[i].owner] # "new"
       /\ objects[i].service # "stateless" => (objects[i].open <=> scopes[objects[i].owner] # "closed")
  /\ \A s \in Scopes, c \in Consumers : holds[s][c] # 0 =>
       scopes[s] = "open" /\ holds[s][c] \in DOMAIN objects /\ objects[holds[s][c]].owner = s

LEMMA ServicesInvInit == Services!Init => ServicesInv
<1> SUFFICES ASSUME Services!Init PROVE ServicesInv
  OBVIOUS
<1> USE PersistenceAssumption DEF Services!RegistrationAssumption, Services!Init
<1>1. Services!Container \in Contents
  BY DEF Services!Container, Contents
<1>2. DOMAIN objects = {}
  OBVIOUS
<1>3. Sound(Services!Container)
  BY <1>1, <1>2 DEF Sound, Cached, Services!Container
<1> QED BY <1>2, <1>3 DEF ServicesInv, Services!Places

\* A consumer asks and gets v from scope s.
LEMMA ResolvingKeepsInv ==
  ASSUME ServicesInv, NEW s \in Scopes, scopes[s] = "open", NEW v \in Services!Services,
         objects' = Services!Resolved(v, s).objects, cache' = Services!Resolved(v, s).cache,
         scopes' = scopes,
         holds' = holds \/ \E c \in Consumers : v # "factory" /\
                             holds' = [holds EXCEPT ![s][c] = Services!Resolved(v, s).result]
  PROVE  ServicesInv'
<1> DEFINE new == Services!Resolved(v, s)
<1>1. /\ Sound(new) /\ Grown(Services!Container, new, s)
      /\ new.result # 0 /\ new.result = new.cache[v][Place(v, s)]
  BY ResolvedSound DEF ServicesInv
<1> HIDE DEF new
<1>2. objects' = new.objects /\ cache' = new.cache
  BY DEF new
<1>3. new.objects \in Seq(Object) /\ new.cache \in [Services!Services -> [Services!Places -> Nat]] /\ new.result \in Nat
  BY <1>1 DEF Sound, Contents
<1>4. Sound(Services!Container)'
  <2>1. Services!Container' = [objects |-> new.objects, cache |-> new.cache, result |-> 0]
    BY <1>2 DEF Services!Container
  <2> DEFINE st == [objects |-> new.objects, cache |-> new.cache, result |-> 0]
  <2>2. st \in Contents /\ st.objects = new.objects /\ st.cache = new.cache
    BY <1>3 DEF Contents
  <2> HIDE DEF st
  <2>3. Sound(st)
    BY <1>1, <2>2, SoundApart
  <2> QED BY <2>1, <2>3 DEF st
<1>5. /\ DOMAIN objects \subseteq DOMAIN objects'
      /\ \A i \in DOMAIN objects : objects'[i] = objects[i]
      /\ \A i \in DOMAIN objects' \ DOMAIN objects : objects'[i].open /\ objects'[i].owner \in {s, Root}
  BY <1>1, <1>2 DEF Grown, Services!Container
<1>6. scopes[Root] = "open" /\ Root \in Services!Places /\ s \in Services!Places
  BY DEF ServicesInv, Services!Places
<1>7. \A i \in DOMAIN objects' :
        /\ scopes'[objects'[i].owner] # "new"
        /\ objects'[i].service # "stateless" => (objects'[i].open <=> scopes'[objects'[i].owner] # "closed")
  BY <1>5, <1>6 DEF ServicesInv
<1>8. v # "factory" => new.result \in DOMAIN objects' /\ objects'[new.result].owner = s
  BY <1>1, <1>2, <1>6 DEF Sound, Cached, Place
<1>9. /\ holds' \in [Scopes -> [Consumers -> Nat]]
      /\ \A t \in Scopes, c \in Consumers : holds'[t][c] # 0 =>
           scopes'[t] = "open" /\ holds'[t][c] \in DOMAIN objects' /\ objects'[holds'[t][c]].owner = t
  <2>1. CASE holds' = holds
    BY <1>5, <2>1 DEF ServicesInv
  <2>2. ASSUME NEW d \in Consumers, v # "factory", holds' = [holds EXCEPT ![s][d] = new.result]
        PROVE  /\ holds' \in [Scopes -> [Consumers -> Nat]]
               /\ \A t \in Scopes, c \in Consumers : holds'[t][c] # 0 =>
                    scopes'[t] = "open" /\ holds'[t][c] \in DOMAIN objects' /\ objects'[holds'[t][c]].owner = t
    BY <1>3, <1>5, <1>8, <2>2 DEF ServicesInv
  <2> QED BY <2>1, <2>2 DEF new
<1> QED BY <1>4, <1>7, <1>9 DEF ServicesInv

\* An object that is closed is otherwise as it was.
LEMMA ClosingKeepsSound ==
  ASSUME ServicesInv, cache' = cache, objects' \in Seq(Object), DOMAIN objects' = DOMAIN objects,
         \A i \in DOMAIN objects : /\ objects'[i].service = objects[i].service
                                   /\ objects'[i].owner = objects[i].owner
                                   /\ objects'[i].uses = objects[i].uses
  PROVE  Sound(Services!Container)'
<1> DEFINE st == Services!Container
           next == Services!Container'
<1>1. /\ st.objects = objects /\ st.cache = cache /\ next.objects = objects' /\ next.cache = cache
      /\ next = [objects |-> objects', cache |-> cache, result |-> 0]
  BY DEF Services!Container
<1>2. Sound(st)
  BY DEF ServicesInv
<1>3. next \in Contents
  <2>1. cache \in [Services!Services -> [Services!Places -> Nat]]
    BY <1>1, <1>2 DEF Sound, Contents
  <2> QED BY <1>1, <2>1 DEF Contents
<1> HIDE DEF st, next
<1>4. Cached(next)
  BY <1>1, <1>2 DEF Sound, Cached
<1>5. \A i \in DOMAIN next.objects : Made(next, i)
  BY <1>1, <1>2 DEF Sound, Made, Needs
<1> QED BY <1>3, <1>4, <1>5 DEF Sound, Cached, Made, Needs, next

LEMMA ServicesInvStep == ServicesInv /\ [Services!Next]_(Services!vars) => ServicesInv'
<1> SUFFICES ASSUME ServicesInv, [Services!Next]_(Services!vars) PROVE ServicesInv'
  OBVIOUS
<1> USE PersistenceAssumption DEF Services!RegistrationAssumption
<1>0. /\ objects \in Seq(Object) /\ Root \in Services!Places /\ Scopes \subseteq Services!Places
      /\ \A i \in DOMAIN objects : objects[i] \in Object /\ objects[i].owner \in Services!Places
  <2>1. objects \in Seq(Object)
    BY DEF ServicesInv, Sound, Contents, Services!Container
  <2>2. \A i \in DOMAIN objects : objects[i] \in Object
    BY <2>1
  <2>3. \A o \in Object : o.owner \in Services!Places
    BY DEF Object
  <2> QED BY <2>1, <2>2, <2>3 DEF Services!Places
<1>1. CASE UNCHANGED Services!vars
  <2>1. Sound(Services!Container)'
    BY <1>0, <1>1, ClosingKeepsSound DEF Services!vars
  <2> QED BY <1>1, <2>1 DEF Services!vars, ServicesInv
<1>2. ASSUME NEW s \in Scopes, Services!OpenScope(s) PROVE ServicesInv'
  <2>1. Sound(Services!Container)'
    BY <1>0, <1>2, ClosingKeepsSound DEF Services!OpenScope
  <2> QED BY <1>0, <1>2, <2>1 DEF Services!OpenScope, ServicesInv
<1>3. ASSUME NEW s \in Scopes, NEW c \in Consumers, NEW v \in Services!Services \ {"factory"},
             Services!Resolve(s, c, v)
      PROVE  ServicesInv'
  BY <1>3, ResolvingKeepsInv DEF Services!Resolve
<1>4. ASSUME NEW s \in Scopes, NEW c \in Consumers, Services!ConfiguratorThrows(s, c) PROVE ServicesInv'
  <2>1. "factory" \in Services!Services
    BY DEF Services!Services
  <2> QED BY <1>4, <2>1, ResolvingKeepsInv DEF Services!ConfiguratorThrows
<1>5. ASSUME NEW s \in Scopes, NEW c \in Consumers, Services!Release(s, c) PROVE ServicesInv'
  <2>1. holds[s][c] \in DOMAIN objects
    BY <1>5 DEF Services!Release, ServicesInv
  <2>2. /\ objects' \in Seq(Object) /\ DOMAIN objects' = DOMAIN objects
        /\ \A i \in DOMAIN objects : /\ objects'[i].service = objects[i].service
                                     /\ objects'[i].owner = objects[i].owner
                                     /\ objects'[i].uses = objects[i].uses
                                     /\ objects'[i].service # "stateless" => objects'[i].open = objects[i].open
    <3> DEFINE h == holds[s][c]
               b == objects[h].open /\ objects[h].service # "stateless"
               o == objects[h]
               closed == [o EXCEPT !.open = b]
    <3>1. objects' = [objects EXCEPT ![h] = closed] /\ h \in DOMAIN objects /\ objects[h] \in Object /\ b \in BOOLEAN
      BY <1>0, <1>5, <2>1 DEF Services!Release
    <3>2. /\ closed \in Object
          /\ closed.service = o.service /\ closed.owner = o.owner
          /\ closed.uses = o.uses /\ closed.open = b
      <4>1. o \in Object /\ b \in BOOLEAN
        BY <3>1
      <4> HIDE DEF o, b
      <4> QED BY <4>1 DEF Object
    <3>3. b \in BOOLEAN /\ (objects[h].service # "stateless" => b = objects[h].open)
      BY <3>1 DEF Object
    <3> HIDE DEF h, b, closed
    <3>4. objects' \in Seq(Object) /\ DOMAIN objects' = DOMAIN objects
      BY <1>0, <3>1, <3>2
    <3> QED BY <1>0, <3>1, <3>2, <3>3, <3>4
  <2>3. Sound(Services!Container)'
    BY <1>5, <2>2, ClosingKeepsSound DEF Services!Release
  <2>4. scopes' = scopes /\ holds' \in [Scopes -> [Consumers -> Nat]]
    BY <1>5 DEF Services!Release, ServicesInv
  <2>5. \A t \in Scopes, d \in Consumers : holds'[t][d] \in {0, holds[t][d]}
    BY <1>5 DEF Services!Release, ServicesInv
  <2>6. ASSUME NEW t \in Scopes, NEW d \in Consumers, holds'[t][d] # 0
        PROVE  scopes'[t] = "open" /\ holds'[t][d] \in DOMAIN objects' /\ objects'[holds'[t][d]].owner = t
    <3>1. holds'[t][d] = holds[t][d] /\ holds[t][d] \in DOMAIN objects
      BY <2>5, <2>6 DEF ServicesInv
    <3> QED BY <2>2, <2>4, <2>6, <3>1 DEF ServicesInv
  <2>7. ASSUME NEW i \in DOMAIN objects'
        PROVE  /\ scopes'[objects'[i].owner] # "new"
               /\ objects'[i].service # "stateless" =>
                    (objects'[i].open <=> scopes'[objects'[i].owner] # "closed")
    <3>1. /\ i \in DOMAIN objects /\ scopes[objects[i].owner] # "new"
          /\ objects[i].service # "stateless" => (objects[i].open <=> scopes[objects[i].owner] # "closed")
      BY <2>2 DEF ServicesInv
    <3>2. scopes'[objects'[i].owner] = scopes[objects[i].owner]
      BY <2>2, <2>4, <3>1
    <3> QED BY <2>2, <3>1, <3>2
  <2>8. /\ scopes' \in [Services!Places -> {"new", "open", "closed"}]
        /\ \A t \in Scopes : scopes'[t] = "open" => scopes'[Root] = "open"
    BY <2>4 DEF ServicesInv
  <2> QED BY <2>3, <2>4, <2>6, <2>7, <2>8 DEF ServicesInv
<1>6. ASSUME NEW p \in Services!Places, objects' = Services!Disposed(p)
      PROVE  /\ objects' \in Seq(Object) /\ DOMAIN objects' = DOMAIN objects
             /\ \A i \in DOMAIN objects : /\ objects'[i].service = objects[i].service
                                          /\ objects'[i].owner = objects[i].owner
                                          /\ objects'[i].uses = objects[i].uses
                                          /\ objects'[i].open <=> objects[i].open /\ objects[i].owner # p
  <2> DEFINE b(i) == objects[i].open /\ objects[i].owner # p
  <2>1. \A i \in DOMAIN objects : b(i) \in BOOLEAN
    OBVIOUS
  <2>2. objects' = [i \in DOMAIN objects |-> [objects[i] EXCEPT !.open = b(i)]]
    BY <1>6 DEF Services!Disposed
  <2>3. \A i \in DOMAIN objects :
          LET o == [objects[i] EXCEPT !.open = b(i)]
          IN /\ o \in Object /\ o.open = b(i)
             /\ o.service = objects[i].service /\ o.owner = objects[i].owner /\ o.uses = objects[i].uses
    <3> TAKE i \in DOMAIN objects
    <3> DEFINE old == objects[i]
               c == b(i)
    <3>1. old \in Object /\ c \in BOOLEAN
      BY <1>0, <2>1
    <3>2. LET o == [old EXCEPT !.open = c]
          IN /\ o \in Object /\ o.open = c
             /\ o.service = old.service /\ o.owner = old.owner /\ o.uses = old.uses
      <4> HIDE DEF old, c
      <4> QED BY <3>1 DEF Object
    <3> QED BY <3>2
  <2>4. objects' \in Seq(Object)
    <3> HIDE DEF b
    <3>1. objects' \in [1 .. Len(objects) -> Object] /\ Len(objects) \in Nat
      <4> DEFINE e(i) == [objects[i] EXCEPT !.open = b(i)]
      <4>1. DOMAIN objects = 1 .. Len(objects) /\ Len(objects) \in Nat
        BY <1>0
      <4>2. objects' = [i \in 1 .. Len(objects) |-> e(i)] /\ \A i \in 1 .. Len(objects) : e(i) \in Object
        BY <2>2, <2>3, <4>1
      <4> HIDE DEF e
      <4> QED BY <4>1, <4>2
    <3> QED BY <3>1, SeqDef
  <2> QED BY <2>2, <2>3, <2>4
<1>7. ASSUME NEW s \in Scopes, Services!CloseScope(s) PROVE ServicesInv'
  <2>1. Sound(Services!Container)'
    BY <1>0, <1>6, <1>7, ClosingKeepsSound DEF Services!CloseScope
  <2>2. /\ s \in Services!Places /\ objects' = Services!Disposed(s)
        /\ scopes' = [scopes EXCEPT ![s] = "closed"] /\ holds' = holds
        /\ \A c \in Consumers : holds[s][c] = 0
    BY <1>0, <1>7 DEF Services!CloseScope
  <2>3. \A i \in DOMAIN objects' :
          /\ scopes'[objects'[i].owner] # "new"
          /\ objects'[i].service # "stateless" => (objects'[i].open <=> scopes'[objects'[i].owner] # "closed")
    BY <1>0, <1>6, <2>2 DEF ServicesInv
  <2> QED BY <1>0, <1>6, <2>1, <2>2, <2>3 DEF ServicesInv
<1>8. CASE Services!CloseRoot
  <2>1. Sound(Services!Container)'
    BY <1>0, <1>6, <1>8, ClosingKeepsSound DEF Services!CloseRoot
  <2> QED BY <1>0, <1>6, <1>8, <2>1 DEF Services!CloseRoot, ServicesInv
<1> QED BY <1>1, <1>2, <1>3, <1>4, <1>5, <1>7, <1>8 DEF Services!Next

LEMMA ServicesInvImplies == ServicesInv => ServicesBelongToScopes
<1> SUFFICES ASSUME ServicesInv PROVE ServicesBelongToScopes
  OBVIOUS
<1> USE PersistenceAssumption DEF Services!RegistrationAssumption
<1>1. /\ objects \in Seq(Object) /\ cache \in [Services!Services -> [Services!Places -> Nat]]
      /\ \A v \in Services!Services, p \in Services!Places :
           cache[v][p] # 0 => /\ cache[v][p] \in DOMAIN objects
                              /\ objects[cache[v][p]].service = v /\ objects[cache[v][p]].owner = p
  BY DEF ServicesInv, Sound, Contents, Cached, Services!Container
<1>2. \A i \in DOMAIN objects :
        LET o == objects[i]
        IN /\ o \in Object /\ i \in Nat /\ i <= Len(objects)
           /\ cache[o.service][o.owner] = i
           /\ o.service = "factory" <=> o.owner = Root
           /\ o.service \in {"session", "stateless"} => o.uses = cache["factory"][Root] /\ o.uses # 0
           /\ o.service = "manager" => o.uses = cache["session"][o.owner] /\ o.uses # 0
           /\ o.uses < i
  BY <1>1 DEF ServicesInv, Sound, Made, Needs, Services!Container
<1>3. Services!TypeOK
  <2>1. cache \in [Services!Services -> [Services!Places -> 0 .. Len(objects)]]
    BY <1>1
  <2>2. holds \in [Scopes -> [Consumers -> 0 .. Len(objects)]]
    BY <1>1 DEF ServicesInv
  <2> QED BY <1>1, <1>2, <2>1, <2>2 DEF Services!TypeOK, ServicesInv, Object
<1>4. Services!OneFactory
  <2> SUFFICES ASSUME NEW i \in DOMAIN objects, NEW j \in DOMAIN objects
      PROVE /\ {objects[i].service, objects[j].service} \subseteq {"session", "stateless"}
                 => objects[i].uses = objects[j].uses
            /\ objects[i].service = "session" /\ objects[i].open => objects[objects[i].uses].open
    BY DEF Services!OneFactory
  <2>1. {objects[i].service, objects[j].service} \subseteq {"session", "stateless"}
                 => objects[i].uses = objects[j].uses
    BY <1>2
  <2>2. ASSUME objects[i].service = "session", objects[i].open PROVE objects[objects[i].uses].open
    <3>1. objects[i].owner \in Scopes /\ scopes[objects[i].owner] = "open"
      BY <1>2, <2>2 DEF ServicesInv, Object, Services!Places
    <3>2. /\ objects[i].uses \in DOMAIN objects
          /\ objects[objects[i].uses].service = "factory" /\ objects[objects[i].uses].owner = Root
      BY <1>1, <1>2, <2>2 DEF Services!Services, Services!Places
    <3> QED BY <3>1, <3>2 DEF ServicesInv
  <2> QED BY <2>1, <2>2
<1>5. ASSUME NEW s \in Scopes, NEW i \in Services!SessionsIn(s)
      PROVE  /\ i = cache["session"][s] /\ i \in DOMAIN objects
             /\ objects[i].owner = s /\ objects[i].open
  <2>1. PICK h \in DOMAIN objects : /\ objects[h].owner = s /\ scopes[s] = "open"
                                    /\ \/ objects[h].service = "session" /\ i = h
                                       \/ objects[h].service = "manager" /\ i = objects[h].uses
    BY DEF Services!SessionsIn, Services!Held, Services!Of, ServicesInv
  <2>2. i = cache["session"][s] /\ i # 0
    BY <1>1, <1>2, <2>1
  <2>3. i \in DOMAIN objects /\ objects[i].service = "session" /\ objects[i].owner = s
    BY <1>1, <2>2 DEF Services!Services, Services!Places
  <2> QED BY <2>1, <2>2, <2>3 DEF ServicesInv
<1>6. Services!OneSessionPerScope
  BY <1>5 DEF Services!OneSessionPerScope
<1>7. Services!SessionsAreTheirOwn
  BY <1>5 DEF Services!SessionsAreTheirOwn
<1> QED BY <1>3, <1>4, <1>6, <1>7 DEF ServicesBelongToScopes

\* Persistence moves the services by steps of their own.
LEMMA ServicesMoveAlone ==
  /\ PersistenceInit => Services!Init
  /\ [PersistenceNext]_all => [Services!Next]_(Services!vars)
BY DEF PersistenceInit, PersistenceNext, IdentityMoves, SessionMoves, FlushMoves, FindersMove,
       ServicesMove, all, serviceVars, Services!vars

\* Whatever requests come and whatever they resolve and release, in any order,
\* each has its one session, open while it is in use, and all sessions are of
\* one open factory (AddNHibernateWithSingleDatabase).
THEOREM ServicesBelong == PersistenceSpec => []ServicesBelongToScopes
<1>1. PersistenceInit => ServicesInv
  BY ServicesMoveAlone, ServicesInvInit
<1>2. ServicesInv /\ [PersistenceNext]_all => ServicesInv'
  BY ServicesMoveAlone, ServicesInvStep
<1> QED BY <1>1, <1>2, ServicesInvImplies, PTL DEF PersistenceSpec

(***************************************************************************)
(* ValidatedFlush: a queued insert has what its object had when it was     *)
(* loaded into the session, and an invalid row that is not committed is on *)
(* the way: its object is valid by now, so before the flush can end the    *)
(* row is updated, or deleted, or the flush is refused.                    *)
(***************************************************************************)
QueueInv ==
  /\ \A i \in DOMAIN inserts : object[inserts[i].entity].loaded = inserts[i].state
  /\ \A i, j \in DOMAIN inserts : inserts[i].entity = inserts[j].entity => i = j

OnTheWay(e) ==
  /\ phase # "work"
  /\ object[e] # Absent /\ object[e].now = "valid" /\ object[e].loaded = "invalid"

GuardInv ==
  \A e \in Validatable :
    judgedRows[e] = "invalid" /\ committed[e] # "invalid" => OnTheWay(e)

FlushInv ==
  /\ Flush!TypeOK /\ Flush!RefusedForAReason
  /\ QueueInv /\ GuardInv

LEMMA FlushInvInit == Flush!Init => FlushInv
<1> SUFFICES ASSUME Flush!Init PROVE FlushInv
  OBVIOUS
<1>1. inserts \in Seq(Flush!Insert) /\ DOMAIN inserts = {}
  BY DEF Flush!Init
<1>2. Flush!TypeOK /\ Flush!RefusedForAReason
  BY <1>1, PersistenceAssumption DEF Flush!ValidationAssumption, Flush!Init, Flush!TypeOK, Flush!RefusedForAReason, Flush!NoRefusal
<1> QED BY <1>1, <1>2 DEF FlushInv, QueueInv, GuardInv, Flush!Init

LEMMA FlushInvStep == FlushInv /\ [Flush!Next]_(Flush!vars) => FlushInv'
<1> SUFFICES ASSUME FlushInv, [Flush!Next]_(Flush!vars) PROVE FlushInv'
  OBVIOUS
<1> USE PersistenceAssumption DEF Flush!ValidationAssumption, FlushInv, Flush!NoRefusal, Flush!RefusedForAReason
<1>0. /\ DOMAIN inserts = 1 .. Len(inserts) /\ Len(inserts) \in Nat
      /\ \A i \in 1 .. Len(inserts) : inserts[i].entity \in Entities /\ inserts[i].state \in Flush!States
  <2>1. inserts \in Seq(Flush!Insert)
    BY DEF Flush!TypeOK
  <2>2. \A i \in 1 .. Len(inserts) : inserts[i] \in Flush!Insert
    BY <2>1
  <2>3. \A x \in Flush!Insert : x.entity \in Entities /\ x.state \in Flush!States
    BY DEF Flush!Insert
  <2> QED BY <2>1, <2>2, <2>3
<1>1. CASE UNCHANGED Flush!vars
  <2>1. UNCHANGED <<committed, judgedRows, object, inserts, phase, refused>>
    BY <1>1 DEF Flush!vars
  <2>2. Flush!TypeOK'
    BY <2>1 DEF Flush!TypeOK
  <2>3. QueueInv'
    BY <2>1 DEF QueueInv
  <2>4. GuardInv'
    BY <2>1 DEF GuardInv, OnTheWay
  <2>5. Flush!RefusedForAReason'
    BY <2>1
  <2> QED BY <2>2, <2>3, <2>4, <2>5
<1>2. ASSUME NEW e \in Entities, NEW v \in Flush!States, Flush!Save(e, v) PROVE FlushInv'
  <2> DEFINE x == [entity |-> e, state |-> v]
             o == [now |-> v, loaded |-> v, deleted |-> FALSE]
  <2>1. x \in Flush!Insert /\ o \in Flush!Held /\ o # Absent /\ o.loaded = v /\ x.entity = e /\ x.state = v
    <3>1. x \in Flush!Insert /\ x.entity = e /\ x.state = v
      BY DEF Flush!Insert
    <3>2. o \in Flush!Held /\ o.loaded = v
      BY DEF Flush!Held
    <3>3. Absent \notin Flush!Held
      OBVIOUS
    <3> HIDE DEF x, o
    <3> QED BY <3>1, <3>2, <3>3
  <2>2. /\ object' = [object EXCEPT ![e] = o] /\ inserts' = Append(inserts, x)
        /\ object[e] = Absent /\ judgedRows[e] = NoRow /\ phase = "work"
        /\ UNCHANGED <<committed, judgedRows, phase, refused>>
    BY <1>2 DEF Flush!Save
  <2> HIDE DEF x, o
  <2>3. /\ inserts' \in Seq(Flush!Insert) /\ DOMAIN inserts' = 1 .. Len(inserts) + 1
        /\ inserts'[Len(inserts) + 1] = x /\ \A i \in 1 .. Len(inserts) : inserts'[i] = inserts[i]
    <3>1. inserts \in Seq(Flush!Insert)
      BY DEF Flush!TypeOK
    <3> QED BY <3>1, <1>0, <2>1, <2>2, AppendProperties
  <2>4. \A i \in 1 .. Len(inserts) : inserts[i].entity # e
    BY <1>0, <2>2 DEF Flush!TypeOK
  <2>5. Flush!TypeOK' /\ QueueInv'
    BY <1>0, <2>1, <2>2, <2>3, <2>4 DEF Flush!TypeOK, QueueInv
  <2>6. GuardInv'
    BY <2>1, <2>2 DEF GuardInv, OnTheWay
  <2> QED BY <2>2, <2>5, <2>6 DEF Flush!TypeOK
<1>3. ASSUME NEW e \in Entities, Flush!Get(e) PROVE FlushInv'
  <2> DEFINE o == [now |-> judgedRows[e], loaded |-> judgedRows[e], deleted |-> FALSE]
  <2>1. o \in Flush!Held /\ o # Absent
    <3>1. judgedRows[e] \in Flush!States
      BY <1>3 DEF Flush!Get, Flush!TypeOK
    <3>2. o \in Flush!Held
      BY <3>1 DEF Flush!Held
    <3>3. Absent \notin Flush!Held
      OBVIOUS
    <3> HIDE DEF o
    <3> QED BY <3>2, <3>3
  <2>2. /\ object' = [object EXCEPT ![e] = o] /\ object[e] = Absent /\ phase = "work"
        /\ UNCHANGED <<committed, judgedRows, inserts, phase, refused>>
    BY <1>3 DEF Flush!Get
  <2> HIDE DEF o
  <2>3. Flush!TypeOK' /\ QueueInv' /\ GuardInv'
    BY <1>0, <2>1, <2>2 DEF Flush!TypeOK, QueueInv, GuardInv, OnTheWay
  <2> QED BY <2>2, <2>3 DEF Flush!TypeOK
<1>4. ASSUME NEW e \in Entities, NEW o \in Flush!Held, object[e] # Absent, o.loaded = object[e].loaded,
             phase = "work", object' = [object EXCEPT ![e] = o],
             UNCHANGED <<committed, judgedRows, inserts, phase, refused>>
      PROVE  FlushInv'
  <2>1. Flush!TypeOK' /\ QueueInv' /\ GuardInv'
    BY <1>0, <1>4 DEF Flush!TypeOK, QueueInv, GuardInv, OnTheWay
  <2> QED BY <1>4, <2>1 DEF Flush!TypeOK
<1>5. ASSUME NEW e \in Entities, NEW v \in Flush!States, Flush!Change(e, v) PROVE FlushInv'
  <2> DEFINE old == object[e]
  <2>1. old \in Flush!Held /\ old # Absent
    BY <1>5 DEF Flush!Change, Flush!TypeOK
  <2>2. object' = [object EXCEPT ![e] = [old EXCEPT !.now = v]]
    BY <1>5 DEF Flush!Change
  <2>3. [old EXCEPT !.now = v] \in Flush!Held /\ [old EXCEPT !.now = v].loaded = old.loaded
    <3> HIDE DEF old
    <3> QED BY <2>1 DEF Flush!Held
  <2> QED BY <1>4, <1>5, <2>1, <2>2, <2>3 DEF Flush!Change
<1>6. ASSUME NEW e \in Entities, Flush!Delete(e) PROVE FlushInv'
  <2> DEFINE old == object[e]
  <2>1. old \in Flush!Held /\ old # Absent
    BY <1>6 DEF Flush!Delete, Flush!TypeOK
  <2>2. object' = [object EXCEPT ![e] = [old EXCEPT !.deleted = TRUE]]
    BY <1>6 DEF Flush!Delete
  <2>3. [old EXCEPT !.deleted = TRUE] \in Flush!Held /\ [old EXCEPT !.deleted = TRUE].loaded = old.loaded
    <3> HIDE DEF old
    <3> QED BY <2>1 DEF Flush!Held
  <2> QED BY <1>4, <1>6, <2>1, <2>2, <2>3 DEF Flush!Delete
<1>7. ASSUME NEW kind \in {"flush", "commit"}, Flush!StartFlush(kind) PROVE FlushInv'
  BY <1>7 DEF Flush!StartFlush, Flush!TypeOK, QueueInv, GuardInv, OnTheWay
\* The listener throws.
<1>8. ASSUME NEW e \in Validatable, Flush!Refusal(e) # "none", Flush!Flushing, object[e] # Absent,
             refused' = <<e, Flush!Refusal(e)>>, phase' = "failed",
             UNCHANGED <<committed, judgedRows, object, inserts>>
      PROVE  FlushInv'
  <2>1. refused' # <<>> /\ refused'[1] = e
    BY <1>8
  <2>2. object[e].now = "invalid" \/ e \in UniqueSigned
    BY <1>8 DEF Flush!Refusal
  <2> QED BY <1>8, <2>1, <2>2 DEF Flush!TypeOK, QueueInv, GuardInv, OnTheWay, Flush!Flushing
<1>9. ASSUME NEW e \in Validatable, Flush!Refusal(e) = "none", object[e] # Absent
      PROVE  object[e].now = "valid"
  BY <1>9 DEF Flush!Refusal, Flush!TypeOK, Flush!Held, Flush!States
<1>10. ASSUME NEW e \in Entities, Flush!OnPreInsert(e) PROVE FlushInv'
  <2>1. /\ Flush!Flushing /\ inserts # <<>> /\ Head(inserts) = inserts[1] /\ inserts[1].entity = e
        /\ object[e] # Absent /\ judgedRows[e] = NoRow /\ object[e].loaded = inserts[1].state
        /\ inserts[1].state \in Flush!States
    BY <1>0, <1>10 DEF Flush!OnPreInsert, Flush!TypeOK, QueueInv
  <2>2. CASE e \in Validatable /\ Flush!Refusal(e) # "none"
    BY <1>8, <1>10, <2>1, <2>2 DEF Flush!OnPreInsert, Flush!Judged
  <2>3. CASE ~(e \in Validatable /\ Flush!Refusal(e) # "none")
    <3>1. /\ judgedRows' = [judgedRows EXCEPT ![e] = inserts[1].state]
          /\ inserts' = Tail(inserts) /\ UNCHANGED <<committed, object, phase, refused>>
      BY <1>10, <2>1, <2>3 DEF Flush!OnPreInsert, Flush!Judged
    <3>2. /\ inserts' \in Seq(Flush!Insert) /\ DOMAIN inserts' = 1 .. Len(inserts) - 1
          /\ \A i \in 1 .. Len(inserts) - 1 : inserts'[i] = inserts[i + 1] /\ inserts[i + 1].entity # e
      BY <1>0, <2>1, <3>1 DEF Flush!TypeOK, QueueInv
    <3>3. Flush!TypeOK'
      BY <1>0, <2>1, <3>1, <3>2 DEF Flush!TypeOK
    <3>4. QueueInv'
      BY <1>0, <3>1, <3>2 DEF QueueInv
    <3>5. GuardInv'
      BY <1>9, <2>1, <2>3, <3>1 DEF GuardInv, OnTheWay, Flush!TypeOK, Flush!Flushing
    <3> QED BY <3>1, <3>3, <3>4, <3>5
  <2> QED BY <2>2, <2>3
<1>11. ASSUME NEW e \in Entities, Flush!OnPreUpdate(e) PROVE FlushInv'
  <2>1. Flush!Flushing /\ inserts = <<>> /\ object[e] # Absent /\ object[e] \in Flush!Held
    BY <1>11 DEF Flush!OnPreUpdate, Flush!Dirty, Flush!TypeOK
  <2>2. CASE e \in Validatable /\ Flush!Refusal(e) # "none"
    BY <1>8, <1>11, <2>1, <2>2 DEF Flush!OnPreUpdate, Flush!Judged
  <2>3. CASE ~(e \in Validatable /\ Flush!Refusal(e) # "none")
    <3> DEFINE old == object[e]
               o == [old EXCEPT !.loaded = old.now]
    <3>1. /\ judgedRows' = [judgedRows EXCEPT ![e] = old.now]
          /\ object' = [object EXCEPT ![e] = o] /\ UNCHANGED <<committed, inserts, phase, refused>>
      BY <1>11, <2>1, <2>3 DEF Flush!OnPreUpdate, Flush!Judged
    <3>2. o \in Flush!Held /\ o # Absent /\ old.now \in Flush!States
      <4> HIDE DEF old
      <4> QED BY <2>1 DEF Flush!Held, old
    <3>3. e \in Validatable => old.now = "valid"
      BY <1>9, <2>1, <2>3
    <3> HIDE DEF old, o
    <3>4. Flush!TypeOK'
      BY <2>1, <3>1, <3>2 DEF Flush!TypeOK
    <3>5. QueueInv' /\ GuardInv'
      BY <2>1, <3>1, <3>3 DEF Flush!TypeOK, QueueInv, GuardInv, OnTheWay
    <3> QED BY <2>1, <3>1, <3>4, <3>5 DEF Flush!TypeOK, Flush!Flushing
  <2> QED BY <2>2, <2>3
<1>12. ASSUME NEW e \in Entities, Flush!ExecuteDelete(e) PROVE FlushInv'
  BY <1>12 DEF Flush!ExecuteDelete, Flush!Flushing, Flush!TypeOK, QueueInv, GuardInv, OnTheWay, Flush!States
<1>13. CASE Flush!EndFlush
  <2>1. \A e \in Validatable : judgedRows[e] = "invalid" => committed[e] = "invalid"
    BY <1>13 DEF Flush!EndFlush, Flush!Dirty, GuardInv, OnTheWay
  <2> QED BY <1>13, <2>1 DEF Flush!EndFlush, Flush!Flushing, Flush!TypeOK, QueueInv, GuardInv
<1>14. CASE Flush!RollBack
  BY <1>14 DEF Flush!RollBack, Flush!TypeOK, QueueInv, GuardInv
<1> QED
  BY <1>1, <1>2, <1>3, <1>5, <1>6, <1>7, <1>10, <1>11, <1>12, <1>13, <1>14 DEF Flush!Next

LEMMA CommitsAreValid ==
  ASSUME FlushInv, [Flush!Next]_(Flush!vars), NEW e \in Validatable, committed'[e] # committed[e]
  PROVE  committed'[e] \in {"valid", NoRow}
<1> USE PersistenceAssumption DEF Flush!ValidationAssumption
<1>1. Flush!EndFlush /\ committed' = judgedRows
  BY DEF Flush!Next, Flush!vars, Flush!Save, Flush!Get, Flush!Change, Flush!Delete, Flush!OnPreInsert,
     Flush!OnPreUpdate, Flush!Judged, Flush!ExecuteDelete, Flush!StartFlush, Flush!EndFlush, Flush!RollBack
<1>2. judgedRows[e] = "invalid" => committed[e] = "invalid"
  BY <1>1 DEF Flush!EndFlush, Flush!Dirty, FlushInv, GuardInv, OnTheWay
<1> QED BY <1>1, <1>2 DEF FlushInv, Flush!TypeOK, Flush!States

\* Persistence moves the flush by steps of its own.
LEMMA FlushMovesAlone ==
  /\ PersistenceInit => Flush!Init
  /\ [PersistenceNext]_all => [Flush!Next]_(Flush!vars)
BY DEF PersistenceInit, PersistenceNext, IdentityMoves, SessionMoves, FlushMoves, FindersMove,
       ServicesMove, all, flushVars, Flush!vars

\* Whatever is saved, changed and deleted before a flush, nothing invalid gets
\* into the database through a ValidatableObject, and no valid object is
\* refused but for an attribute that needs the duplicate checker
\* (DataAnnotationsEventListener).
THEOREM FlushesAreGuarded == PersistenceSpec => FlushIsGuarded
<1> DEFINE Committing == \A e \in Validatable : committed'[e] # committed[e] => committed'[e] \in {"valid", NoRow}
<1>1. PersistenceInit => FlushInv
  BY FlushMovesAlone, FlushInvInit
<1>2. FlushInv /\ [PersistenceNext]_all => FlushInv'
  BY FlushMovesAlone, FlushInvStep
<1>3. FlushInv /\ [PersistenceNext]_all => [Committing]_(Flush!vars)
  BY FlushMovesAlone, CommitsAreValid
<1>4. FlushInv => Flush!TypeOK /\ Flush!RefusedForAReason
  BY DEF FlushInv
<1> QED
  BY <1>1, <1>2, <1>3, <1>4, PTL DEF PersistenceSpec, FlushIsGuarded, Flush!CommittedRowsAreValid

(***************************************************************************)
(* Queries: the limit of two rows tells one from several.                  *)
(***************************************************************************)
\* The finders count as FiniteSets does.
LEMMA FindersCount ==
  /\ \A S : Finders!Cardinality(S) = Cardinality(S)
  /\ \A S : Finders!IsFiniteSet(S) = IsFiniteSet(S)
<1>1. \A S : Finders!Cardinality(S) = Cardinality(S)
  BY DEF Finders!Cardinality, Cardinality
<1>2. \A S : Finders!IsFiniteSet(S) = IsFiniteSet(S)
  BY DEF Finders!IsFiniteSet, IsFiniteSet
<1> QED BY <1>1, <1>2

\* What FindOne makes of at most two of the rows that match is what there is
\* to say of all of them.
LEMMA TwoAreEnough ==
  ASSUME NEW ids \in SUBSET RowIds, NEW by, NEW asked, NEW excluded,
         Finders!FindOne(by, asked, excluded, ids)
  PROVE  /\ answer'.by = by /\ answer'.asked = asked /\ answer'.excluded = excluded
         /\ answer'.kind = "one" => answer'.found = ids
         /\ answer'.kind = "default" => ids = {}
         /\ answer'.kind \notin {"one", "default"} => Cardinality(ids) > 1
<1>1. IsFiniteSet(ids)
  BY PersistenceAssumption, FindersCount, FS_Subset DEF Finders!QueriesAssumption
<1>2. PICK found \in Finders!Limited(ids, 2) :
        Finders!Answer(by, asked, excluded,
                       IF Finders!Cardinality(found) > 1 THEN "nonUnique"
                       ELSE IF found = {} THEN "default" ELSE "one", found)
  BY DEF Finders!FindOne
<1> DEFINE kind == IF Cardinality(found) > 1 THEN "nonUnique" ELSE IF found = {} THEN "default" ELSE "one"
<1>3. answer' = [by |-> by, asked |-> asked, excluded |-> excluded, kind |-> kind, found |-> found]
  BY <1>2, FindersCount DEF Finders!Answer
<1>4. /\ found \in SUBSET ids
      /\ Cardinality(found) = 2 \/ (found = ids /\ Cardinality(ids) < 2)
  BY FindersCount DEF Finders!Limited
<1>5. /\ IsFiniteSet(found) /\ Cardinality(found) \in Nat /\ Cardinality(ids) \in Nat
      /\ Cardinality(found) <= Cardinality(ids)
  BY <1>1, <1>4, FS_Subset, FS_CardinalityType
<1>6. found = {} => Cardinality(found) = 0
  BY FS_EmptySet
<1>7. /\ kind = "one" => found = ids
      /\ kind = "default" => ids = {}
      /\ kind \notin {"one", "default"} => Cardinality(ids) > 1
  BY <1>4, <1>5, <1>6
<1> HIDE DEF kind
<1>8. answer'.kind = kind /\ answer'.found = found
  BY <1>3
<1> QED BY <1>3, <1>7, <1>8

FindersInv == DOMAIN table \subseteq RowIds /\ FindersAreExact

LEMMA FindersInvInit == Finders!Init => FindersInv
BY DEF Finders!Init, FindersInv, FindersAreExact, Finders!FindOneIsExact, Finders!ExampleIsExact, Finders!Unasked

LEMMA FindersInvStep == FindersInv /\ [Finders!Next]_(Finders!vars) => FindersInv'
<1> SUFFICES ASSUME FindersInv, [Finders!Next]_(Finders!vars) PROVE FindersInv'
  OBVIOUS
<1> USE DEF FindersInv, FindersAreExact
<1>1. CASE UNCHANGED Finders!vars
  BY <1>1 DEF Finders!vars, Finders!FindOneIsExact, Finders!ExampleIsExact, Finders!Agrees,
              Finders!Stored, Finders!Satisfies
<1>2. ASSUME NEW pairs \in Finders!Questions, Finders!FindOneByPairs(pairs) PROVE FindersInv'
  <2> DEFINE ids == {i \in Finders!Stored : Finders!Restrict(i, pairs)}
  <2>1. Finders!FindOne("pairs", pairs, {}, ids) /\ UNCHANGED table
    BY <1>2 DEF Finders!FindOneByPairs
  <2>2. ids \in SUBSET RowIds
    BY DEF Finders!Stored
  <2>3. ids = {i \in Finders!Stored : Finders!Satisfies(i, pairs)}
    BY DEF Finders!Restrict, Finders!Satisfies, Finders!Eq, Finders!IsNull
  <2> HIDE DEF ids
  <2>4. /\ answer'.by = "pairs" /\ answer'.asked = pairs
        /\ answer'.kind = "one" => answer'.found = ids
        /\ answer'.kind = "default" => ids = {}
        /\ answer'.kind \notin {"one", "default"} => Cardinality(ids) > 1
    BY <2>1, <2>2, TwoAreEnough
  <2>5. {i \in Finders!Stored : Finders!Satisfies(i, answer.asked)}' = ids
    BY <2>1, <2>3, <2>4 DEF Finders!Stored, Finders!Satisfies
  <2>6. Finders!FindOneIsExact'
    BY <2>4, <2>5, FindersCount DEF Finders!FindOneIsExact, Finders!Agrees
  <2>7. Finders!ExampleIsExact'
    BY <2>4 DEF Finders!ExampleIsExact
  <2> QED BY <2>1, <2>6, <2>7
<1>3. ASSUME NEW example \in Finders!Examples, NEW excluded \in SUBSET Columns,
             Finders!FindOneByExample(example, excluded)
      PROVE  FindersInv'
  <2> DEFINE ids == {i \in Finders!Stored : Finders!Like(i, example, excluded)}
             columns == Columns \ excluded
  <2>1. Finders!FindOne("example", example, excluded, ids) /\ UNCHANGED table
    BY <1>3 DEF Finders!FindOneByExample
  <2>2. ids \in SUBSET RowIds
    BY DEF Finders!Stored
  <2>3. (\A c \in columns : example[c] # Null) =>
           ids = {i \in Finders!Stored : \A c \in columns : table[i][c] = example[c]}
    BY DEF Finders!Like, Finders!Eq
  <2> HIDE DEF ids
  <2>4. /\ answer'.by = "example" /\ answer'.asked = example /\ answer'.excluded = excluded
        /\ answer'.kind = "one" => answer'.found = ids
        /\ answer'.kind = "default" => ids = {}
        /\ answer'.kind \notin {"one", "default"} => Cardinality(ids) > 1
    BY <2>1, <2>2, TwoAreEnough
  <2>5. /\ {i \in Finders!Stored : \A c \in Columns \ answer.excluded : table[i][c] = answer.asked[c]}'
             = {i \in Finders!Stored : \A c \in columns : table[i][c] = example[c]}
        /\ (Columns \ answer.excluded)' = columns
    BY <2>1, <2>4 DEF Finders!Stored
  <2>6. Finders!ExampleIsExact'
    BY <2>3, <2>4, <2>5, FindersCount DEF Finders!ExampleIsExact, Finders!Agrees
  <2>7. Finders!FindOneIsExact'
    BY <2>4 DEF Finders!FindOneIsExact
  <2> QED BY <2>1, <2>6, <2>7
<1>4. ASSUME answer'.by \notin {"pairs", "example"}, (DOMAIN table)' \subseteq RowIds PROVE FindersInv'
  BY <1>4 DEF Finders!FindOneIsExact, Finders!ExampleIsExact
<1>5. ASSUME NEW asked \in Finders!Questions, Finders!FindOneWhere(asked) \/ Finders!First(asked)
      PROVE  FindersInv'
  BY <1>4, <1>5 DEF Finders!FindOneWhere, Finders!First, Finders!Answer
<1>6. ASSUME NEW i \in RowIds, Finders!Delete(i) PROVE FindersInv'
  BY <1>4, <1>6 DEF Finders!Delete, Finders!Unasked, Finders!Stored
<1>7. ASSUME NEW i \in RowIds, NEW r \in Finders!Examples, Finders!Write(i, r) PROVE FindersInv'
  BY <1>4, <1>7 DEF Finders!Write, Finders!Unasked, Finders!Stored
<1> QED BY <1>1, <1>2, <1>3, <1>5, <1>6, <1>7 DEF Finders!Next

\* Persistence moves the finders by steps of their own.
LEMMA FindersMoveAlone ==
  /\ PersistenceInit => Finders!Init
  /\ [PersistenceNext]_all => [Finders!Next]_(Finders!vars)
BY DEF PersistenceInit, PersistenceNext, IdentityMoves, SessionMoves, FlushMoves, FindersMove,
       ServicesMove, all, finderVars, Finders!vars

\* Whatever rows there are and whatever is asked by, nulls included, FindOne
\* says "one" only of the only row that matches, "none" only if none does, and
\* refuses to choose among several (NHibernateRepository.FindOne).
THEOREM FindersFind == PersistenceSpec => []FindersAreExact
<1>1. PersistenceInit => FindersInv
  BY FindersMoveAlone, FindersInvInit
<1>2. FindersInv /\ [PersistenceNext]_all => FindersInv'
  BY FindersMoveAlone, FindersInvStep
<1>3. FindersInv => FindersAreExact
  BY DEF FindersInv
<1> QED BY <1>1, <1>2, <1>3, PTL DEF PersistenceSpec

(***************************************************************************)
(* SessionEntities: versions order the commits.  What a transaction has    *)
(* written is newer than the committed row, and an entity that has the     *)
(* version of the row was read after the last commit of a claim.           *)
(***************************************************************************)
SessionEntries ==
  [status : {"New", "Loaded", "Deleted"}, value : RowValues, loaded : RowValues,
   version : Nat \ {0}, forced : BOOLEAN]

SessionTypes ==
  /\ row \in Session!Rows \cup {NoRow}
  /\ saved \in BOOLEAN /\ touched \in Nat
  /\ image \in [Sessions -> Session!Rows \cup {NoRow, Unwritten}]
  /\ entry \in [Sessions -> SessionEntries \cup {Session!NoEntry}]
  /\ claims \in [Sessions -> [read : Nat, made : BOOLEAN]]

\* Nothing is there before the save, and only the entity until its insert.
UnsavedInv ==
  ~saved =>
    /\ row = NoRow /\ touched = 0
    /\ \A s \in Sessions : image[s] = Unwritten /\ entry[s] = Session!NoEntry /\ claims[s].read = 0

NewInv ==
  \A s \in Sessions : entry[s].status = "New" =>
    /\ saved /\ row = NoRow /\ touched = 0 /\ claims[s].read = 0
    /\ \A t \in Sessions : image[t] = Unwritten
    /\ \A t \in Sessions \ {s} : entry[t] = Session!NoEntry

OneWriter ==
  \A s, t \in Sessions : s # t => image[s] = Unwritten \/ image[t] = Unwritten

Written(s) ==
  /\ claims[s].made = (image[s] # Unwritten)
  /\ image[s] # Unwritten => saved /\ claims[s].read = touched
  /\ image[s] = NoRow => entry[s] = Session!NoEntry
  /\ image[s] \in Session!Rows =>
       /\ entry[s] # Session!NoEntry => entry[s].version = image[s].version
       /\ row # NoRow => image[s].version > row.version
       /\ row = NoRow => \A t \in Sessions \ {s} : entry[t] = Session!NoEntry

ReadOnly(s) ==
  image[s] = Unwritten /\ entry[s] # Session!NoEntry /\ row # NoRow =>
    /\ entry[s].version <= row.version
    /\ entry[s].version = row.version => claims[s].read = touched

SessionInv ==
  /\ SessionTypes /\ UnsavedInv /\ NewInv /\ OneWriter
  /\ \A s \in Sessions : Written(s) /\ ReadOnly(s)

\* A transaction may write w, or commit it.
Writable(s, w) ==
  /\ w \in Session!Rows \cup {NoRow}
  /\ saved /\ claims[s].read = touched
  /\ \A t \in Sessions \ {s} : image[t] = Unwritten /\ entry[t].status # "New"
  /\ w \in Session!Rows => IF row = NoRow THEN \A t \in Sessions \ {s} : entry[t] = Session!NoEntry
                           ELSE w.version > row.version

LEMMA RowFacts ==
  /\ \A r \in Session!Rows : r # NoRow /\ r # Unwritten /\ r.version \in Nat /\ r.version > 0 /\ r.value \in RowValues
  /\ NoRow # Unwritten /\ MaxVersion \in Nat
<1>1. \A r \in Session!Rows : r.version \in Nat \ {0} /\ r.value \in RowValues
  BY DEF Session!Rows
<1>2. /\ {NoRow, Unwritten} \cap Session!Rows = {}
      /\ NoRow # Unwritten /\ MaxVersion \in Nat
  BY PersistenceAssumption DEF Session!SessionAssumption
<1> QED BY <1>1, <1>2

LEMMA EntryFacts ==
  /\ Session!NoEntry.status = "None"
  /\ \A e \in SessionEntries :
       /\ e # Session!NoEntry /\ e.status \in {"New", "Loaded", "Deleted"}
       /\ e.version \in Nat /\ e.version > 0 /\ e.value \in RowValues /\ e.loaded \in RowValues
<1>1. Session!NoEntry.status = "None"
  BY DEF Session!NoEntry
<1>2. \A e \in SessionEntries :
       /\ e.status \in {"New", "Loaded", "Deleted"}
       /\ e.version \in Nat /\ e.version > 0 /\ e.value \in RowValues /\ e.loaded \in RowValues
  BY DEF SessionEntries
<1> QED BY <1>1, <1>2

\* The fields of an entry that is changed.
LEMMA EntryChanged ==
  ASSUME NEW e \in SessionEntries
  PROVE  /\ \A v \in RowValues : /\ [e EXCEPT !.value = v] \in SessionEntries
                                 /\ [e EXCEPT !.value = v].version = e.version
                                 /\ [e EXCEPT !.value = v].status = e.status
         /\ [e EXCEPT !.status = "Deleted"] \in SessionEntries
         /\ [e EXCEPT !.status = "Deleted"].version = e.version
         /\ [e EXCEPT !.status = "Deleted"].status = "Deleted"
         /\ [e EXCEPT !.version = @ + 1, !.forced = TRUE] \in SessionEntries
         /\ [e EXCEPT !.version = @ + 1, !.forced = TRUE].version = e.version + 1
         /\ [e EXCEPT !.version = @ + 1, !.forced = TRUE].status = e.status
<1>1. \A v \in RowValues : /\ [e EXCEPT !.value = v] \in SessionEntries
                          /\ [e EXCEPT !.value = v].version = e.version
                          /\ [e EXCEPT !.value = v].status = e.status
  BY DEF SessionEntries
<1>2. /\ [e EXCEPT !.status = "Deleted"] \in SessionEntries
      /\ [e EXCEPT !.status = "Deleted"].version = e.version
      /\ [e EXCEPT !.status = "Deleted"].status = "Deleted"
  BY DEF SessionEntries
<1>3. e.version \in Nat \ {0} /\ e.version + 1 \in Nat \ {0}
  BY DEF SessionEntries
<1>4. /\ [e EXCEPT !.version = @ + 1, !.forced = TRUE] \in SessionEntries
      /\ [e EXCEPT !.version = @ + 1, !.forced = TRUE].version = e.version + 1
      /\ [e EXCEPT !.version = @ + 1, !.forced = TRUE].status = e.status
  BY <1>3 DEF SessionEntries
<1> QED BY <1>1, <1>2, <1>4

LEMMA SessionInvInit == Session!Init => SessionInv
<1> SUFFICES ASSUME Session!Init PROVE SessionInv
  OBVIOUS
<1>1. Session!Nothing \in [read : Nat, made : BOOLEAN] /\ Session!Nothing.read = 0 /\ Session!Nothing.made = FALSE
  BY DEF Session!Nothing
<1>2. SessionTypes
  BY <1>1 DEF Session!Init, SessionTypes
<1>3. \A s \in Sessions : /\ image[s] = Unwritten /\ entry[s] = Session!NoEntry
                          /\ claims[s].read = 0 /\ claims[s].made = FALSE
  BY <1>1 DEF Session!Init
<1>4. UnsavedInv /\ NewInv /\ OneWriter
  BY <1>3, EntryFacts DEF Session!Init, UnsavedInv, NewInv, OneWriter
<1>5. \A s \in Sessions : Written(s) /\ ReadOnly(s)
  BY <1>3, RowFacts DEF Written, ReadOnly
<1> QED BY <1>2, <1>4, <1>5 DEF SessionInv

\* The entry of a session goes, or stays at its version.
LEMMA EntryMoves ==
  ASSUME SessionInv, NEW s \in Sessions, NEW e \in SessionEntries \cup {Session!NoEntry},
         entry' = [entry EXCEPT ![s] = e], UNCHANGED <<row, image, saved, touched, claims>>,
         \/ e = Session!NoEntry
         \/ /\ entry[s] # Session!NoEntry /\ e.version = entry[s].version
            /\ e.status = "New" => entry[s].status = "New"
  PROVE  SessionInv'
<1> USE DEF SessionInv
<1>1. SessionTypes'
  BY DEF SessionTypes
<1>2. entry'[s] = e /\ \A t \in Sessions \ {s} : entry'[t] = entry[t]
  BY DEF SessionTypes
<1>3. UnsavedInv'
  BY <1>2 DEF UnsavedInv
<1>4. NewInv'
  BY <1>2, EntryFacts DEF NewInv
<1>5. OneWriter'
  BY DEF OneWriter
<1>6. Written(s)' /\ ReadOnly(s)'
  BY <1>2 DEF Written, ReadOnly
<1>7. ASSUME NEW t \in Sessions \ {s} PROVE Written(t)' /\ ReadOnly(t)'
  BY <1>2, <1>7 DEF Written, ReadOnly, OneWriter
<1> QED BY <1>1, <1>3, <1>4, <1>5, <1>6, <1>7

\* A transaction writes the row.
LEMMA RowWritten ==
  ASSUME SessionInv, NEW s \in Sessions, NEW e \in SessionEntries \cup {Session!NoEntry}, NEW w,
         Writable(s, w), e.status # "New",
         e # Session!NoEntry => w \in Session!Rows /\ e.version = w.version,
         entry' = [entry EXCEPT ![s] = e], image' = [image EXCEPT ![s] = w], Session!Claim(s),
         UNCHANGED <<row, saved, touched>>
  PROVE  SessionInv'
<1> USE DEF SessionInv, Session!Claim, Writable
<1>1. claims[s] \in [read : Nat, made : BOOLEAN]
  BY DEF SessionTypes
<1>2. /\ claims'[s] \in [read : Nat, made : BOOLEAN]
      /\ claims'[s].read = claims[s].read /\ claims'[s].made = TRUE
      /\ claims' = [claims EXCEPT ![s] = claims'[s]]
  <2> DEFINE c == claims[s]
  <2>1. claims' = [claims EXCEPT ![s] = [c EXCEPT !.made = TRUE]]
    OBVIOUS
  <2>2. c \in [read : Nat, made : BOOLEAN]
    BY <1>1
  <2> HIDE DEF c
  <2>3. /\ [c EXCEPT !.made = TRUE] \in [read : Nat, made : BOOLEAN]
        /\ [c EXCEPT !.made = TRUE].read = c.read /\ [c EXCEPT !.made = TRUE].made = TRUE
    BY <2>2
  <2>4. claims'[s] = [c EXCEPT !.made = TRUE]
    BY <2>1 DEF SessionTypes
  <2>5. c.read = claims[s].read
    BY DEF c
  <2> QED BY <2>1, <2>3, <2>4, <2>5
<1>3. SessionTypes'
  BY <1>2 DEF SessionTypes
<1>4. /\ entry'[s] = e /\ image'[s] = w
      /\ \A t \in Sessions \ {s} : entry'[t] = entry[t] /\ image'[t] = Unwritten /\ claims'[t] = claims[t]
  BY <1>2 DEF SessionTypes
<1>5. UnsavedInv' /\ NewInv'
  BY <1>4 DEF UnsavedInv, NewInv
<1>6. OneWriter'
  BY <1>4 DEF OneWriter
<1>7. Written(s)' /\ ReadOnly(s)'
  <2>1. Written(s)'
    BY <1>2, <1>4, RowFacts, ZenonT(40) DEF Written
  <2>2. ReadOnly(s)'
    BY <1>2, <1>4, RowFacts DEF ReadOnly
  <2> QED BY <2>1, <2>2
<1>8. ASSUME NEW t \in Sessions \ {s} PROVE Written(t)' /\ ReadOnly(t)'
  BY <1>4, <1>8, RowFacts DEF Written, ReadOnly
<1> QED BY <1>3, <1>5, <1>6, <1>7, <1>8

\* A transaction ends, with or without a new row.
LEMMA TransactionEnds ==
  ASSUME SessionInv, NEW s \in Sessions, Session!Close(s), UNCHANGED saved,
         \/ row' = row /\ touched' = touched
         \/ Writable(s, row') /\ touched' = touched + 1
  PROVE  SessionInv'
<1> USE DEF SessionInv
<1>1. /\ entry' = [entry EXCEPT ![s] = Session!NoEntry] /\ image' = [image EXCEPT ![s] = Unwritten]
      /\ claims' = [claims EXCEPT ![s] = Session!Nothing]
  BY DEF Session!Close, Session!Enter, Session!Write
<1>2. Session!Nothing \in [read : Nat, made : BOOLEAN] /\ Session!Nothing.read = 0 /\ Session!Nothing.made = FALSE
  BY DEF Session!Nothing
<1>3. SessionTypes'
  BY <1>1, <1>2 DEF SessionTypes, Writable
<1>4. /\ entry'[s] = Session!NoEntry /\ image'[s] = Unwritten /\ claims'[s] = Session!Nothing
      /\ \A t \in Sessions \ {s} : entry'[t] = entry[t] /\ image'[t] = image[t] /\ claims'[t] = claims[t]
  BY <1>1 DEF SessionTypes
<1>5. OneWriter'
  BY <1>4 DEF OneWriter
<1>6. Written(s)' /\ ReadOnly(s)'
  BY <1>2, <1>4, RowFacts DEF Written, ReadOnly
<1>7. CASE row' = row /\ touched' = touched
  <2>1. UnsavedInv'
    BY <1>2, <1>4, <1>7 DEF UnsavedInv
  <2>2. NewInv'
    BY <1>4, <1>7, EntryFacts DEF NewInv
  <2>3. ASSUME NEW t \in Sessions \ {s} PROVE Written(t)' /\ ReadOnly(t)'
    BY <1>4, <1>7, <2>3 DEF Written, ReadOnly
  <2> QED BY <1>3, <1>5, <1>6, <2>1, <2>2, <2>3
<1>8. CASE Writable(s, row') /\ touched' = touched + 1
  <2>1. UnsavedInv'
    BY <1>8 DEF UnsavedInv, Writable
  <2>2. NewInv'
    BY <1>4, <1>8, EntryFacts DEF NewInv, Writable
  <2>3. ASSUME NEW t \in Sessions \ {s} PROVE Written(t)' /\ ReadOnly(t)'
    <3>1. Written(t)'
      BY <1>4, <1>8, <2>3, RowFacts DEF Written, Writable
    <3>2. entry[t] # Session!NoEntry => entry[t].version \in Nat
      BY EntryFacts DEF SessionTypes
    <3>3. row # NoRow => row.version \in Nat
      BY RowFacts DEF SessionTypes
    <3>4. ReadOnly(t)'
      BY <1>4, <1>8, <2>3, <3>2, <3>3, RowFacts DEF ReadOnly, Writable
    <3> QED BY <3>1, <3>4
  <2> QED BY <1>3, <1>5, <1>6, <2>1, <2>2, <2>3
<1> QED BY <1>7, <1>8

\* What a flush writes may be written, and has what the entity has.
LEMMA FlushWrites ==
  ASSUME SessionInv, NEW s \in Sessions,
         Session!Writes(s), Session!MayFlush(s), Session!Bounded(s)
  PROVE  LET w == Session!Flushed(s).image
             e == Session!Flushed(s).entry
         IN /\ Writable(s, w) /\ e \in SessionEntries \cup {Session!NoEntry} /\ e.status # "New"
            /\ e # Session!NoEntry => w \in Session!Rows /\ e.version = w.version
            /\ IF entry[s].status = "Deleted" THEN w = NoRow
               ELSE w \in Session!Rows /\ w.value = entry[s].value
            /\ w \in Session!Rows =>
                 w.version = entry[s].version + (IF Session!Dirty(entry[s]) THEN 1 ELSE 0)
<1> DEFINE f == Session!Flushed(s)
           x == entry[s]
           version == x.version + (IF Session!Dirty(x) THEN 1 ELSE 0)
<1> USE DEF SessionInv
<1>1. x # Session!NoEntry /\ x \in SessionEntries
  BY DEF Session!Writes, Session!Held, SessionTypes
<1>2. \A t \in Sessions \ {s} : image[t] = Unwritten
  BY DEF Session!MayFlush, Session!Locked
<1>3. \A t \in Sessions \ {s} : entry[t].status # "New"
  BY <1>1 DEF NewInv
<1>4. saved /\ image[s] # NoRow
  BY <1>1 DEF UnsavedInv, Written
<1>5. x.status = "New" \/ (Session!Visible(s) # NoRow /\ Session!Visible(s).version = x.version)
  BY DEF Session!MayFlush, Session!Current
<1>6. x.version \in Nat /\ x.version > 0 /\ x.version < MaxVersion /\ x.value \in RowValues
  BY <1>1, EntryFacts DEF Session!Bounded, Session!Held
<1>7. version \in Nat \ {0} /\ version >= x.version
  BY <1>6, RowFacts
<1>8. claims[s].read = touched
  BY <1>1, <1>5, RowFacts DEF NewInv, Written, ReadOnly, Session!Visible, SessionTypes
<1>9. x.status \in {"Loaded", "New", "Deleted"} /\ x.forced \in BOOLEAN
  BY <1>1 DEF SessionEntries
<1> DEFINE r == [version |-> version, value |-> x.value]
           z == Session!Entry("Loaded", x.value, x.value, version, x.forced)
<1>10. r \in Session!Rows /\ r.version = version /\ r.value = x.value
  <2> HIDE DEF version, x
  <2> QED BY <1>6, <1>7 DEF Session!Rows
<1>11. z \in SessionEntries /\ z.status = "Loaded" /\ z.version = version
  <2> HIDE DEF version, x
  <2> QED BY <1>6, <1>7, <1>9 DEF Session!Entry, SessionEntries
<1>12. IF x.status = "Deleted" THEN f.image = NoRow /\ f.entry = Session!NoEntry
       ELSE f.image = r /\ f.entry = z
  BY DEF Session!Flushed
<1>13. x.status # "Deleted" =>
         IF row = NoRow THEN \A t \in Sessions \ {s} : entry[t] = Session!NoEntry ELSE version > row.version
  <2>1. CASE x.status = "New"
    BY <2>1 DEF NewInv
  <2>2. CASE x.status = "Loaded" /\ image[s] = Unwritten
    <3>1. row # NoRow /\ row.version = x.version /\ row \in Session!Rows
      BY <1>5, <2>2 DEF Session!Visible, SessionTypes
    <3>2. Session!Dirty(x)
      BY <2>2 DEF Session!Writes
    <3> QED BY <1>6, <3>1, <3>2
  <2>3. CASE x.status = "Loaded" /\ image[s] # Unwritten
    <3>1. image[s] \in Session!Rows /\ image[s].version = x.version
      BY <1>1, <1>4, <2>3 DEF Written, SessionTypes
    <3>2. row = NoRow => \A t \in Sessions \ {s} : entry[t] = Session!NoEntry
      BY <3>1 DEF Written
    <3>3. row # NoRow => x.version > row.version /\ row.version \in Nat
      BY <3>1, RowFacts DEF Written, SessionTypes
    <3> HIDE DEF x, version
    <3> QED BY <1>6, <1>7, <3>2, <3>3
  <2> QED BY <1>9, <2>1, <2>2, <2>3
<1> HIDE DEF f, r, z, version, x
<1>14. Writable(s, f.image)
  <2>1. f.image \in Session!Rows \cup {NoRow}
    BY <1>10, <1>12
  <2>2. f.image \in Session!Rows => IF row = NoRow THEN \A t \in Sessions \ {s} : entry[t] = Session!NoEntry
                                    ELSE f.image.version > row.version
    BY <1>10, <1>12, <1>13, RowFacts
  <2> QED BY <1>2, <1>3, <1>4, <1>8, <2>1, <2>2 DEF Writable
<1>15. /\ f.entry \in SessionEntries \cup {Session!NoEntry} /\ f.entry.status # "New"
       /\ f.entry # Session!NoEntry => f.image \in Session!Rows /\ f.entry.version = f.image.version
       /\ IF x.status = "Deleted" THEN f.image = NoRow ELSE f.image \in Session!Rows /\ f.image.value = x.value
       /\ f.image \in Session!Rows => f.image.version = version
  BY <1>10, <1>11, <1>12, EntryFacts, RowFacts
<1> QED BY <1>14, <1>15 DEF f, x, version

LEMMA FlushIsQuiet ==
  ASSUME NEW s \in Sessions, ~Session!Writes(s)
  PROVE  Session!Flushed(s).image = image[s] /\ Session!Flushed(s).entry = entry[s]
BY DEF Session!Flushed

\* A flush, after which the session keeps the entry or evicts it.
LEMMA FlushKeepsInv ==
  ASSUME SessionInv, NEW s \in Sessions, NEW e,
         Session!MayFlush(s), Session!Bounded(s),
         Session!Write(s, Session!Flushed(s).image), Session!Enter(s, e),
         e = Session!Flushed(s).entry \/ e = Session!NoEntry,
         IF Session!Writes(s) THEN Session!Claim(s) ELSE UNCHANGED claims,
         UNCHANGED <<row, saved, touched>>
  PROVE  SessionInv'
<1> DEFINE w == Session!Flushed(s).image
           z == Session!Flushed(s).entry
<1>1. image' = [image EXCEPT ![s] = w] /\ entry' = [entry EXCEPT ![s] = e]
  BY DEF Session!Write, Session!Enter
<1>2. CASE Session!Writes(s)
  <2>1. /\ Writable(s, w) /\ z \in SessionEntries \cup {Session!NoEntry} /\ z.status # "New"
        /\ z # Session!NoEntry => w \in Session!Rows /\ z.version = w.version
    BY <1>2, FlushWrites
  <2>2. /\ e \in SessionEntries \cup {Session!NoEntry} /\ e.status # "New"
        /\ e # Session!NoEntry => w \in Session!Rows /\ e.version = w.version
    BY <2>1, EntryFacts
  <2> HIDE DEF w, z
  <2> QED BY <1>1, <1>2, <2>1, <2>2, RowWritten
<1>3. CASE ~Session!Writes(s)
  <2>1. w = image[s] /\ z = entry[s]
    BY <1>3, FlushIsQuiet
  <2>2. image' = image /\ e \in SessionEntries \cup {Session!NoEntry}
    BY <1>1, <2>1 DEF SessionInv, SessionTypes
  <2> QED BY <1>1, <1>3, <2>1, <2>2, EntryMoves
<1> QED BY <1>2, <1>3

LEMMA SessionInvStep == SessionInv /\ [Session!Next]_(Session!vars) => SessionInv'
<1> SUFFICES ASSUME SessionInv, [Session!Next]_(Session!vars) PROVE SessionInv'
  OBVIOUS
<1>1. CASE UNCHANGED Session!vars
  <2>1. UNCHANGED <<row, image, entry, saved, touched, claims>>
    BY <1>1 DEF Session!vars
  <2> QED BY <2>1 DEF SessionInv, SessionTypes, UnsavedInv, NewInv, OneWriter, Written, ReadOnly
<1> SUFFICES ASSUME NEW s \in Sessions,
                    \/ \E v \in RowValues : Session!Save(s, v) \/ Session!Change(s, v)
                    \/ Session!Get(s) \/ Session!Delete(s) \/ Session!Flush(s) \/ Session!Evict(s)
                    \/ Session!FlushAndEvict(s) \/ Session!SaveAndEvict(s) \/ Session!IncrementVersion(s)
                    \/ Session!Commit(s) \/ Session!RollBack(s)
             PROVE  SessionInv'
  BY <1>1 DEF Session!Next
<1>2. ASSUME NEW v \in RowValues, Session!Save(s, v) PROVE SessionInv'
  <2> DEFINE e == Session!Entry("New", v, v, 1, FALSE)
  <2>1. e \in SessionEntries
    BY DEF Session!Entry, SessionEntries
  <2>2. /\ ~saved /\ saved' = TRUE /\ entry' = [entry EXCEPT ![s] = e]
        /\ UNCHANGED <<row, image, touched, claims>>
    BY <1>2 DEF Session!Save, Session!Enter
  <2> HIDE DEF e
  <2>3. /\ row = NoRow /\ touched = 0
        /\ \A t \in Sessions : image[t] = Unwritten /\ entry[t] = Session!NoEntry /\ claims[t].read = 0
    BY <2>2 DEF SessionInv, UnsavedInv
  <2>4. SessionTypes'
    BY <2>1, <2>2 DEF SessionInv, SessionTypes
  <2>5. entry'[s] = e /\ \A t \in Sessions \ {s} : entry'[t] = Session!NoEntry
    BY <2>2, <2>3 DEF SessionInv, SessionTypes
  <2>6. UnsavedInv' /\ NewInv' /\ OneWriter'
    BY <2>2, <2>3, <2>5, EntryFacts DEF UnsavedInv, NewInv, OneWriter
  <2>7. \A t \in Sessions : Written(t)' /\ ReadOnly(t)'
    BY <2>2, <2>3, RowFacts DEF SessionInv, Written, ReadOnly
  <2> QED BY <2>4, <2>6, <2>7 DEF SessionInv
<1>3. ASSUME NEW v \in RowValues, Session!Change(s, v) PROVE SessionInv'
  <2> DEFINE x == entry[s]
  <2>1. x \in SessionEntries /\ x # Session!NoEntry
    BY <1>3 DEF Session!Change, Session!Held, SessionInv, SessionTypes
  <2>2. entry' = [entry EXCEPT ![s] = [x EXCEPT !.value = v]] /\ UNCHANGED <<row, image, saved, touched, claims>>
    BY <1>3 DEF Session!Change, Session!Enter
  <2>3. /\ [x EXCEPT !.value = v] \in SessionEntries /\ [x EXCEPT !.value = v].version = x.version
        /\ [x EXCEPT !.value = v].status = x.status
    <3> HIDE DEF x
    <3> QED BY <2>1, EntryChanged
  <2> QED BY <2>1, <2>2, <2>3, EntryMoves
<1>4. ASSUME Session!Get(s) PROVE SessionInv'
  <2> DEFINE r == Session!Visible(s)
             e == Session!Entry("Loaded", r.value, r.value, r.version, FALSE)
  <2>1. r \in Session!Rows /\ r # NoRow
    BY <1>4 DEF Session!Get, Session!Visible, SessionInv, SessionTypes
  <2>2. /\ entry[s] = Session!NoEntry /\ entry' = [entry EXCEPT ![s] = e]
        /\ claims' = IF image[s] = Unwritten THEN [claims EXCEPT ![s].read = touched] ELSE claims
        /\ UNCHANGED <<row, image, saved, touched>>
    BY <1>4 DEF Session!Get, Session!Enter, Session!Held
  <2>3. e \in SessionEntries /\ e.version = r.version /\ e.status = "Loaded"
    <3>1. r.value \in RowValues /\ r.version \in Nat \ {0}
      BY <2>1, RowFacts
    <3> HIDE DEF r
    <3> QED BY <3>1 DEF Session!Entry, SessionEntries
  <2>4. (image[s] = Unwritten => r = row) /\ (image[s] # Unwritten => r = image[s])
    BY DEF Session!Visible
  <2> HIDE DEF e, r
  <2>5. /\ claims'[s] \in [read : Nat, made : BOOLEAN] /\ claims'[s].made = claims[s].made
        /\ image[s] = Unwritten => claims'[s].read = touched
        /\ image[s] # Unwritten => claims'[s] = claims[s]
        /\ claims' = [claims EXCEPT ![s] = claims'[s]]
    <3> DEFINE c == claims[s]
    <3>1. c \in [read : Nat, made : BOOLEAN] /\ touched \in Nat
      BY DEF SessionInv, SessionTypes
    <3>2. claims' = [claims EXCEPT ![s] = IF image[s] = Unwritten THEN [c EXCEPT !.read = touched] ELSE c]
      BY <2>2 DEF SessionInv, SessionTypes
    <3>3. claims'[s] = IF image[s] = Unwritten THEN [c EXCEPT !.read = touched] ELSE c
      BY <3>2 DEF SessionInv, SessionTypes
    <3> HIDE DEF c
    <3>4. /\ [c EXCEPT !.read = touched] \in [read : Nat, made : BOOLEAN]
          /\ [c EXCEPT !.read = touched].made = c.made /\ [c EXCEPT !.read = touched].read = touched
      BY <3>1
    <3>5. c = claims[s]
      BY DEF c
    <3> QED BY <3>1, <3>2, <3>3, <3>4, <3>5
  <2>6. SessionTypes'
    BY <2>2, <2>3, <2>5 DEF SessionInv, SessionTypes
  <2>7. /\ entry'[s] = e
        /\ \A t \in Sessions \ {s} : entry'[t] = entry[t] /\ claims'[t] = claims[t]
    BY <2>2, <2>5 DEF SessionInv, SessionTypes
  <2>8. saved
    BY <2>1, <2>4, RowFacts DEF SessionInv, UnsavedInv
  <2>9. \A t \in Sessions : entry[t].status # "New"
    BY <2>1, <2>4, RowFacts DEF SessionInv, NewInv
  <2>10. UnsavedInv' /\ NewInv' /\ OneWriter'
    BY <2>2, <2>3, <2>7, <2>8, <2>9 DEF SessionInv, UnsavedInv, NewInv, OneWriter
  <2>11. ReadOnly(s)'
    BY <2>1, <2>2, <2>3, <2>4, <2>5, <2>7, RowFacts DEF ReadOnly
  <2>12. Written(s)'
    <3>1. CASE image[s] = Unwritten
      BY <2>2, <2>5, <3>1, RowFacts DEF SessionInv, Written
    <3>2. CASE image[s] # Unwritten
      BY <2>1, <2>2, <2>3, <2>4, <2>5, <2>7, <3>2 DEF SessionInv, Written
    <3> QED BY <3>1, <3>2
  <2>13. ASSUME NEW t \in Sessions \ {s} PROVE Written(t)' /\ ReadOnly(t)'
    <3>1. image[t] \in Session!Rows => row # NoRow
      BY <2>1, <2>4, RowFacts DEF SessionInv, OneWriter
    <3> QED BY <2>2, <2>7, <2>13, <3>1 DEF SessionInv, Written, ReadOnly
  <2> QED BY <2>6, <2>10, <2>11, <2>12, <2>13 DEF SessionInv
<1>5. ASSUME Session!Delete(s) PROVE SessionInv'
  <2> DEFINE x == entry[s]
  <2>1. x \in SessionEntries /\ x # Session!NoEntry
    BY <1>5 DEF Session!Delete, Session!Held, SessionInv, SessionTypes
  <2>2. /\ entry' = [entry EXCEPT ![s] = [x EXCEPT !.status = "Deleted"]]
        /\ UNCHANGED <<row, image, saved, touched, claims>>
    BY <1>5 DEF Session!Delete, Session!Enter
  <2>3. /\ [x EXCEPT !.status = "Deleted"] \in SessionEntries
        /\ [x EXCEPT !.status = "Deleted"].version = x.version
        /\ [x EXCEPT !.status = "Deleted"].status = "Deleted"
    <3> HIDE DEF x
    <3> QED BY <2>1, EntryChanged
  <2> QED BY <2>1, <2>2, <2>3, EntryMoves
<1>6. ASSUME Session!Flush(s) PROVE SessionInv'
  BY <1>6, FlushKeepsInv DEF Session!Flush
<1>7. ASSUME Session!Evict(s) PROVE SessionInv'
  BY <1>7, EntryMoves DEF Session!Evict, Session!Enter
<1>8. ASSUME Session!FlushAndEvict(s) PROVE SessionInv'
  BY <1>8, FlushKeepsInv DEF Session!FlushAndEvict
<1>9. ASSUME Session!SaveAndEvict(s) PROVE SessionInv'
  <2>1. saved' = TRUE /\ ~saved /\ UNCHANGED <<row, image, entry, touched, claims>>
    BY <1>9 DEF Session!SaveAndEvict
  <2>2. SessionTypes'
    BY <2>1 DEF SessionInv, SessionTypes
  <2>3. UnsavedInv' /\ NewInv' /\ OneWriter'
    BY <2>1, EntryFacts DEF SessionInv, UnsavedInv, NewInv, OneWriter
  <2>4. \A t \in Sessions : Written(t)' /\ ReadOnly(t)'
    BY <2>1 DEF SessionInv, Written, ReadOnly
  <2> QED BY <2>2, <2>3, <2>4 DEF SessionInv
<1>10. ASSUME Session!IncrementVersion(s) PROVE SessionInv'
  <2> DEFINE x == entry[s]
             r == Session!Visible(s)
             e == [x EXCEPT !.version = @ + 1, !.forced = TRUE]
             w == [r EXCEPT !.version = @ + 1]
  <2>1. /\ x # Session!NoEntry /\ x \in SessionEntries /\ r # NoRow
        /\ entry' = [entry EXCEPT ![s] = e] /\ image' = [image EXCEPT ![s] = w]
        /\ Session!Claim(s) /\ UNCHANGED <<row, saved, touched>>
        /\ \A t \in Sessions \ {s} : image[t] = Unwritten
        /\ x.status = "New" \/ r.version = x.version
        /\ x.version < MaxVersion
    BY <1>10 DEF Session!IncrementVersion, Session!Ignored, Session!Held, Session!Enter, Session!Write,
                 Session!Locked, Session!Current, Session!Bounded, SessionInv, SessionTypes
  <2>2. r \in Session!Rows /\ (image[s] = Unwritten => r = row) /\ (image[s] # Unwritten => r = image[s])
    BY <2>1 DEF Session!Visible, SessionInv, SessionTypes
  <2>3. x.status # "New" /\ saved /\ \A t \in Sessions \ {s} : entry[t].status # "New"
    BY <2>1, <2>2, RowFacts DEF SessionInv, NewInv, UnsavedInv
  <2>4. claims[s].read = touched
    BY <2>1, <2>2, <2>3, RowFacts DEF SessionInv, Written, ReadOnly
  <2>5. IF row = NoRow THEN \A t \in Sessions \ {s} : entry[t] = Session!NoEntry ELSE r.version >= row.version
    BY <2>1, <2>2, RowFacts DEF SessionInv, Written, SessionTypes
  <2>6. e \in SessionEntries /\ e.version = x.version + 1 /\ e.status = x.status
    <3> HIDE DEF x
    <3> QED BY <2>1, EntryChanged
  <2>7. w \in Session!Rows /\ w.version = r.version + 1
    <3>1. r.version \in Nat /\ r.version > 0 /\ r.version < MaxVersion /\ MaxVersion \in Nat
      BY <2>1, <2>2, <2>3, RowFacts
    <3> HIDE DEF r
    <3> QED BY <2>2, <3>1 DEF Session!Rows
  <2>8. Writable(s, w)
    <3>1. row # NoRow => row.version \in Nat /\ r.version \in Nat
      BY <2>2, RowFacts DEF SessionInv, SessionTypes
    <3> HIDE DEF w, r
    <3> QED BY <2>1, <2>3, <2>4, <2>5, <2>7, <3>1 DEF Writable
  <2> HIDE DEF w, e
  <2> QED BY <2>1, <2>3, <2>6, <2>7, <2>8, RowWritten
<1>11. ASSUME Session!Commit(s) PROVE SessionInv'
  <2> DEFINE w == Session!Flushed(s).image
  <2>1. /\ Session!MayFlush(s) /\ Session!Bounded(s) /\ Session!Close(s) /\ UNCHANGED saved
        /\ row' = IF w = Unwritten THEN row ELSE w
        /\ touched' = IF Session!Claims(s) THEN touched + 1 ELSE touched
    BY <1>11 DEF Session!Commit
  <2>2. CASE Session!Writes(s)
    <3>1. Writable(s, w)
      BY <2>1, <2>2, FlushWrites
    <3>2. row' = w /\ touched' = touched + 1
      BY <2>1, <2>2, <3>1, RowFacts DEF Writable, Session!Claims
    <3> QED BY <2>1, <3>1, <3>2, TransactionEnds
  <2>3. CASE ~Session!Writes(s) /\ image[s] # Unwritten
    <3>1. w = image[s] /\ row' = w /\ touched' = touched + 1
      BY <2>1, <2>3, FlushIsQuiet DEF Session!Claims, SessionInv, Written
    <3>2. Writable(s, image[s])
      BY <2>3 DEF Writable, SessionInv, SessionTypes, Written, OneWriter, NewInv
    <3> QED BY <2>1, <3>1, <3>2, TransactionEnds
  <2>4. CASE ~Session!Writes(s) /\ image[s] = Unwritten
    <3>1. row' = row /\ touched' = touched
      BY <2>1, <2>4, FlushIsQuiet DEF Session!Claims, SessionInv, Written
    <3> QED BY <2>1, <3>1, TransactionEnds
  <2> QED BY <2>2, <2>3, <2>4
<1>12. ASSUME Session!RollBack(s) PROVE SessionInv'
  BY <1>12, TransactionEnds DEF Session!RollBack
<1> QED BY <1>2, <1>3, <1>4, <1>5, <1>6, <1>7, <1>8, <1>9, <1>10, <1>11, <1>12

LEMMA SessionInvKeepsRows ==
  SessionInv => Session!TypeOK /\ Session!ModifiedIsWhatFlushWrites
<1> SUFFICES ASSUME SessionInv PROVE Session!TypeOK /\ Session!ModifiedIsWhatFlushWrites
  OBVIOUS
<1>1. Session!TypeOK
  BY DEF SessionInv, SessionTypes, OneWriter, Written, Session!TypeOK, Session!Locked, Session!Held
<1>2. ASSUME NEW s \in Sessions, Session!Held(s), entry[s].status # "New", Session!Current(s)
      PROVE  LET after == IF Session!Flushed(s).image = Unwritten THEN row ELSE Session!Flushed(s).image
             IN Session!IsModified(s) <=> after # Session!Visible(s)
  <2> DEFINE x == entry[s]
             w == Session!Flushed(s).image
             after == IF w = Unwritten THEN row ELSE w
             version == x.version + (IF Session!Dirty(x) THEN 1 ELSE 0)
             r == [version |-> version, value |-> x.value]
  <2>1. /\ x \in SessionEntries /\ Session!Visible(s) # NoRow
        /\ Session!Visible(s).version = x.version
    BY <1>2 DEF SessionInv, SessionTypes, Session!Held, Session!Current
  <2>2. x.version \in Nat /\ x.status \in {"Loaded", "Deleted"}
    BY <1>2, <2>1, EntryFacts
  <2>3. CASE x.status = "Deleted"
    <3>1. w = NoRow /\ Session!IsModified(s)
      BY <1>2, <2>3 DEF Session!Flushed, Session!Writes, Session!IsModified
    <3> QED BY <2>1, <3>1, RowFacts
  <2>4. CASE x.status = "Loaded" /\ Session!Dirty(x)
    <3>1. w = r /\ Session!IsModified(s)
      BY <1>2, <2>4 DEF Session!Flushed, Session!Writes, Session!IsModified
    <3>2. version = x.version + 1 /\ version \in Nat \ {0} /\ x.value \in RowValues
      BY <2>1, <2>2, <2>4, EntryFacts
    <3>3. r \in Session!Rows /\ r.version = version
      <4> HIDE DEF version, x
      <4> QED BY <3>2 DEF Session!Rows
    <3> HIDE DEF r, x, version
    <3>4. after = w /\ w.version # Session!Visible(s).version
      BY <2>1, <2>2, <3>1, <3>2, <3>3, RowFacts
    <3> QED BY <3>1, <3>4
  <2>5. CASE x.status = "Loaded" /\ ~Session!Dirty(x)
    <3>1. w = image[s] /\ ~Session!IsModified(s)
      BY <2>5, FlushIsQuiet DEF Session!Writes, Session!IsModified
    <3> QED BY <3>1 DEF Session!Visible
  <2> QED BY <2>2, <2>3, <2>4, <2>5
<1>3. Session!ModifiedIsWhatFlushWrites
  BY <1>2 DEF Session!ModifiedIsWhatFlushWrites
<1> QED BY <1>1, <1>3

LEMMA EvictedStays ==
  ASSUME SessionInv, NEW s \in Sessions, Session!FlushAndEvict(s), Session!Writes(s)
  PROVE  IF entry[s].status = "Deleted" THEN Session!Visible(s)' = NoRow
         ELSE Session!Visible(s)' # NoRow /\ Session!Visible(s)'.value = entry[s].value
<1> DEFINE w == Session!Flushed(s).image
<1>1. IF entry[s].status = "Deleted" THEN w = NoRow ELSE w \in Session!Rows /\ w.value = entry[s].value
  BY FlushWrites DEF Session!FlushAndEvict
<1>2. image'[s] = w
  BY DEF Session!FlushAndEvict, Session!Write, SessionInv, SessionTypes
<1> HIDE DEF w
<1>3. Session!Visible(s)' = w
  BY <1>1, <1>2, RowFacts DEF Session!Visible
<1> QED BY <1>1, <1>3, RowFacts

LEMMA ClaimIsCurrent ==
  ASSUME SessionInv, NEW s \in Sessions, Session!Commit(s), Session!Claims(s)
  PROVE  claims[s].read = touched
<1>1. CASE Session!Writes(s)
  BY <1>1, FlushWrites DEF Session!Commit, Writable
<1>2. CASE claims[s].made
  BY <1>2 DEF SessionInv, Written
<1> QED BY <1>1, <1>2 DEF Session!Claims

\* Persistence moves the sessions by steps of their own.
LEMMA SessionsMoveAlone ==
  /\ PersistenceInit => Session!Init
  /\ [PersistenceNext]_all => [Session!Next]_(Session!vars)
  /\ UNCHANGED all => UNCHANGED Session!vars
BY DEF PersistenceInit, PersistenceNext, IdentityMoves, SessionMoves, FlushMoves, FindersMove,
       ServicesMove, all, sessionVars, Session!vars

\* However the transactions of any number of sessions interleave, FlushAndEvict
\* loses no change, IsModified agrees with what a flush would write, and the
\* version keeps out who has not read the last claim on the row
\* (SessionExtensions).
THEOREM SessionsAreSafe == PersistenceSpec => SessionsKeepRows
<1>1. PersistenceInit => SessionInv
  BY SessionsMoveAlone, SessionInvInit
<1>2. SessionInv /\ [PersistenceNext]_all => SessionInv'
  BY SessionsMoveAlone, SessionInvStep
<1>3. SessionInv /\ [PersistenceNext]_all =>
        [\A s \in Sessions : Session!FlushAndEvict(s) /\ Session!Writes(s) =>
           IF entry[s].status = "Deleted" THEN Session!Visible(s)' = NoRow
           ELSE Session!Visible(s)' # NoRow /\ Session!Visible(s)'.value = entry[s].value]_(Session!vars)
  BY EvictedStays
<1>4. SessionInv /\ [PersistenceNext]_all =>
        [\A s \in Sessions : Session!Commit(s) /\ Session!Claims(s) => claims[s].read = touched]_(Session!vars)
  BY ClaimIsCurrent
<1>5. PersistenceSpec => []SessionInv
  BY <1>1, <1>2, PTL DEF PersistenceSpec
<1>6. PersistenceSpec => []Session!TypeOK /\ []Session!ModifiedIsWhatFlushWrites
  BY <1>5, SessionInvKeepsRows, PTL
<1>7. PersistenceSpec => Session!EvictedIsStored
  BY <1>3, <1>5, PTL DEF PersistenceSpec, Session!EvictedIsStored
<1>8. PersistenceSpec => Session!WritersAreCurrent
  BY <1>4, <1>5, PTL DEF PersistenceSpec, Session!WritersAreCurrent
<1> QED BY <1>6, <1>7, <1>8 DEF SessionsKeepRows
=============================================================================
