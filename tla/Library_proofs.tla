--------------------------- MODULE Library_proofs ---------------------------
(***************************************************************************)
(* What is proved of the parts of Library, for any number of sessions,     *)
(* signatures, threads, types, calls of a builder, test classes and tests; *)
(* each part first by itself, then as the composition moves it.            *)
(***************************************************************************)
EXTENDS Library, FiniteSetTheorems, SequenceTheorems, WellFoundedInduction, NaturalsInduction, TLAPS

(***************************************************************************)
(* DuplicateCheck: the flush mode of a session survives every check, and   *)
(* two rows with one domain signature tell of a commit that came between a *)
(* check and the commit it was made for.                                   *)
(***************************************************************************)
\* Inside the checker the mode is Manual and the local has the old one.
ModeInv ==
  \A s \in Sessions :
    IF step[s] = "idle" THEN mode[s] = chosen[s]
    ELSE mode[s] = "Manual" /\ previous[s] = chosen[s]

\* A signature that another session has committed, and that this one has
\* committed, written or is allowed to write, was missed by its check.
OverlapInv ==
  \A s, t \in Sessions : s # t =>
    /\ committed[s] # NoRow /\ committed[s] = committed[t] => {s, t} \in overlapped
    /\ row[s] # NoRow /\ row[s] # committed[s] /\ row[s] = committed[t] => t \in missed[s]
    /\ verdict[s] = "unique" /\ signature[s] = committed[t] => t \in missed[s]

CheckInv ==
  /\ TypeOK
  /\ ModeInv
  /\ NullIsDistinct => OverlapInv

LEMMA CheckInvInit == Init => CheckInv
BY DEF Init, CheckInv, TypeOK, FlushModes, Verdicts, ModeInv, OverlapInv

LEMMA CheckInvStep == CheckInv /\ [Next]_vars => CheckInv'
<1> SUFFICES ASSUME CheckInv, [Next]_vars PROVE CheckInv'
  OBVIOUS
<1> USE DuplicateAssumption DEF CheckInv
<1>1. CASE UNCHANGED vars
  BY <1>1 DEF vars, TypeOK, ModeInv, OverlapInv
<1>2. ASSUME NEW s \in Sessions, Check(s) PROVE CheckInv'
  <2>1. TypeOK' /\ ModeInv'
    BY <1>2 DEF Check, TypeOK, FlushModes, ModeInv
  <2>2. NullIsDistinct => OverlapInv'
    BY <1>2 DEF Check, OverlapInv
  <2> QED BY <2>1, <2>2
<1>3. ASSUME NEW s \in Sessions, Query(s) PROVE CheckInv'
  <2>1. row' = row
    BY <1>3 DEF Query, Answer, ModeInv
  <2>2. /\ \E v \in Verdicts : verdict' = [verdict EXCEPT ![s] = v]
        /\ \E kept \in {{}, missed[s]} : missed' = [missed EXCEPT ![s] = kept]
    BY <1>3 DEF Query, Answer, Verdicts
  <2>3. /\ verdict'[s] = "unique" => Duplicates(s) = {}
        /\ row[s] # committed[s] => missed' = missed
    BY <1>3, <2>1 DEF Query, Answer, TypeOK
  <2>4. TypeOK' /\ ModeInv'
    BY <1>3, <2>1, <2>2 DEF Query, Answer, TypeOK, ModeInv
  <2>5. ASSUME NullIsDistinct PROVE OverlapInv'
    <3> SUFFICES ASSUME NEW u \in Sessions, NEW t \in Sessions, u # t
        PROVE  /\ committed'[u] # NoRow /\ committed'[u] = committed'[t] => {u, t} \in overlapped'
               /\ row'[u] # NoRow /\ row'[u] # committed'[u] /\ row'[u] = committed'[t] => t \in missed'[u]
               /\ verdict'[u] = "unique" /\ signature'[u] = committed'[t] => t \in missed'[u]
      BY DEF OverlapInv
    <3>1. UNCHANGED <<signature, committed, overlapped>>
      BY <1>3 DEF Query, Answer
    <3>2. CASE u = s
      BY <2>1, <2>3, <2>5, <3>1, <3>2 DEF OverlapInv, Duplicates
    <3>3. CASE u # s
      BY <2>1, <2>2, <2>5, <3>1, <3>3 DEF OverlapInv, TypeOK
    <3> QED BY <3>2, <3>3
  <2> QED BY <2>4, <2>5
<1>4. ASSUME NEW s \in Sessions, Throw(s) PROVE CheckInv'
  <2>1. TypeOK' /\ ModeInv'
    BY <1>4 DEF Throw, TypeOK, Verdicts, ModeInv
  <2>2. NullIsDistinct => OverlapInv'
    BY <1>4 DEF Throw, TypeOK, OverlapInv
  <2> QED BY <2>1, <2>2
<1>5. ASSUME NEW s \in Sessions, Leave(s) PROVE CheckInv'
  <2>1. TypeOK' /\ ModeInv'
    BY <1>5 DEF Leave, TypeOK, ModeInv
  <2>2. NullIsDistinct => OverlapInv'
    BY <1>5 DEF Leave, OverlapInv
  <2> QED BY <2>1, <2>2
<1>6. ASSUME NEW s \in Sessions, Change(s) PROVE CheckInv'
  <2>1. TypeOK' /\ ModeInv'
    BY <1>6 DEF Change, TypeOK, Verdicts, ModeInv
  <2>2. NullIsDistinct => OverlapInv'
    BY <1>6 DEF Change, TypeOK, OverlapInv
  <2> QED BY <2>1, <2>2
<1>7. ASSUME NEW s \in Sessions, ChooseFlushMode(s) PROVE CheckInv'
  <2>1. TypeOK' /\ ModeInv'
    BY <1>7 DEF ChooseFlushMode, TypeOK, ModeInv
  <2>2. NullIsDistinct => OverlapInv'
    BY <1>7 DEF ChooseFlushMode, OverlapInv
  <2> QED BY <2>1, <2>2
<1>8. ASSUME NEW s \in Sessions, Save(s) PROVE CheckInv'
  BY <1>8 DEF Save, TypeOK, ModeInv, OverlapInv
<1>9. ASSUME NEW s \in Sessions, Flush(s) PROVE CheckInv'
  <2>1. row' = [row EXCEPT ![s] = signature[s]] /\ verdict[s] = "unique"
    BY <1>9 DEF Flush, Flushed, Dirty
  <2>2. TypeOK' /\ ModeInv'
    BY <1>9, <2>1 DEF Flush, TypeOK, ModeInv
  <2>3. NullIsDistinct => OverlapInv'
    BY <1>9, <2>1 DEF Flush, TypeOK, OverlapInv
  <2> QED BY <2>2, <2>3
<1>10. ASSUME NEW s \in Sessions, Commit(s) PROVE CheckInv'
  <2>1. /\ row' = row \/ (row' = [row EXCEPT ![s] = signature[s]] /\ verdict[s] = "unique")
        /\ committed' = [committed EXCEPT ![s] = row'[s]]
        /\ verdict' = [verdict EXCEPT ![s] = "none"]
        /\ step[s] = "idle"
        /\ UNCHANGED <<mode, chosen, previous, step, signature, attached>>
    BY <1>10 DEF Commit, Flushed, Dirty, TypeOK
  <2>2. \/ row'[s] = committed[s] /\ UNCHANGED <<missed, overlapped>>
        \/ /\ missed' = [t \in Sessions |-> IF t = s THEN {} ELSE missed[t] \cup {s}]
           /\ overlapped' = {pair \in overlapped : s \notin pair} \cup {{s, t} : t \in missed[s]}
    BY <1>10 DEF Commit
  <2>3. TypeOK' /\ ModeInv'
    <3>1. missed' \in [Sessions -> SUBSET Sessions] /\ overlapped' \subseteq SUBSET Sessions
      BY <2>2 DEF TypeOK
    <3>2. /\ row' \in [Sessions -> Signatures \cup {NoRow}]
          /\ committed' \in [Sessions -> Signatures \cup {NoRow}]
          /\ verdict' \in [Sessions -> Verdicts]
      BY <2>1 DEF TypeOK, Verdicts
    <3> QED BY <2>1, <3>1, <3>2 DEF TypeOK, ModeInv
  <2>4. ASSUME NullIsDistinct PROVE OverlapInv'
    <3> SUFFICES ASSUME NEW u \in Sessions, NEW t \in Sessions, u # t
        PROVE  /\ committed'[u] # NoRow /\ committed'[u] = committed'[t] => {u, t} \in overlapped'
               /\ row'[u] # NoRow /\ row'[u] # committed'[u] /\ row'[u] = committed'[t] => t \in missed'[u]
               /\ verdict'[u] = "unique" /\ signature'[u] = committed'[t] => t \in missed'[u]
      BY DEF OverlapInv
    <3>1. /\ committed'[s] = row'[s] /\ verdict'[s] = "none"
          /\ \A x \in Sessions \ {s} : /\ row'[x] = row[x] /\ committed'[x] = committed[x]
                                       /\ verdict'[x] = verdict[x]
      BY <2>1 DEF TypeOK
    <3>2. ASSUME NEW x \in Sessions, x # s, row'[s] # NoRow, row'[s] # committed[s], row'[s] = committed[x]
          PROVE  x \in missed[s]
      BY <2>1, <2>4, <3>2 DEF OverlapInv, TypeOK
    <3>3. CASE row'[s] = committed[s] /\ UNCHANGED <<missed, overlapped>>
      <4>1. committed' = committed
        BY <2>1, <3>3 DEF TypeOK
      <4>2. CASE u = s
        BY <2>4, <3>1, <3>3, <4>1, <4>2 DEF OverlapInv
      <4>3. CASE u # s
        BY <2>1, <2>4, <3>1, <3>3, <4>1, <4>3 DEF OverlapInv
      <4> QED BY <4>2, <4>3
    <3>4. CASE /\ row'[s] # committed[s]
               /\ missed' = [x \in Sessions |-> IF x = s THEN {} ELSE missed[x] \cup {s}]
               /\ overlapped' = {pair \in overlapped : s \notin pair} \cup {{s, x} : x \in missed[s]}
      <4>1. CASE u = s
        <5>1. committed'[s] # NoRow /\ committed'[s] = committed'[t] => t \in missed[s]
          BY <3>1, <3>2, <3>4, <4>1
        <5>2. t \in missed[s] => {s, t} \in overlapped'
          BY <3>4
        <5> QED BY <3>1, <4>1, <5>1, <5>2
      <4>2. CASE t = s
        <5>1. committed'[u] # NoRow /\ committed'[u] = committed'[s] => u \in missed[s]
          BY <3>1, <3>2, <3>4, <4>2
        <5>2. u \in missed[s] => {u, s} \in overlapped'
          BY <3>4
        <5>3. s \in missed'[u]
          BY <3>4, <4>2
        <5> QED BY <4>2, <5>1, <5>2, <5>3
      <4>3. CASE u # s /\ t # s
        <5>1. {u, t} \in overlapped => {u, t} \in overlapped'
          BY <3>4, <4>3
        <5>2. missed[u] \subseteq missed'[u]
          BY <3>4, <4>3
        <5> QED BY <2>1, <2>4, <3>1, <4>3, <5>1, <5>2 DEF OverlapInv
      <4> QED BY <4>1, <4>2, <4>3
    <3> QED BY <1>10, <3>3, <3>4 DEF Commit
  <2> QED BY <2>3, <2>4
<1> QED
  BY <1>1, <1>2, <1>3, <1>4, <1>5, <1>6, <1>7, <1>8, <1>9, <1>10 DEF Next, SessionStep

\* The invariant of the checker and of what its answers miss.
THEOREM CheckInvariant == Spec => []CheckInv
BY CheckInvInit, CheckInvStep, PTL DEF Spec

\* The variables keep their types.
THEOREM DuplicateTypeCorrect == Spec => []TypeOK
<1>1. CheckInv => TypeOK
  BY DEF CheckInv
<1> QED BY <1>1, CheckInvariant, PTL

\* No check, not even one that throws, leaves the session in another mode.
THEOREM FlushModeSurvives == Spec => []FlushModeKept
<1>1. CheckInv => FlushModeKept
  BY DEF CheckInv, ModeInv, FlushModeKept
<1> QED BY <1>1, CheckInvariant, PTL

\* Checks write nothing for the session.
THEOREM ChecksWriteNothing == Spec => CheckWritesNothing
<1>1. ASSUME CheckInv, [Next]_vars, NEW s \in Sessions, step[s] # "idle"
      PROVE  row'[s] = row[s]
  <2>1. ASSUME NEW t \in Sessions, SessionStep(t) PROVE row'[s] = row[s]
    BY <1>1, <2>1 DEF CheckInv, ModeInv, TypeOK, SessionStep, Flushed, Dirty, Check, Query, Answer,
                      Throw, Leave, Change, ChooseFlushMode, Save, Flush, Commit
  <2> QED BY <1>1, <2>1 DEF Next, vars
<1>2. CheckInv /\ [Next]_vars => [\A s \in Sessions : step[s] # "idle" => row'[s] = row[s]]_vars
  BY <1>1
<1> QED BY <1>2, CheckInvariant, PTL DEF Spec, CheckWritesNothing

\* A check keeps the flush mode, writes nothing, and finds no entity to be a
\* duplicate of itself.
THEOREM ChecksAreSafe == Spec => CheckIsSafe
<1> DEFINE Other == \A s \in Sessions : verdict[s] # "duplicate" /\ verdict'[s] = "duplicate"
         => \E t \in Sessions \ {s} : committed[t] = signature[s]
<1>1. ASSUME CheckInv, [Next]_vars, NEW s \in Sessions,
             verdict[s] # "duplicate", verdict'[s] = "duplicate"
      PROVE  \E t \in Sessions \ {s} : committed[t] = signature[s]
  <2>1. ASSUME NEW t \in Sessions, SessionStep(t), verdict'[s] = "duplicate"
        PROVE  s = t /\ Query(s)
    BY <1>1, <2>1 DEF CheckInv, TypeOK, Verdicts, SessionStep, Check, Query, Answer,
                      Throw, Leave, Change, ChooseFlushMode, Save, Flush, Commit
  <2>2. Query(s)
    BY <1>1, <2>1 DEF Next, vars
  <2>3. Duplicates(s) # {}
    BY <1>1, <2>2 DEF Query, Answer, CheckInv, TypeOK
  <2> QED BY <2>3 DEF Duplicates
<1>2. CheckInv /\ [Next]_vars => [Other]_vars
  BY <1>1
<1>3. Spec => SelfIsNoDuplicate
  BY <1>2, CheckInvariant, PTL DEF Spec, SelfIsNoDuplicate
<1> QED
  BY <1>3, DuplicateTypeCorrect, FlushModeSurvives, ChecksWriteNothing, PTL DEF CheckIsSafe

\* Committed rows share a domain signature only when one of them was committed
\* between the check of the other session and its commit
\* (EntityDuplicateChecker: nothing holds what the query did not find).
THEOREM SignaturesStayUnique == Spec => []SignaturesUnique
<1>1. CheckInv => SignaturesUnique
  BY DEF CheckInv, OverlapInv, SignaturesUnique
<1> QED BY <1>1, CheckInvariant, PTL

\* In the library the sessions of DuplicateCheck move or rest.
LEMMA LibraryMovesSessions == LibrarySpec => Spec
<1>1. LibraryInit => Init
  BY DEF LibraryInit
<1>2. [LibraryNext]_all => [Next]_vars
  BY DEF LibraryNext, all, CheckMoves, DescriptorMoves, BuilderMoves, DatabaseMoves
<1> QED BY <1>1, <1>2, PTL DEF LibrarySpec, Spec

\* In the library, too, a check borrows the flush mode, writes nothing and finds
\* no entity to duplicate itself (EntityDuplicateChecker).
THEOREM LibraryChecksAreSafe == LibrarySpec => CheckIsSafe
BY LibraryMovesSessions, ChecksAreSafe

\* In the library, too, only sessions that overlap commit one signature twice.
THEOREM LibrarySignaturesAreUnique == LibrarySpec => []SignaturesUnique
BY LibraryMovesSessions, SignaturesStayUnique

(***************************************************************************)
(* SignatureCache: what lookups have returned since the last Clear is what *)
(* the cache holds, a thread about to return has read it there unless the  *)
(* cache was cleared meanwhile, and nothing is made for a type whose       *)
(* signature is ambiguous.                                                 *)
(***************************************************************************)
DescriptorInv ==
  /\ Descriptor!TypeOK
  /\ \A x \in Types : answers[x] \subseteq {cache[x]}
  /\ \A t \in Threads : stage[t] = "return" /\ ~overtaken[t] => descriptor[t] = cache[type[t]]
  /\ \A x \in Ambiguous : cache[x] = NoDescriptor
  /\ \A t \in Threads : type[t] \in Ambiguous => stage[t] \notin {"add", "return"}

LEMMA DescriptorInvInit == Descriptor!Init => DescriptorInv
BY LibraryAssumption
   DEF Descriptor!SignatureAssumption, Descriptor!Init, DescriptorInv, Descriptor!TypeOK, Descriptor!Idle

LEMMA DescriptorInvStep == DescriptorInv /\ [Descriptor!Next]_(Descriptor!vars) => DescriptorInv'
<1> SUFFICES ASSUME DescriptorInv, [Descriptor!Next]_(Descriptor!vars) PROVE DescriptorInv'
  OBVIOUS
<1> USE LibraryAssumption DEF Descriptor!SignatureAssumption, DescriptorInv, Descriptor!TypeOK, Descriptor!Idle
<1>1. CASE UNCHANGED Descriptor!vars
  BY <1>1 DEF Descriptor!vars
<1>2. ASSUME NEW t \in Threads, NEW x \in Types, Descriptor!GetSignatureProperties(t, x)
      PROVE  DescriptorInv'
  BY <1>2 DEF Descriptor!GetSignatureProperties
<1>3. ASSUME NEW t \in Threads, Descriptor!Find(t) \/ Descriptor!GetOrAdd(t) PROVE DescriptorInv'
  BY <1>3 DEF Descriptor!Find, Descriptor!GetOrAdd, Descriptor!LookUp
<1>4. ASSUME NEW t \in Threads, Descriptor!Create(t) PROVE DescriptorInv'
  <2>1. Descriptor!Fresh \in Descriptors
    BY <1>4 DEF Descriptor!Create, Descriptor!Room, Descriptor!Fresh
  <2> QED BY <1>4, <2>1 DEF Descriptor!Create
<1>5. ASSUME NEW t \in Threads, Descriptor!TryAdd(t) PROVE DescriptorInv'
  BY <1>5 DEF Descriptor!TryAdd
<1>6. ASSUME NEW t \in Threads, Descriptor!Return(t) PROVE DescriptorInv'
  BY <1>6 DEF Descriptor!Return
<1>7. CASE Descriptor!Clear
  BY <1>7 DEF Descriptor!Clear
<1> QED BY <1>1, <1>2, <1>3, <1>4, <1>5, <1>6, <1>7 DEF Descriptor!Next, Descriptor!Step

LEMMA DescriptorInvImplies == DescriptorInv => DescriptorsAgree
BY LibraryAssumption
   DEF Descriptor!SignatureAssumption, DescriptorInv, Descriptor!TypeOK, DescriptorsAgree,
       Descriptor!OneDescriptorPerType, Descriptor!AmbiguousAlwaysRefused

\* Library moves the cache by steps of its own.
LEMMA DescriptorMovesAlone ==
  /\ LibraryInit => Descriptor!Init
  /\ [LibraryNext]_all => [Descriptor!Next]_(Descriptor!vars)
BY DEF LibraryInit, LibraryNext, CheckMoves, DescriptorMoves, BuilderMoves, DatabaseMoves,
       all, descriptorVars, Descriptor!vars

\* Any number of threads that look up the signature properties of a type get
\* one object, and an ambiguous type is always refused
\* (TypePropertyDescriptorCache.GetOrAdd).
THEOREM LookupsAgree == LibrarySpec => []DescriptorsAgree
<1>1. LibraryInit => DescriptorInv
  BY DescriptorMovesAlone, DescriptorInvInit
<1>2. DescriptorInv /\ [LibraryNext]_all => DescriptorInv'
  BY DescriptorMovesAlone, DescriptorInvStep
<1> QED BY <1>1, <1>2, DescriptorInvImplies, PTL DEF LibrarySpec

(***************************************************************************)
(* SessionFactoryBuilder.  What the fields of the builder hold is what the *)
(* calls add up to: the argument of the last call of a kind where a call   *)
(* replaces, and all of them in order where it adds.                       *)
(***************************************************************************)
Call ==
  {"AddMappingAssemblies"} \X Assemblies \cup {"UseProperties"} \X (Keys \X Settings)
    \cup {"UseConfigFile"} \X (Files \cup {DefaultName})
    \cup {"UsePersistenceConfigurer"} \X Configurers
    \cup {"UseCache"} \X (Caches \cup {Builder!Empty}) \cup {"UseAutoPersistenceModel"} \X Models
    \cup {"UseDataAnnotationValidators"} \X BOOLEAN \cup {"ExposeConfiguration"} \X Exposed

\* The calls that gave property k a value.
Valued(k) == {i \in Builder!Given("UseProperties") : calls[i][2][1] = k}

MappingsAdded ==
  LET named == Builder!Given("AddMappingAssemblies")
  IN /\ mappingAssemblies \in Seq(Assemblies) /\ Len(mappingAssemblies) = Cardinality(named)
     /\ \A i \in named : mappingAssemblies[Builder!Place(named, i)] = calls[i][2]

PropertiesAdded ==
  /\ DOMAIN properties = {k \in Keys : Valued(k) # {}}
  /\ \A k \in DOMAIN properties : properties[k] = Builder!LastOr(Valued(k), <<k, Nothing>>)[2]

LastReplaces ==
  /\ configFile = Builder!LastOr(Builder!Given("UseConfigFile"), Nothing)
  /\ persistenceConfigurer = Builder!LastOr(Builder!Given("UsePersistenceConfigurer"), Builder!Empty)
  /\ cacheSettings = Builder!LastOr(Builder!Given("UseCache"), Builder!Empty)
  /\ autoPersistenceModel = Builder!LastOr(Builder!Given("UseAutoPersistenceModel"), Nothing)
  /\ useDataAnnotationValidators = Builder!LastOr(Builder!Given("UseDataAnnotationValidators"), FALSE)
  /\ exposeConfiguration = Builder!LastOr(Builder!Given("ExposeConfiguration"), Nothing)

BuilderInv ==
  /\ calls \in Seq(Call)
  /\ MappingsAdded
  /\ PropertiesAdded
  /\ LastReplaces
  /\ persistenceConfigurer \in Configurers \cup {Builder!Empty}
  /\ cacheSettings \in Caches \cup {Builder!Empty}
  /\ exposeConfiguration \in Exposed \cup {Nothing}
  /\ useDataAnnotationValidators \in BOOLEAN

LEMMA SameCardinality == \A S : Builder!Cardinality(S) = Cardinality(S)
BY DEF Builder!Cardinality, Cardinality

LEMMA PlaceIsRank == \A named, i : Builder!Place(named, i) = Cardinality({j \in named : j <= i})
BY SameCardinality DEF Builder!Place

LEMMA MaxIsIn ==
  ASSUME NEW n \in Nat, NEW G \in SUBSET (1 .. n), G # {}
  PROVE  Builder!Max(G) \in G /\ \A i \in G : i <= Builder!Max(G)
<1> DEFINE T == {m \in Nat : n - m \in G}
<1> DEFINE less == {pair \in Nat \X Nat : pair[1] < pair[2]}
<1>1. IsWellFoundedOn(less, Nat)
  BY NatLessThanWellFounded DEF OpToRel
<1>2. PICK i \in G : TRUE
  OBVIOUS
<1>3. i \in 1 .. n /\ n - i \in Nat /\ n - (n - i) = i
  OBVIOUS
<1>4. n - i \in T
  BY <1>2, <1>3
<1>5. PICK m \in T : \A k \in T : <<k, m>> \notin less
  BY <1>1, <1>4, WFMin
<1>6. \A j \in G : n - j \in Nat /\ n - (n - j) = j
  OBVIOUS
<1>7. \A j \in G : n - j \in T
  BY <1>6
<1>8. \A j \in G : ~(n - j < m)
  BY <1>5, <1>6, <1>7
<1>9. n - m \in G /\ m \in Nat
  OBVIOUS
<1> HIDE DEF T, less
<1>10. \A j \in G : n - m >= j
  BY <1>8, <1>9
<1> QED BY <1>9, <1>10 DEF Builder!Max

\* A call comes after all others and changes nothing of them.
LEMMA CallIsLast ==
  ASSUME NEW name, NEW argument, <<name, argument>> \in Call, calls \in Seq(Call),
         Builder!Called(name, argument)
  PROVE  LET n == Len(calls)
         IN /\ n \in Nat /\ calls' \in Seq(Call)
            /\ DOMAIN calls = 1 .. n /\ DOMAIN calls' = 1 .. n + 1
            /\ \A i \in 1 .. n : calls'[i] = calls[i]
            /\ calls'[n + 1] = <<name, argument>>
<1> DEFINE c == <<name, argument>>
<1> HIDE DEF c
<1>1. c \in Call /\ calls' = Append(calls, c)
  BY DEF c, Builder!Called
<1> QED BY <1>1, AppendProperties DEF c

LEMMA CallIsGiven ==
  ASSUME NEW name, NEW argument, <<name, argument>> \in Call, calls \in Seq(Call),
         Builder!Called(name, argument)
  PROVE  /\ Builder!Given(name)' = Builder!Given(name) \cup {Len(calls) + 1}
         /\ \A other : other # name => Builder!Given(other)' = Builder!Given(other)
         /\ \A other : Builder!Given(other) \in SUBSET (1 .. Len(calls))
<1> DEFINE n == Len(calls)
<1>1. /\ n \in Nat /\ DOMAIN calls = 1 .. n /\ DOMAIN calls' = 1 .. n + 1
      /\ \A i \in 1 .. n : calls'[i] = calls[i]
      /\ calls'[n + 1][1] = name
  BY CallIsLast
<1>2. 1 .. n + 1 = (1 .. n) \cup {n + 1} /\ n + 1 \notin 1 .. n
  BY <1>1
<1> HIDE DEF n
<1> QED BY <1>1, <1>2 DEF Builder!Given, n

\* The last of some earlier calls stays the last of them.
LEMMA LastStays ==
  ASSUME NEW n \in Nat, NEW G \in SUBSET (1 .. n), NEW default,
         \A i \in 1 .. n : calls'[i] = calls[i]
  PROVE  (IF G = {} THEN default ELSE calls'[Builder!Max(G)][2]) = Builder!LastOr(G, default)
<1>1. CASE G = {}
  BY <1>1 DEF Builder!LastOr
<1>2. CASE G # {}
  BY <1>2, MaxIsIn DEF Builder!LastOr
<1> QED BY <1>1, <1>2

LEMMA LastIsNew ==
  ASSUME NEW n \in Nat, NEW G \in SUBSET (1 .. n)
  PROVE  Builder!Max(G \cup {n + 1}) = n + 1
<1> DEFINE H == G \cup {n + 1}
<1>1. H \in SUBSET (1 .. n + 1) /\ H # {} /\ n + 1 \in H /\ n + 1 \in Nat
  OBVIOUS
<1> HIDE DEF H
<1>2. Builder!Max(H) \in H /\ \A i \in H : i <= Builder!Max(H)
  BY <1>1, MaxIsIn
<1>3. Builder!Max(H) \in 1 .. n + 1 /\ n + 1 <= Builder!Max(H)
  BY <1>1, <1>2
<1> QED BY <1>3 DEF H

\* What the fields that a call replaces should hold, before and after one.
LEMMA CallReplaces ==
  ASSUME NEW name, NEW argument, <<name, argument>> \in Call, calls \in Seq(Call),
         Builder!Called(name, argument), NEW default
  PROVE  /\ Builder!LastOr(Builder!Given(name), default)' = argument
         /\ \A other : other # name =>
              Builder!LastOr(Builder!Given(other), default)' = Builder!LastOr(Builder!Given(other), default)
<1> DEFINE n == Len(calls)
<1>1. /\ n \in Nat /\ \A i \in 1 .. n : calls'[i] = calls[i]
      /\ calls'[n + 1][2] = argument
  BY CallIsLast
<1>2. /\ Builder!Given(name)' = Builder!Given(name) \cup {n + 1}
      /\ \A other : other # name => Builder!Given(other)' = Builder!Given(other)
      /\ \A other : Builder!Given(other) \in SUBSET (1 .. n)
  BY CallIsGiven
<1> HIDE DEF n
<1>3. Builder!LastOr(Builder!Given(name), default)' = argument
  <2>1. Builder!Max(Builder!Given(name) \cup {n + 1}) = n + 1
    BY <1>1, <1>2, LastIsNew
  <2>2. Builder!Given(name)' # {} /\ Builder!Max(Builder!Given(name)') = n + 1
    BY <1>2, <2>1
  <2> QED BY <1>1, <2>2 DEF Builder!LastOr
<1>4. ASSUME NEW other, other # name
      PROVE  Builder!LastOr(Builder!Given(other), default)' = Builder!LastOr(Builder!Given(other), default)
  <2> DEFINE G == Builder!Given(other)
  <2>1. G' = G /\ G \in SUBSET (1 .. n)
    BY <1>2, <1>4
  <2> HIDE DEF G
  <2>2. (IF G = {} THEN default ELSE calls'[Builder!Max(G)][2]) = Builder!LastOr(G, default)
    BY <1>1, <2>1, LastStays
  <2> QED BY <2>1, <2>2 DEF Builder!LastOr, G
<1> QED BY <1>3, <1>4

LEMMA BuilderInvInit == Builder!BuilderInit => BuilderInv
<1> SUFFICES ASSUME Builder!BuilderInit PROVE BuilderInv
  OBVIOUS
<1>1. calls = <<>> /\ \A name : Builder!Given(name) = {}
  BY DEF Builder!BuilderInit, Builder!Given
<1>2. calls \in Seq(Call)
  BY <1>1
<1>3. MappingsAdded
  BY <1>1, FS_EmptySet DEF Builder!BuilderInit, MappingsAdded
<1>4. \A k : Valued(k) = {}
  BY <1>1 DEF Valued
<1>5. PropertiesAdded
  BY <1>4 DEF PropertiesAdded, Builder!BuilderInit, Builder!Empty
<1>6. LastReplaces
  BY <1>1 DEF LastReplaces, Builder!BuilderInit, Builder!LastOr
<1> QED BY <1>2, <1>3, <1>5, <1>6 DEF BuilderInv, Builder!BuilderInit

\* What is true of assemblies and properties stays so when another call is made.
LEMMA AddedStays ==
  ASSUME BuilderInv, NEW name, NEW argument, <<name, argument>> \in Call, Builder!Called(name, argument)
  PROVE  /\ name # "AddMappingAssemblies" /\ mappingAssemblies' = mappingAssemblies => MappingsAdded'
         /\ name # "UseProperties" /\ properties' = properties => PropertiesAdded'
<1> DEFINE n == Len(calls)
<1>1. n \in Nat /\ \A i \in 1 .. n : calls'[i] = calls[i]
  BY CallIsLast DEF BuilderInv
<1>2. \A other : /\ other # name => Builder!Given(other)' = Builder!Given(other)
                 /\ Builder!Given(other) \in SUBSET (1 .. n)
  BY CallIsGiven DEF BuilderInv
<1> HIDE DEF n
<1>3. ASSUME name # "AddMappingAssemblies", mappingAssemblies' = mappingAssemblies PROVE MappingsAdded'
  BY <1>1, <1>2, <1>3 DEF MappingsAdded, BuilderInv
<1>4. ASSUME name # "UseProperties", properties' = properties PROVE PropertiesAdded'
  <2>1. ASSUME NEW k
        PROVE  /\ Valued(k)' = Valued(k) /\ Valued(k) \in SUBSET (1 .. n)
               /\ Builder!LastOr(Valued(k), <<k, Nothing>>)' = Builder!LastOr(Valued(k), <<k, Nothing>>)
    <3> DEFINE G == Valued(k)
               d == <<k, Nothing>>
    <3>1. G' = G /\ G \in SUBSET (1 .. n)
      BY <1>1, <1>2, <1>4 DEF Valued
    <3> HIDE DEF G, d
    <3>2. (IF G = {} THEN d ELSE calls'[Builder!Max(G)][2]) = Builder!LastOr(G, d)
      BY <1>1, <3>1, LastStays
    <3>3. Builder!LastOr(G, d)' = Builder!LastOr(G, d)
      BY <3>1, <3>2 DEF Builder!LastOr, d
    <3> QED BY <3>1, <3>3 DEF G, d
  <2> QED BY <1>4, <2>1 DEF PropertiesAdded, BuilderInv
<1> QED BY <1>3, <1>4

\* An assembly more is mapped.
LEMMA AssemblyAdds ==
  ASSUME BuilderInv, NEW a \in Assemblies, Builder!AddMappingAssemblies(a)
  PROVE  MappingsAdded'
<1> DEFINE named == Builder!Given("AddMappingAssemblies")
           n == Len(calls)
<1>0. <<"AddMappingAssemblies", a>> \in Call /\ Builder!Called("AddMappingAssemblies", a)
  BY DEF Call, Builder!AddMappingAssemblies
<1>1. n \in Nat /\ \A i \in 1 .. n : calls'[i] = calls[i]
  BY <1>0, CallIsLast DEF BuilderInv
<1>2. calls'[n + 1][2] = a
  BY <1>0, CallIsLast DEF BuilderInv
<1>3. named' = named \cup {n + 1} /\ named \in SUBSET (1 .. n)
  BY <1>0, CallIsGiven DEF BuilderInv
<1>4. IsFiniteSet(named)
  <2>1. IsFiniteSet(1 .. n)
    BY <1>1, FS_Interval
  <2> QED BY <1>3, <2>1, FS_Subset
<1>5. Cardinality(named) \in Nat
  BY <1>4, FS_CardinalityType
<1>6. /\ mappingAssemblies \in Seq(Assemblies) /\ Len(mappingAssemblies) = Cardinality(named)
      /\ \A i \in named : mappingAssemblies[Builder!Place(named, i)] = calls[i][2]
  BY DEF BuilderInv, MappingsAdded
<1>7. /\ mappingAssemblies' \in Seq(Assemblies) /\ Len(mappingAssemblies') = Cardinality(named) + 1
      /\ \A p \in 1 .. Cardinality(named) : mappingAssemblies'[p] = mappingAssemblies[p]
      /\ mappingAssemblies'[Cardinality(named) + 1] = a
  BY <1>5, <1>6, AppendProperties DEF Builder!AddMappingAssemblies
<1> HIDE DEF named, n
<1>8. n + 1 \notin named
  BY <1>1, <1>3
<1>9. Cardinality(named') = Cardinality(named) + 1
  <2>1. Cardinality(named \cup {n + 1}) = Cardinality(named) + 1
    BY <1>4, <1>8, FS_AddElement
  <2> QED BY <1>3, <2>1
<1>10. Builder!Place(named', n + 1) = Cardinality(named')
  <2>0. ASSUME NEW j \in named' PROVE j <= n + 1
    <3>1. j \in 1 .. n \/ j = n + 1
      BY <1>3
    <3>2. n + 1 <= n + 1 /\ \A i \in 1 .. n : i <= n + 1
      BY <1>1
    <3> QED BY <3>1, <3>2
  <2>1. {j \in named' : j <= n + 1} = named'
    BY <2>0
  <2>2. Builder!Place(named', n + 1) = Cardinality({j \in named' : j <= n + 1})
    BY PlaceIsRank
  <2> QED BY <2>1, <2>2
<1>11. ASSUME NEW i \in named
       PROVE  Builder!Place(named', i) = Builder!Place(named, i) /\ Builder!Place(named, i) \in 1 .. Cardinality(named)
  <2> DEFINE upTo == {j \in named : j <= i}
  <2>1. {j \in named' : j <= i} = upTo
    BY <1>1, <1>3
  <2>2. IsFiniteSet(upTo) /\ Cardinality(upTo) <= Cardinality(named)
    BY <1>4, FS_Subset
  <2>3. Cardinality(upTo) \in Nat
    BY <2>2, FS_CardinalityType
  <2>4. i \in upTo
    BY <1>1, <1>3
  <2> HIDE DEF upTo
  <2>5. Cardinality(upTo) # 0
    BY <2>2, <2>4, FS_EmptySet
  <2>6. Builder!Place(named', i) = Cardinality(upTo) /\ Builder!Place(named, i) = Cardinality(upTo)
    BY <2>1, PlaceIsRank DEF upTo
  <2> QED BY <1>5, <2>2, <2>3, <2>5, <2>6
<1>12. ASSUME NEW i \in named' PROVE mappingAssemblies'[Builder!Place(named', i)] = calls'[i][2]
  <2>1. CASE i = n + 1
    BY <1>2, <1>7, <1>9, <1>10, <2>1
  <2>2. CASE i \in named
    BY <1>1, <1>3, <1>6, <1>7, <1>11, <2>2
  <2> QED BY <1>3, <2>1, <2>2
<1> QED BY <1>7, <1>9, <1>12 DEF MappingsAdded, named

\* A value given to k replaces the one before it.
LEMMA PropertyAdds ==
  ASSUME BuilderInv, NEW k \in Keys, NEW v \in Settings, Builder!UseProperties(k, v)
  PROVE  PropertiesAdded'
<1> DEFINE n == Len(calls)
           pair == <<k, v>>
<1>0. <<"UseProperties", pair>> \in Call /\ Builder!Called("UseProperties", pair)
  BY DEF Call, Builder!UseProperties
<1> HIDE DEF pair
<1>1. n \in Nat /\ \A i \in 1 .. n : calls'[i] = calls[i]
  BY <1>0, CallIsLast DEF BuilderInv
<1>2. calls'[n + 1][2] = pair
  BY <1>0, CallIsLast DEF BuilderInv
<1>3. /\ Builder!Given("UseProperties")' = Builder!Given("UseProperties") \cup {n + 1}
      /\ Builder!Given("UseProperties") \in SUBSET (1 .. n)
  BY <1>0, CallIsGiven DEF BuilderInv
<1> HIDE DEF n
<1>4. \A l : Valued(l) \in SUBSET (1 .. n)
  BY <1>3 DEF Valued
<1>5. \A l : Valued(l)' = IF l = k THEN Valued(l) \cup {n + 1} ELSE Valued(l)
  BY <1>1, <1>2, <1>3 DEF Valued, pair
<1>6. /\ DOMAIN properties' = DOMAIN properties \cup {k}
      /\ properties'[k] = v
      /\ \A l \in DOMAIN properties \ {k} : properties'[l] = properties[l]
  BY DEF Builder!UseProperties, Builder!Override
<1>7. Builder!LastOr(Valued(k), <<k, Nothing>>)' = pair
  <2>1. Builder!Max(Valued(k) \cup {n + 1}) = n + 1
    BY <1>1, <1>4, LastIsNew
  <2> QED BY <1>2, <1>5, <2>1 DEF Builder!LastOr
<1>8. ASSUME NEW l, l # k
      PROVE  Builder!LastOr(Valued(l), <<l, Nothing>>)' = Builder!LastOr(Valued(l), <<l, Nothing>>)
  <2> DEFINE G == Valued(l)
             d == <<l, Nothing>>
  <2>1. G' = G /\ G \in SUBSET (1 .. n)
    BY <1>4, <1>5, <1>8
  <2> HIDE DEF G, d
  <2>2. (IF G = {} THEN d ELSE calls'[Builder!Max(G)][2]) = Builder!LastOr(G, d)
    BY <1>1, <2>1, LastStays
  <2>3. Builder!LastOr(G, d)' = Builder!LastOr(G, d)
    BY <2>1, <2>2 DEF Builder!LastOr, d
  <2> QED BY <2>3 DEF G, d
<1>9. DOMAIN properties' = {l \in Keys : Valued(l)' # {}}
  BY <1>5, <1>6 DEF BuilderInv, PropertiesAdded
<1>10. ASSUME NEW l \in DOMAIN properties'
       PROVE  properties'[l] = Builder!LastOr(Valued(l), <<l, Nothing>>)'[2]
  <2>1. CASE l = k
    BY <1>6, <1>7, <2>1 DEF pair
  <2>2. CASE l # k
    BY <1>6, <1>8, <2>2 DEF BuilderInv, PropertiesAdded
  <2> QED BY <2>1, <2>2
<1> QED BY <1>9, <1>10 DEF PropertiesAdded

\* A call that replaces a field puts its argument there and leaves the others.
LEMMA CallIsHeeded ==
  ASSUME BuilderInv, NEW name, NEW argument, <<name, argument>> \in Call, Builder!Called(name, argument),
         configFile' = IF name = "UseConfigFile" THEN argument ELSE configFile,
         persistenceConfigurer' =
           IF name = "UsePersistenceConfigurer" THEN argument ELSE persistenceConfigurer,
         cacheSettings' =
           IF name = "UseCache" THEN argument ELSE cacheSettings,
         autoPersistenceModel' =
           IF name = "UseAutoPersistenceModel" THEN argument ELSE autoPersistenceModel,
         useDataAnnotationValidators' =
           IF name = "UseDataAnnotationValidators" THEN argument ELSE useDataAnnotationValidators,
         exposeConfiguration' =
           IF name = "ExposeConfiguration" THEN argument ELSE exposeConfiguration
  PROVE  LastReplaces'
<1>1. configFile' = Builder!LastOr(Builder!Given("UseConfigFile"), Nothing)'
  <2>1. CASE name = "UseConfigFile"
    BY <2>1, CallReplaces DEF BuilderInv
  <2>2. CASE name # "UseConfigFile"
    <3>1. Builder!LastOr(Builder!Given("UseConfigFile"), Nothing)' = Builder!LastOr(Builder!Given("UseConfigFile"), Nothing)
      BY <2>2, CallReplaces DEF BuilderInv
    <3> QED BY <2>2, <3>1 DEF BuilderInv, LastReplaces
  <2> QED BY <2>1, <2>2
<1>2. persistenceConfigurer' = Builder!LastOr(Builder!Given("UsePersistenceConfigurer"), Builder!Empty)'
  <2>1. CASE name = "UsePersistenceConfigurer"
    BY <2>1, CallReplaces DEF BuilderInv
  <2>2. CASE name # "UsePersistenceConfigurer"
    <3>1. Builder!LastOr(Builder!Given("UsePersistenceConfigurer"), Builder!Empty)' = Builder!LastOr(Builder!Given("UsePersistenceConfigurer"), Builder!Empty)
      BY <2>2, CallReplaces DEF BuilderInv
    <3> QED BY <2>2, <3>1 DEF BuilderInv, LastReplaces
  <2> QED BY <2>1, <2>2
<1>3. cacheSettings' = Builder!LastOr(Builder!Given("UseCache"), Builder!Empty)'
  <2>1. CASE name = "UseCache"
    BY <2>1, CallReplaces DEF BuilderInv
  <2>2. CASE name # "UseCache"
    <3>1. Builder!LastOr(Builder!Given("UseCache"), Builder!Empty)' = Builder!LastOr(Builder!Given("UseCache"), Builder!Empty)
      BY <2>2, CallReplaces DEF BuilderInv
    <3> QED BY <2>2, <3>1 DEF BuilderInv, LastReplaces
  <2> QED BY <2>1, <2>2
<1>4. autoPersistenceModel' = Builder!LastOr(Builder!Given("UseAutoPersistenceModel"), Nothing)'
  <2>1. CASE name = "UseAutoPersistenceModel"
    BY <2>1, CallReplaces DEF BuilderInv
  <2>2. CASE name # "UseAutoPersistenceModel"
    <3>1. Builder!LastOr(Builder!Given("UseAutoPersistenceModel"), Nothing)' = Builder!LastOr(Builder!Given("UseAutoPersistenceModel"), Nothing)
      BY <2>2, CallReplaces DEF BuilderInv
    <3> QED BY <2>2, <3>1 DEF BuilderInv, LastReplaces
  <2> QED BY <2>1, <2>2
<1>5. useDataAnnotationValidators' = Builder!LastOr(Builder!Given("UseDataAnnotationValidators"), FALSE)'
  <2>1. CASE name = "UseDataAnnotationValidators"
    BY <2>1, CallReplaces DEF BuilderInv
  <2>2. CASE name # "UseDataAnnotationValidators"
    <3>1. Builder!LastOr(Builder!Given("UseDataAnnotationValidators"), FALSE)' = Builder!LastOr(Builder!Given("UseDataAnnotationValidators"), FALSE)
      BY <2>2, CallReplaces DEF BuilderInv
    <3> QED BY <2>2, <3>1 DEF BuilderInv, LastReplaces
  <2> QED BY <2>1, <2>2
<1>6. exposeConfiguration' = Builder!LastOr(Builder!Given("ExposeConfiguration"), Nothing)'
  <2>1. CASE name = "ExposeConfiguration"
    BY <2>1, CallReplaces DEF BuilderInv
  <2>2. CASE name # "ExposeConfiguration"
    <3>1. Builder!LastOr(Builder!Given("ExposeConfiguration"), Nothing)' = Builder!LastOr(Builder!Given("ExposeConfiguration"), Nothing)
      BY <2>2, CallReplaces DEF BuilderInv
    <3> QED BY <2>2, <3>1 DEF BuilderInv, LastReplaces
  <2> QED BY <2>1, <2>2
<1> QED BY <1>1, <1>2, <1>3, <1>4, <1>5, <1>6 DEF LastReplaces

LEMMA BuilderInvStep == BuilderInv /\ [Builder!BuilderNext]_(Builder!builderVars) => BuilderInv'
<1> SUFFICES ASSUME BuilderInv, [Builder!BuilderNext]_(Builder!builderVars) PROVE BuilderInv'
  OBVIOUS
<1>a. calls \in Seq(Call)
  BY DEF BuilderInv
<1>b. ASSUME NEW name, NEW argument, <<name, argument>> \in Call, Builder!Called(name, argument)
      PROVE  calls' \in Seq(Call)
  BY <1>a, <1>b, CallIsLast
<1>1. CASE UNCHANGED <<Builder!builder, calls>>
  <2>1. /\ \A name : Builder!Given(name)' = Builder!Given(name)
        /\ \A given, default : Builder!LastOr(given, default)' = Builder!LastOr(given, default)
    BY <1>1 DEF Builder!Given, Builder!LastOr
  <2>2. \A k : Valued(k)' = Valued(k)
    BY <1>1, <2>1 DEF Valued
  <2>3. MappingsAdded'
    BY <1>1, <2>1 DEF Builder!builder, Builder!accumulated, BuilderInv, MappingsAdded
  <2>4. PropertiesAdded'
    BY <1>1, <2>2 DEF Builder!builder, Builder!accumulated, BuilderInv, PropertiesAdded, Builder!LastOr
  <2>5. LastReplaces'
    BY <1>1, <2>1 DEF Builder!builder, Builder!replaced, BuilderInv, LastReplaces, Builder!LastOr
  <2> QED BY <1>1, <2>3, <2>4, <2>5 DEF Builder!builder, Builder!replaced, BuilderInv
<1>2. ASSUME NEW a \in Assemblies, Builder!AddMappingAssemblies(a) PROVE BuilderInv'
  <2>1. <<"AddMappingAssemblies", a>> \in Call /\ Builder!Called("AddMappingAssemblies", a)
    BY <1>2 DEF Call, Builder!AddMappingAssemblies
  <2>2. MappingsAdded'
    BY <1>2, AssemblyAdds
  <2>3. PropertiesAdded'
    BY <1>2, <2>1, AddedStays DEF Builder!AddMappingAssemblies
  <2>4. LastReplaces'
    BY <1>2, <2>1, CallIsHeeded DEF Builder!AddMappingAssemblies, Builder!replaced
  <2> QED BY <1>2, <1>b, <2>1, <2>2, <2>3, <2>4 DEF BuilderInv, Builder!AddMappingAssemblies, Builder!replaced
<1>3. ASSUME NEW k \in Keys, NEW v \in Settings, Builder!UseProperties(k, v) PROVE BuilderInv'
  <2> DEFINE pair == <<k, v>>
  <2>1. <<"UseProperties", pair>> \in Call /\ Builder!Called("UseProperties", pair)
    BY <1>3 DEF Call, Builder!UseProperties
  <2> HIDE DEF pair
  <2>2. MappingsAdded'
    BY <1>3, <2>1, AddedStays DEF Builder!UseProperties
  <2>3. PropertiesAdded'
    BY <1>3, PropertyAdds
  <2>4. LastReplaces'
    BY <1>3, <2>1, CallIsHeeded DEF Builder!UseProperties, Builder!replaced
  <2> QED BY <1>3, <1>b, <2>1, <2>2, <2>3, <2>4 DEF BuilderInv, Builder!UseProperties, Builder!replaced
<1>4. ASSUME NEW f \in Files \cup {DefaultName}, Builder!UseConfigFile(f) PROVE BuilderInv'
  <2>1. <<"UseConfigFile", f>> \in Call /\ Builder!Called("UseConfigFile", f)
    BY <1>4 DEF Call, Builder!UseConfigFile
  <2>2. MappingsAdded' /\ PropertiesAdded'
    BY <1>4, <2>1, AddedStays DEF Builder!UseConfigFile, Builder!accumulated
  <2>4. LastReplaces'
    BY <1>4, <2>1, CallIsHeeded DEF Builder!UseConfigFile
  <2> QED BY <1>4, <1>b, <2>1, <2>2, <2>4 DEF BuilderInv, Builder!UseConfigFile
<1>5. ASSUME NEW f \in Configurers, Builder!UsePersistenceConfigurer(f) PROVE BuilderInv'
  <2>1. <<"UsePersistenceConfigurer", f>> \in Call /\ Builder!Called("UsePersistenceConfigurer", f)
    BY <1>5 DEF Call, Builder!UsePersistenceConfigurer
  <2>2. MappingsAdded' /\ PropertiesAdded'
    BY <1>5, <2>1, AddedStays DEF Builder!UsePersistenceConfigurer, Builder!accumulated
  <2>4. LastReplaces'
    BY <1>5, <2>1, CallIsHeeded DEF Builder!UsePersistenceConfigurer
  <2> QED BY <1>5, <1>b, <2>1, <2>2, <2>4 DEF BuilderInv, Builder!UsePersistenceConfigurer
<1>6. ASSUME NEW f \in Caches \cup {Builder!Empty}, Builder!UseCache(f) PROVE BuilderInv'
  <2>1. <<"UseCache", f>> \in Call /\ Builder!Called("UseCache", f)
    BY <1>6 DEF Call, Builder!UseCache
  <2>2. MappingsAdded' /\ PropertiesAdded'
    BY <1>6, <2>1, AddedStays DEF Builder!UseCache, Builder!accumulated
  <2>4. LastReplaces'
    BY <1>6, <2>1, CallIsHeeded DEF Builder!UseCache
  <2> QED BY <1>6, <1>b, <2>1, <2>2, <2>4 DEF BuilderInv, Builder!UseCache
<1>7. ASSUME NEW model \in Models, Builder!UseAutoPersistenceModel(model) PROVE BuilderInv'
  <2>1. <<"UseAutoPersistenceModel", model>> \in Call /\ Builder!Called("UseAutoPersistenceModel", model)
    BY <1>7 DEF Call, Builder!UseAutoPersistenceModel
  <2>2. MappingsAdded' /\ PropertiesAdded'
    BY <1>7, <2>1, AddedStays DEF Builder!UseAutoPersistenceModel, Builder!accumulated
  <2>4. LastReplaces'
    BY <1>7, <2>1, CallIsHeeded DEF Builder!UseAutoPersistenceModel
  <2> QED BY <1>7, <1>b, <2>1, <2>2, <2>4 DEF BuilderInv, Builder!UseAutoPersistenceModel
<1>8. ASSUME NEW use \in BOOLEAN, Builder!UseDataAnnotationValidators(use) PROVE BuilderInv'
  <2>1. <<"UseDataAnnotationValidators", use>> \in Call /\ Builder!Called("UseDataAnnotationValidators", use)
    BY <1>8 DEF Call, Builder!UseDataAnnotationValidators
  <2>2. MappingsAdded' /\ PropertiesAdded'
    BY <1>8, <2>1, AddedStays DEF Builder!UseDataAnnotationValidators, Builder!accumulated
  <2>4. LastReplaces'
    BY <1>8, <2>1, CallIsHeeded DEF Builder!UseDataAnnotationValidators
  <2> QED BY <1>8, <1>b, <2>1, <2>2, <2>4 DEF BuilderInv, Builder!UseDataAnnotationValidators
<1>9. ASSUME NEW action \in Exposed, Builder!ExposeConfiguration(action) PROVE BuilderInv'
  <2>1. <<"ExposeConfiguration", action>> \in Call /\ Builder!Called("ExposeConfiguration", action)
    BY <1>9 DEF Call, Builder!ExposeConfiguration
  <2>2. MappingsAdded' /\ PropertiesAdded'
    BY <1>9, <2>1, AddedStays DEF Builder!ExposeConfiguration, Builder!accumulated
  <2>4. LastReplaces'
    BY <1>9, <2>1, CallIsHeeded DEF Builder!ExposeConfiguration
  <2> QED BY <1>9, <1>b, <2>1, <2>2, <2>4 DEF BuilderInv, Builder!ExposeConfiguration
<1> QED BY <1>1, <1>2, <1>3, <1>4, <1>5, <1>6, <1>7, <1>8, <1>9
        DEF Builder!BuilderNext, Builder!BuildSessionFactory, Builder!builderVars

\* The mappings of a factory are the assemblies, and then the model.
LEMMA MappingsAreAsSaid ==
  ASSUME BuilderInv, NEW mappings,
         mappings = IF autoPersistenceModel = Nothing THEN mappingAssemblies
                    ELSE Append(mappingAssemblies, autoPersistenceModel)
  PROVE  LET named == Builder!Given("AddMappingAssemblies")
             n == Cardinality(named)
         IN /\ Len(mappings) = IF autoPersistenceModel = Nothing THEN n ELSE n + 1
            /\ \A i \in named : mappings[Builder!Place(named, i)] = calls[i][2]
            /\ autoPersistenceModel # Nothing => mappings[n + 1] = autoPersistenceModel
<1> DEFINE named == Builder!Given("AddMappingAssemblies")
           n == Cardinality(named)
<1>1. /\ mappingAssemblies \in Seq(Assemblies) /\ Len(mappingAssemblies) = n
      /\ \A i \in named : mappingAssemblies[Builder!Place(named, i)] = calls[i][2]
  BY DEF BuilderInv, MappingsAdded
<1>2. IsFiniteSet(named)
  <2>1. Len(calls) \in Nat /\ named \in SUBSET (1 .. Len(calls))
    BY DEF BuilderInv, Builder!Given
  <2>2. IsFiniteSet(1 .. Len(calls))
    BY <2>1, FS_Interval
  <2> QED BY <2>1, <2>2, FS_Subset
<1>3. n \in Nat
  BY <1>2, FS_CardinalityType
<1>4. ASSUME NEW i \in named PROVE Builder!Place(named, i) \in 1 .. n
  <2> DEFINE upTo == {j \in named : j <= i}
  <2>1. IsFiniteSet(upTo) /\ Cardinality(upTo) <= n
    BY <1>2, FS_Subset
  <2>2. i \in upTo
    BY DEF BuilderInv, Builder!Given
  <2> HIDE DEF upTo, n
  <2>3. Cardinality(upTo) \in Nat /\ Cardinality(upTo) # 0
    BY <2>1, <2>2, FS_CardinalityType, FS_EmptySet
  <2>4. Builder!Place(named, i) = Cardinality(upTo)
    BY PlaceIsRank DEF upTo
  <2> QED BY <1>3, <2>1, <2>3, <2>4
<1> HIDE DEF named, n
<1>5. CASE autoPersistenceModel = Nothing
  BY <1>1, <1>5 DEF named, n
<1>6. CASE autoPersistenceModel # Nothing
  <2> DEFINE model == autoPersistenceModel
  <2>1. mappingAssemblies \in Seq(Assemblies \cup {model})
    BY <1>1
  <2> HIDE DEF model
  <2>2. /\ Len(Append(mappingAssemblies, model)) = n + 1
        /\ \A p \in 1 .. n : Append(mappingAssemblies, model)[p] = mappingAssemblies[p]
        /\ Append(mappingAssemblies, model)[n + 1] = model
    BY <1>1, <1>3, <2>1, AppendProperties
  <2>3. mappings = Append(mappingAssemblies, model)
    BY <1>6 DEF model
  <2>4. \A i \in named : mappings[Builder!Place(named, i)] = calls[i][2]
    BY <1>1, <1>4, <2>2, <2>3
  <2> QED BY <1>6, <2>2, <2>3, <2>4 DEF named, n, model
<1> QED BY <1>5, <1>6

\* The file that the builder reads is the one that the calls stand for.
LEMMA FileIsAsSaid ==
  ASSUME BuilderInv
  PROVE  /\ Builder!ConfigurationFile \in Files \cup {Nothing}
         /\ Builder!FileToRead = IF Builder!ConfigurationFile = Nothing THEN {} ELSE {Builder!ConfigurationFile}
<1> DEFINE G == Builder!Given("UseConfigFile")
<1>1. /\ DefaultFile \in Files /\ DefaultName \notin Files /\ Nothing \notin Files \cup {DefaultName}
      /\ configFile = Builder!LastOr(G, Nothing)
  BY LibraryAssumption DEF Builder!BuilderAssumption, BuilderInv, LastReplaces
<1>2. /\ configFile \in Files \cup {DefaultName, Nothing}
      /\ Builder!LastOr(G, DefaultName) = IF configFile = Nothing THEN DefaultName ELSE configFile
  <2>1. CASE G = {}
    BY <1>1, <2>1 DEF Builder!LastOr
  <2>2. CASE G # {}
    <3>1. Len(calls) \in Nat /\ G \in SUBSET (1 .. Len(calls))
      BY DEF BuilderInv, Builder!Given
    <3>2. Builder!Max(G) \in G
      BY <2>2, <3>1, MaxIsIn
    <3>3. calls[Builder!Max(G)] \in Call /\ calls[Builder!Max(G)][1] = "UseConfigFile"
      BY <3>2 DEF BuilderInv, Builder!Given
    <3>4. calls[Builder!Max(G)][2] \in Files \cup {DefaultName}
      BY <3>3 DEF Call
    <3> QED BY <1>1, <2>2, <3>4 DEF Builder!LastOr
  <2> QED BY <2>1, <2>2
<1> QED BY <1>1, <1>2 DEF Builder!ConfigurationFile, Builder!FileToRead

\* The value of the property is from the strongest source that has one.
LEMMA SettingsAreAsSaid ==
  ASSUME BuilderInv, NEW k \in Keys
  PROVE  LET settings == Builder!ApplyCustomSettings.settings
         IN IF Builder!Expected(k) = Nothing THEN k \notin DOMAIN settings
            ELSE k \in DOMAIN settings /\ settings[k] = Builder!Expected(k)
<1> DEFINE configurer == persistenceConfigurer
           caching == cacheSettings
           said == Builder!LastOr(Valued(k), <<k, Nothing>>)[2]
           read == Builder!ConfigurationFile
           inFile == {FileSettings[f][k] : f \in {g \in Builder!FileToRead : k \in DOMAIN FileSettings[g]}}
<1>0. /\ read \in Files \cup {Nothing}
      /\ Builder!FileToRead = IF read = Nothing THEN {} ELSE {read}
  BY FileIsAsSaid
<1>1. /\ configurer = Builder!LastOr(Builder!Given("UsePersistenceConfigurer"), Builder!Empty)
      /\ caching = Builder!LastOr(Builder!Given("UseCache"), Builder!Empty)
  BY DEF BuilderInv, LastReplaces
<1> HIDE DEF configurer, caching, said, read
<1>2. Builder!Expected(k) = IF k \in DOMAIN caching THEN caching[k]
                            ELSE IF k \in DOMAIN configurer THEN configurer[k]
                            ELSE IF read # Nothing /\ k \in DOMAIN FileSettings[read]
                                 THEN FileSettings[read][k] ELSE said
  <2>1. inFile = IF read # Nothing /\ k \in DOMAIN FileSettings[read] THEN {FileSettings[read][k]} ELSE {}
    BY <1>0
  <2>2. Builder!Expected(k) = IF k \in DOMAIN caching THEN caching[k]
                              ELSE IF k \in DOMAIN configurer THEN configurer[k]
                              ELSE IF inFile # {} THEN CHOOSE v \in inFile : TRUE ELSE said
    BY <1>1 DEF Builder!Expected, Valued, said
  <2> HIDE DEF inFile
  <2>3. \A x : inFile = {x} => (CHOOSE v \in inFile : TRUE) = x
    OBVIOUS
  <2> QED BY <2>1, <2>2, <2>3
<1>3. IF k \in DOMAIN properties THEN properties[k] = said /\ said # Nothing ELSE said = Nothing
  <2>1. Valued(k) \in SUBSET (1 .. Len(calls)) /\ Len(calls) \in Nat
    BY DEF BuilderInv, Valued, Builder!Given
  <2>2. CASE Valued(k) = {}
    BY <2>2 DEF BuilderInv, PropertiesAdded, Builder!LastOr, said
  <2>3. CASE Valued(k) # {}
    <3> DEFINE last == Builder!Max(Valued(k))
    <3>1. last \in Valued(k)
      BY <2>1, <2>3, MaxIsIn
    <3>2. calls[last] \in Call /\ calls[last][1] = "UseProperties"
      BY <3>1 DEF BuilderInv, Valued, Builder!Given
    <3>3. calls[last][2][2] \in Settings
      BY <3>2 DEF Call
    <3>4. said = calls[last][2][2]
      BY <2>3 DEF said, Builder!LastOr
    <3>5. k \in DOMAIN properties /\ properties[k] = said
      BY <2>3 DEF BuilderInv, PropertiesAdded, said
    <3> QED BY <3>3, <3>4, <3>5, LibraryAssumption DEF Builder!BuilderAssumption
  <2> QED BY <2>2, <2>3
<1>4. /\ \A l \in DOMAIN configurer : configurer[l] # Nothing
      /\ \A l \in DOMAIN caching : caching[l] # Nothing
      /\ read # Nothing => \A l \in DOMAIN FileSettings[read] : FileSettings[read][l] # Nothing
  BY <1>0, LibraryAssumption DEF BuilderInv, Builder!BuilderAssumption, Builder!Empty, configurer, caching
<1>5. Builder!ApplyCustomSettings.settings =
        Builder!Override(Builder!Override(Builder!LoadExternalConfiguration.settings, configurer), caching)
  BY DEF Builder!ApplyCustomSettings, configurer, caching
<1> DEFINE loaded == Builder!LoadExternalConfiguration.settings
           applied == Builder!Override(loaded, configurer)
           settings == Builder!Override(applied, caching)
<1>6. IF read # Nothing /\ k \in DOMAIN FileSettings[read]
      THEN k \in DOMAIN loaded /\ loaded[k] = FileSettings[read][k]
      ELSE /\ k \in DOMAIN loaded <=> k \in DOMAIN properties
           /\ k \in DOMAIN loaded => loaded[k] = properties[k]
  BY DEF Builder!LoadExternalConfiguration, Builder!Override, read
<1> HIDE DEF loaded
<1>7. IF k \in DOMAIN configurer THEN k \in DOMAIN applied /\ applied[k] = configurer[k]
      ELSE /\ k \in DOMAIN applied <=> k \in DOMAIN loaded
           /\ k \in DOMAIN applied => applied[k] = loaded[k]
  BY DEF Builder!Override
<1> HIDE DEF applied
<1>8. IF k \in DOMAIN caching THEN k \in DOMAIN settings /\ settings[k] = caching[k]
      ELSE /\ k \in DOMAIN settings <=> k \in DOMAIN applied
           /\ k \in DOMAIN settings => settings[k] = applied[k]
  BY DEF Builder!Override
<1> HIDE DEF settings
<1>9. Builder!ApplyCustomSettings.settings = settings
  BY <1>5 DEF settings, applied, loaded
<1> QED BY <1>2, <1>3, <1>4, <1>6, <1>7, <1>8, <1>9

\* A sequence read from a file is one.
LEMMA FileListenersAreSequences ==
  ASSUME NEW f \in Files
  PROVE  \E V : FileListeners[f] \in Seq(V) /\ Validator \notin V
<1> DEFINE read == FileListeners[f]
           V == {read[i] : i \in 1 .. Len(read)}
<1>1. /\ read = [i \in 1 .. Len(read) |-> read[i]] /\ Len(read) \in Nat
      /\ \A i \in 1 .. Len(read) : read[i] # Validator
  BY LibraryAssumption DEF Builder!BuilderAssumption
<1> DEFINE n == Len(read)
<1>2. read \in [1 .. n -> V]
  BY <1>1
<1> HIDE DEF read, n, V
<1>3. read \in Seq(V)
  BY <1>1, <1>2, SeqDef DEF n
<1> QED BY <1>1, <1>3 DEF V, read

\* The listeners: the validator, those of the file, the one of the program.
LaidOut(listeners, loaded) ==
  LET first == IF useDataAnnotationValidators THEN 1 ELSE 0
      last  == IF exposeConfiguration = Nothing THEN 0 ELSE 1
  IN /\ Len(listeners) = first + Len(loaded) + last
     /\ \A i \in 1 .. Len(loaded) : listeners[first + i] = loaded[i]
     /\ exposeConfiguration # Nothing => listeners[Len(listeners)] = exposeConfiguration
     /\ {i \in DOMAIN listeners : listeners[i] = Validator} = IF first = 1 THEN {1} ELSE {}

LEMMA ListenersAreAsSaid ==
  ASSUME BuilderInv, NEW V, NEW loaded \in Seq(V), Validator \notin V,
         NEW listeners, listeners = Builder!AddValidatorsAndExposeConfiguration(loaded)
  PROVE  LaidOut(listeners, loaded)
<1> DEFINE exposed == exposeConfiguration
           validated == IF useDataAnnotationValidators THEN <<Validator>> \o loaded ELSE loaded
           first == IF useDataAnnotationValidators THEN 1 ELSE 0
           last == IF exposed = Nothing THEN 0 ELSE 1
           W == V \cup {Validator, exposed}
           n == Len(loaded)
<1>1. exposed # Nothing => exposed # Validator
  BY LibraryAssumption DEF BuilderInv, Builder!BuilderAssumption
<1>2. n \in Nat /\ loaded \in Seq(W) /\ <<Validator>> \in Seq(W) /\ Len(<<Validator>>) = 1 /\ <<Validator>>[1] = Validator
  OBVIOUS
<1>3. \A i \in 1 .. n : loaded[i] # Validator
  OBVIOUS
<1>4. /\ validated \in Seq(W) /\ Len(validated) = first + n
      /\ \A i \in 1 .. n : validated[first + i] = loaded[i]
      /\ first = 1 => validated[1] = Validator
  <2>1. CASE useDataAnnotationValidators
    <3>1. /\ <<Validator>> \o loaded \in Seq(W)
          /\ Len(<<Validator>> \o loaded) = Len(<<Validator>>) + Len(loaded)
          /\ \A i \in 1 .. Len(<<Validator>>) + Len(loaded) :
               (<<Validator>> \o loaded)[i] =
                 IF i <= Len(<<Validator>>) THEN <<Validator>>[i] ELSE loaded[i - Len(<<Validator>>)]
      BY <1>2, ConcatProperties
    <3> QED BY <1>2, <2>1, <3>1
  <2>2. CASE ~useDataAnnotationValidators
    BY <1>2, <2>2
  <2> QED BY <2>1, <2>2
<1>5. listeners = IF exposed = Nothing THEN validated ELSE Append(validated, exposed)
  BY DEF Builder!AddValidatorsAndExposeConfiguration, Builder!InsertFirst
<1>6. exposed \in W
  OBVIOUS
<1> HIDE DEF validated, W, n, exposed
<1>7. /\ Len(listeners) = first + n + last /\ DOMAIN listeners = 1 .. first + n + last
      /\ \A i \in 1 .. first + n : listeners[i] = validated[i]
      /\ exposed # Nothing => listeners[first + n + 1] = exposed
  <2>1. CASE exposed = Nothing
    BY <1>2, <1>4, <1>5, <2>1
  <2>2. CASE exposed # Nothing
    <3>1. /\ Len(Append(validated, exposed)) = Len(validated) + 1
          /\ DOMAIN Append(validated, exposed) = 1 .. Len(validated) + 1
          /\ \A i \in 1 .. Len(validated) : Append(validated, exposed)[i] = validated[i]
          /\ Append(validated, exposed)[Len(validated) + 1] = exposed
      BY <1>4, <1>6, AppendProperties
    <3> QED BY <1>2, <1>4, <1>5, <2>2, <3>1
  <2> QED BY <2>1, <2>2
<1>8. first \in {0, 1} /\ last \in {0, 1} /\ (last = 1 <=> exposed # Nothing)
  OBVIOUS
<1> HIDE DEF first, last
<1>9. \A i \in 1 .. n : first + i \in 1 .. first + n
  BY <1>2, <1>8
<1>10. \A i \in 1 .. n : listeners[first + i] = loaded[i]
  BY <1>4, <1>7, <1>9
<1>11. ASSUME NEW i \in 1 .. first + n + last, listeners[i] = Validator PROVE i = 1 /\ first = 1
  <2>1. CASE i = first + n + 1
    BY <1>1, <1>2, <1>7, <1>8, <1>11, <2>1
  <2>2. CASE i \in first + 1 .. first + n
    <3>1. i - first \in 1 .. n /\ first + (i - first) = i
      BY <1>2, <1>8, <2>2
    <3> QED BY <1>3, <1>10, <1>11, <3>1 DEF n
  <2>3. CASE i <= first
    BY <1>8, <2>3
  <2> QED BY <1>2, <1>8, <2>1, <2>2, <2>3
<1>12. first = 1 => 1 \in 1 .. first + n + last /\ listeners[1] = Validator
  BY <1>2, <1>4, <1>7, <1>8
<1>13. {i \in DOMAIN listeners : listeners[i] = Validator} = IF first = 1 THEN {1} ELSE {}
  BY <1>7, <1>11, <1>12
<1>14. exposed # Nothing => listeners[Len(listeners)] = exposed
  BY <1>2, <1>7, <1>8
<1> QED BY <1>7, <1>10, <1>13, <1>14 DEF LaidOut, first, last, n, exposed

LEMMA BuilderInvImplies ==
  ASSUME BuilderInv, Builder!BuildSessionFactory
  PROVE  Builder!MappedAsSaid /\ Builder!SetAsSaid /\ Builder!ListenersAsSaid
<1>1. /\ factory'.settings = Builder!ApplyCustomSettings.settings
      /\ factory'.mappings = Builder!ApplyCustomSettings.mappings
      /\ factory'.listeners =
           Builder!AddValidatorsAndExposeConfiguration(Builder!LoadExternalConfiguration.listeners)
  BY DEF Builder!BuildSessionFactory
<1>2. factory'.mappings = IF autoPersistenceModel = Nothing THEN mappingAssemblies
                          ELSE Append(mappingAssemblies, autoPersistenceModel)
  BY <1>1 DEF Builder!ApplyCustomSettings
<1>3. /\ autoPersistenceModel = Builder!LastOr(Builder!Given("UseAutoPersistenceModel"), Nothing)
      /\ useDataAnnotationValidators = Builder!LastOr(Builder!Given("UseDataAnnotationValidators"), FALSE)
      /\ exposeConfiguration = Builder!LastOr(Builder!Given("ExposeConfiguration"), Nothing)
  BY DEF BuilderInv, LastReplaces
<1>4. Builder!MappedAsSaid
  <2> DEFINE mappings == factory'.mappings
             named == Builder!Given("AddMappingAssemblies")
             n == Cardinality(named)
  <2>0. mappings = IF autoPersistenceModel = Nothing THEN mappingAssemblies
                   ELSE Append(mappingAssemblies, autoPersistenceModel)
    BY <1>2
  <2> HIDE DEF mappings
  <2>1. /\ Len(mappings) = IF autoPersistenceModel = Nothing THEN n ELSE n + 1
        /\ \A i \in named : mappings[Builder!Place(named, i)] = calls[i][2]
        /\ autoPersistenceModel # Nothing => mappings[n + 1] = autoPersistenceModel
    BY <2>0, MappingsAreAsSaid
  <2>2. Builder!Cardinality(named) = n
    BY SameCardinality
  <2> QED BY <1>3, <2>1, <2>2 DEF Builder!MappedAsSaid, mappings
<1>5. Builder!SetAsSaid
  BY <1>1, SettingsAreAsSaid DEF Builder!SetAsSaid
<1>6. Builder!ListenersAsSaid
  <2> DEFINE loaded == Builder!LoadExternalConfiguration.listeners
             read == Builder!ConfigurationFile
             said == factory'.listeners
             first == IF useDataAnnotationValidators THEN 1 ELSE 0
             last == IF exposeConfiguration = Nothing THEN 0 ELSE 1
  <2>1. /\ read \in Files \cup {Nothing}
        /\ Builder!FileToRead = IF read = Nothing THEN {} ELSE {read}
    BY FileIsAsSaid
  <2>2. loaded = IF read = Nothing THEN <<>> ELSE FileListeners[read]
    BY DEF Builder!LoadExternalConfiguration
  <2> HIDE DEF loaded, read, said
  <2>3. PICK V : loaded \in Seq(V) /\ Validator \notin V
    <3>1. CASE read = Nothing
      <4>1. <<>> \in Seq({})
        OBVIOUS
      <4> QED BY <2>2, <3>1, <4>1
    <3>2. CASE read \in Files
      BY <2>1, <2>2, <3>2, FileListenersAreSequences, LibraryAssumption DEF Builder!BuilderAssumption
    <3> QED BY <2>1, <3>1, <3>2
  <2>4. said = Builder!AddValidatorsAndExposeConfiguration(loaded)
    BY <1>1 DEF said, loaded
  <2>5. /\ Len(said) = first + Len(loaded) + last
        /\ \A i \in 1 .. Len(loaded) : said[first + i] = loaded[i]
        /\ exposeConfiguration # Nothing => said[Len(said)] = exposeConfiguration
        /\ {i \in DOMAIN said : said[i] = Validator} = IF first = 1 THEN {1} ELSE {}
    <3>1. LaidOut(said, loaded)
      BY <2>3, <2>4, ListenersAreAsSaid
    <3> QED BY <3>1 DEF LaidOut
  <2>6. ASSUME NEW f \in Builder!FileToRead
        PROVE  /\ Len(said) = first + Len(FileListeners[f]) + last
               /\ \A i \in DOMAIN FileListeners[f] : said[first + i] = FileListeners[f][i]
    <3>1. loaded = FileListeners[f]
      BY <2>1, <2>2, <2>6
    <3>2. DOMAIN loaded = 1 .. Len(loaded)
      BY <2>3
    <3> QED BY <2>5, <3>1, <3>2
  <2>7. Builder!FileToRead = {} => Len(said) = first + last
    <3>1. Builder!FileToRead = {} => Len(loaded) = 0
      BY <2>1, <2>2
    <3> QED BY <2>5, <3>1
  <2> QED BY <1>3, <2>5, <2>6, <2>7 DEF Builder!ListenersAsSaid, said
<1> QED BY <1>4, <1>5, <1>6

LEMMA BuilderMovesAlone ==
  /\ LibraryInit => Builder!BuilderInit
  /\ [LibraryNext]_all => [Builder!BuilderNext]_(Builder!builderVars)
BY DEF LibraryInit, LibraryNext, CheckMoves, DescriptorMoves, BuilderMoves, DatabaseMoves, all, builderVars,
       Builder!builderVars, Builder!builder, Builder!accumulated, Builder!replaced

\* Whatever calls are made, in whatever order and however often factories are
\* built between them, a factory maps the assemblies named so far, its
\* properties are those of the strongest source, and its listeners are the
\* validator, if asked for, those of the configuration file that is read, and
\* the one of the program (NHibernateSessionFactoryBuilder.BuildConfiguration).
THEOREM FactoriesAreAsSaid == LibrarySpec => FactoryIsAsSaid
<1>1. LibraryInit => BuilderInv
  BY BuilderMovesAlone, BuilderInvInit
<1>2. BuilderInv /\ [LibraryNext]_all => BuilderInv'
  BY BuilderMovesAlone, BuilderInvStep
<1>3. BuilderInv =>
        /\ [Builder!BuildSessionFactory => Builder!MappedAsSaid /\ Builder!SetAsSaid]_(Builder!builderVars)
        /\ [Builder!BuildSessionFactory => Builder!ListenersAsSaid]_(Builder!builderVars)
  BY BuilderInvImplies
<1> QED BY <1>1, <1>2, <1>3, PTL
        DEF LibrarySpec, FactoryIsAsSaid, Builder!FactoryHasWhatWasSaid, Builder!ListenersKeepTheirPlaces

(***************************************************************************)
(* TestDatabase: of the rows of tests a session sees at most the one its   *)
(* own test has written, because the transient database on a server has    *)
(* one test at a time and the others end with their session.               *)
(***************************************************************************)
Isolated(c) ==
  LET written == IF test[c].phase = "testing" THEN {Database!Row(c)} ELSE {}
  IN /\ ran[c] # 0
     /\ c \in live => test[c].phase = "testing" /\ test[c].rows \subseteq {Database!Row(c)}
     /\ c \notin live /\ inMemory => test[c].rows = written
     /\ c \notin live /\ ~inMemory =>
          /\ scratch = written
          /\ \A d \in Classes \ live : test[d] # Database!None => d = c

DatabaseInv ==
  /\ Database!TypeOK
  /\ database = {Database!Developers}
  /\ \A c \in Classes : test[c] # Database!None => Isolated(c)

LEMMA DatabaseInvInit == Database!Init => DatabaseInv
BY LibraryAssumption
   DEF Database!TestDatabaseAssumption, Database!Init, DatabaseInv, Database!TypeOK

LEMMA DatabaseInvStep == DatabaseInv /\ [Database!Next]_(Database!vars) => DatabaseInv'
<1> SUFFICES ASSUME DatabaseInv, [Database!Next]_(Database!vars) PROVE DatabaseInv'
  OBVIOUS
<1> USE LibraryAssumption DEF Database!TestDatabaseAssumption, DatabaseInv
<1>0. /\ Database!None \notin Database!Tests
      /\ \A c \in Classes : ran[c] # 0 => Database!Row(c) \in Database!Data
  BY DEF Database!None, Database!Tests, Database!TypeOK, Database!Row, Database!Data
<1>1. CASE UNCHANGED Database!vars
  BY <1>1 DEF Database!vars, Database!TypeOK, Isolated, Database!Row
<1>2. ASSUME NEW c \in Classes, Database!InitializeSession(c) PROVE DatabaseInv'
  <2>1. Database!TypeOK'
    BY <1>0, <1>2 DEF Database!InitializeSession, Database!MayStart, Database!Started, Database!TypeOK, Database!Tests
  <2>2. Isolated(c)'
    BY <1>0, <1>2 DEF Database!InitializeSession, Database!MayStart, Database!Started, Database!TypeOK, Isolated
  <2>3. ASSUME NEW d \in Classes \ {c}, test[d] # Database!None PROVE Isolated(d)'
    BY <1>2, <2>3 DEF Database!InitializeSession, Database!MayStart, Database!Started, Database!TypeOK,
       Isolated, Database!Row
  <2> QED BY <1>2, <2>1, <2>2, <2>3 DEF Database!InitializeSession, Database!Started, Database!TypeOK
<1>3. ASSUME NEW c \in Classes, Database!InitializeSessionFails(c) PROVE DatabaseInv'
  <2>1. Database!TypeOK'
    BY <1>0, <1>3 DEF Database!InitializeSessionFails, Database!MayStart, Database!TypeOK
  <2>2. live' = live /\ inMemory' = inMemory /\ test' = test /\ database' = database
    BY <1>3 DEF Database!InitializeSessionFails
  <2>3. ASSUME NEW d \in Classes, test[d] # Database!None PROVE Isolated(d)'
    <3>1. d # c /\ ran'[d] = ran[d] /\ Isolated(d)
      BY <1>3, <2>3 DEF Database!InitializeSessionFails, Database!MayStart, Database!TypeOK
    <3>2. d \notin live /\ ~inMemory => FALSE
      BY <1>3, <2>3 DEF Database!InitializeSessionFails, Database!MayStart
    <3> QED BY <2>2, <3>1, <3>2 DEF Isolated, Database!Row
  <2> QED BY <2>1, <2>2, <2>3
<1>4. ASSUME NEW c \in Classes, Database!SaveAndEvict(c) PROVE DatabaseInv'
  <2>0. test[c] \in Database!Tests /\ ran[c] # 0 /\ Isolated(c)
    BY <1>4 DEF Database!SaveAndEvict, Isolated, Database!TypeOK
  <2>a. /\ test'[c] \in Database!Tests
        /\ test'[c].phase = "testing"
        /\ test'[c].rows = IF c \in live \/ inMemory THEN test[c].rows \cup {Database!Row(c)} ELSE test[c].rows
    <3>1. CASE c \in live \/ inMemory
      <4> DEFINE rows == test[c].rows \cup {Database!Row(c)}
      <4>1. test'[c] = [[test[c] EXCEPT !.rows = rows] EXCEPT !.phase = "testing"]
        BY <1>4, <3>1 DEF Database!SaveAndEvict, Database!TypeOK
      <4>2. rows \in SUBSET Database!Data
        BY <1>0, <2>0 DEF Database!Tests
      <4> HIDE DEF rows
      <4>3. test'[c] \in Database!Tests /\ test'[c].phase = "testing" /\ test'[c].rows = rows
        <5> DEFINE t == test[c]
        <5>1. t \in Database!Tests /\ test'[c] = [[t EXCEPT !.rows = rows] EXCEPT !.phase = "testing"]
          BY <2>0, <4>1
        <5> HIDE DEF t
        <5> QED BY <4>2, <5>1 DEF Database!Tests
      <4> QED BY <3>1, <4>3 DEF rows
    <3>2. CASE ~(c \in live \/ inMemory)
      BY <1>0, <1>4, <2>0, <3>2 DEF Database!SaveAndEvict, Database!Tests, Database!TypeOK
    <3> QED BY <3>1, <3>2
  <2>b. DOMAIN test' = Classes /\ \A d \in Classes \ {c} : test'[d] = test[d]
    BY <1>4 DEF Database!SaveAndEvict, Database!TypeOK
  <2>c. test' \in [Classes -> Database!Tests \cup {Database!None}]
    <3>1. test' = [d \in Classes |-> test'[d]]
      BY <1>4 DEF Database!SaveAndEvict, Database!TypeOK
    <3> QED BY <2>a, <2>b, <3>1 DEF Database!TypeOK
  <2>2. Database!TypeOK'
    BY <1>0, <1>4, <2>0, <2>a, <2>b, <2>c DEF Database!SaveAndEvict, Database!TypeOK
  <2>3. Isolated(c)'
    BY <1>4, <2>0, <2>a, <2>b DEF Database!SaveAndEvict, Database!Seen, Database!TypeOK, Isolated, Database!Row
  <2>4. ASSUME NEW d \in Classes \ {c}, test[d] # Database!None PROVE Isolated(d)'
    <3>1. Database!Row(d)' = Database!Row(d)
      BY <1>4 DEF Database!SaveAndEvict, Database!Row
    <3> QED BY <1>4, <2>0, <2>b, <2>4, <3>1 DEF Database!SaveAndEvict, Database!TypeOK, Isolated
  <2> QED BY <1>4, <2>b, <2>2, <2>3, <2>4 DEF Database!SaveAndEvict, Database!TypeOK
<1>5. ASSUME NEW c \in Classes, Database!Close(c) \/ Database!DisposeLive(c) PROVE DatabaseInv'
  <2>1. Database!TypeOK'
    BY <1>0, <1>5 DEF Database!Close, Database!DisposeLive, Database!TypeOK
  <2>2. ASSUME NEW d \in Classes \ {c}, test[d] # Database!None PROVE Isolated(d)'
    <3>1. Database!Row(d)' = Database!Row(d)
      BY <1>5 DEF Database!Close, Database!DisposeLive, Database!Row
    <3>2. /\ test'[d] = test[d] /\ ran' = ran /\ inMemory' = inMemory /\ scratch' = scratch
          /\ \A e \in Classes : test'[e] # Database!None => test'[e] = test[e]
      BY <1>5, <2>2 DEF Database!Close, Database!DisposeLive, Database!TypeOK
    <3>3. live' = live /\ Isolated(d)
      BY <1>5, <2>2 DEF Database!Close, Database!DisposeLive
    <3> QED BY <3>1, <3>2, <3>3 DEF Isolated
  <2> QED BY <1>5, <2>1, <2>2 DEF Database!Close, Database!DisposeLive, Database!TypeOK
<1>6. ASSUME NEW c \in Classes, Database!OpenLive(c) PROVE DatabaseInv'
  <2>1. Database!TypeOK'
    BY <1>0, <1>6 DEF Database!OpenLive, Database!MayStart, Database!Started, Database!TypeOK, Database!Tests
  <2>2. Isolated(c)'
    BY <1>0, <1>6 DEF Database!OpenLive, Database!MayStart, Database!Started, Database!TypeOK, Isolated
  <2>3. ASSUME NEW d \in Classes \ {c}, test[d] # Database!None PROVE Isolated(d)'
    BY <1>6, <2>3 DEF Database!OpenLive, Database!MayStart, Database!Started, Database!TypeOK,
       Isolated, Database!Row
  <2> QED BY <1>6, <2>1, <2>2, <2>3 DEF Database!OpenLive, Database!Started, Database!TypeOK
<1>7. ASSUME NEW c \in Classes, Database!DisposeSetup(c) PROVE DatabaseInv'
  <2>1. Database!TypeOK'
    BY <1>0, <1>7 DEF Database!DisposeSetup, Database!TypeOK
  <2>2. UNCHANGED <<live, inMemory, test, ran, scratch, database>>
    BY <1>7 DEF Database!DisposeSetup
  <2>3. \A d \in Classes : Database!Row(d)' = Database!Row(d)
    BY <2>2 DEF Database!Row
  <2>4. \A d \in Classes : Isolated(d) => Isolated(d)'
    BY <2>2, <2>3 DEF Isolated
  <2> QED BY <2>1, <2>2, <2>4
<1> QED BY <1>1, <1>2, <1>3, <1>4, <1>5, <1>6, <1>7 DEF Database!Next

LEMMA DatabaseInvImplies == DatabaseInv => TestsAreIsolated
<1> SUFFICES ASSUME DatabaseInv, NEW c \in Classes, test[c] # Database!None
             PROVE  Database!Seen(c) \ (IF c \in live THEN {Database!Developers} ELSE {}) =
                      IF test[c].phase = "testing" /\ (c \in live => test[c].rows # {})
                      THEN {Database!Row(c)} ELSE {}
  BY DEF DatabaseInv, TestsAreIsolated, Database!TestsAreIsolated
<1>1. Database!Row(c) # Database!Developers
  <2>1. "nr" \in DOMAIN Database!Row(c) /\ "nr" \notin DOMAIN Database!Developers
    BY DEF Database!Row, Database!Developers
  <2> QED BY <2>1
<1>2. CASE c \in live
  <2>1. /\ test[c].phase = "testing"
        /\ test[c].rows \subseteq {Database!Row(c)}
        /\ Database!Seen(c) = {Database!Developers} \cup test[c].rows
    BY <1>2 DEF DatabaseInv, Isolated, Database!Seen
  <2>2. test[c].rows = {} \/ test[c].rows = {Database!Row(c)}
    BY <2>1
  <2> QED BY <1>1, <1>2, <2>1, <2>2
<1>3. CASE c \notin live
  BY <1>3 DEF DatabaseInv, Isolated, Database!Seen
<1> QED BY <1>2, <1>3

\* Library moves the test database by steps of its own.
LEMMA DatabaseMovesAlone ==
  /\ LibraryInit => Database!Init
  /\ [LibraryNext]_all => [Database!Next]_(Database!vars)
BY DEF LibraryInit, LibraryNext, CheckMoves, DescriptorMoves, BuilderMoves, DatabaseMoves,
       all, databaseVars, Database!vars

\* Whatever classes run, live or not, however many tests they have and however
\* those end, a test sees its own rows and no other's (TransientDatabaseTests,
\* LiveDatabaseTests).
THEOREM TestsDoNotMeet == LibrarySpec => []TestsAreIsolated
<1>1. LibraryInit => DatabaseInv
  BY DatabaseMovesAlone, DatabaseInvInit
<1>2. DatabaseInv /\ [LibraryNext]_all => DatabaseInv'
  BY DatabaseMovesAlone, DatabaseInvStep
<1> QED BY <1>1, <1>2, DatabaseInvImplies, PTL DEF LibrarySpec
=============================================================================
