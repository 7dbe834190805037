---------------------------- MODULE TestDatabase ----------------------------
(***************************************************************************)
(* Database tests: the base classes that open a session for each test over *)
(* a TestDatabaseSetup of their class.  A transient test builds the schema *)
(* anew and loads its data; a live test works on the rows that are there   *)
(* and is rolled back.                                                     *)
(*                                                                         *)
(* A transient database in memory is that of its session's connection,     *)
(* which the test configurations keep until the session is closed; one on  *)
(* a server is shared by its classes, which then run in sequence.  Live    *)
(* tests neither commit nor roll back themselves.                          *)
(***************************************************************************)
EXTENDS Naturals

CONSTANTS
  Classes,   \* test classes
  Runs       \* bound: tests of a class

TestDatabaseAssumption == Runs \in Nat

VARIABLES
  live,      \* the classes that test a live database
  inMemory,  \* the transient database is in memory
  factory,   \* per class, the session factory of its setup
  test,      \* per class, the test that runs
  ran,       \* tests each class has begun
  scratch,   \* the transient database on a server
  database   \* the live database

vars == <<live, inMemory, factory, test, ran, scratch, database>>

None == [phase |-> "none"]
Data == [by : Classes, nr : 1 .. Runs]

\* What is in a database is what tests have written, and what the developers
\* keep in the live one.
Developers == [by |-> "developers"]

\* rows: what the session has written where nobody else sees it.
Tests == [phase : {"loading", "testing"}, rows : SUBSET Data, inTransaction : BOOLEAN]

TypeOK ==
  /\ live \subseteq Classes /\ inMemory \in BOOLEAN
  /\ factory \in [Classes -> {"none", "built", "disposed"}]
  /\ test \in [Classes -> Tests \cup {None}]
  /\ ran \in [Classes -> 0 .. Runs]
  /\ scratch \subseteq Data /\ database \subseteq Data \cup {Developers}
  /\ \A c \in Classes : test[c] # None => factory[c] = "built"

Init ==
  /\ live \in SUBSET Classes /\ inMemory \in BOOLEAN
  /\ factory = [c \in Classes |-> "none"]
  /\ test = [c \in Classes |-> None]
  /\ ran = [c \in Classes |-> 0]
  /\ scratch = {} /\ database = {Developers}

Row(c) == [by |-> c, nr |-> ran[c]]

\* What the session of a running test reads.
Seen(c) ==
  IF c \in live THEN database \cup test[c].rows ELSE IF inMemory THEN test[c].rows ELSE scratch

MayStart(c) ==
  /\ test[c] = None /\ ran[c] < Runs /\ factory[c] # "disposed"
  /\ c \in live \/ inMemory \/ \A d \in Classes \ live : test[d] = None

Started(c, phase) ==
  /\ factory' = [factory EXCEPT ![c] = "built"]
  /\ ran' = [ran EXCEPT ![c] = @ + 1]
  /\ test' = [test EXCEPT ![c] = [phase |-> phase, rows |-> {}, inTransaction |-> c \in live]]

(***************************************************************************)
(* Transient tests.                                                        *)
(***************************************************************************)
\* Not the code: the session is opened and the schema left as it is.
OpenSessionOnly(c) ==
  /\ c \notin live /\ MayStart(c)
  /\ Started(c, "loading")
  /\ UNCHANGED <<live, inMemory, scratch, database>>

\* The schema export drops and creates the tables.
InitializeSession(c) ==
  /\ c \notin live /\ MayStart(c)
  /\ Started(c, "loading")
  /\ scratch' = IF inMemory THEN scratch ELSE {}
  /\ UNCHANGED <<live, inMemory, database>>

\* The export fails, and the constructor with it.
InitializeSessionFails(c) ==
  /\ c \notin live /\ MayStart(c)
  /\ factory' = [factory EXCEPT ![c] = "built"]
  /\ ran' = [ran EXCEPT ![c] = @ + 1]
  /\ scratch' \in {scratch, IF inMemory THEN scratch ELSE {}}
  /\ UNCHANGED <<live, inMemory, test, database>>

\* LoadTestData, and the test after it, save and flush.
SaveAndEvict(c) ==
  /\ test[c] # None /\ Row(c) \notin Seen(c)
  /\ IF c \in live \/ inMemory
     THEN test' = [test EXCEPT ![c].rows = @ \cup {Row(c)}, ![c].phase = "testing"]
          /\ UNCHANGED scratch
     ELSE scratch' = scratch \cup {Row(c)}
          /\ test' = [test EXCEPT ![c].phase = "testing"]
  /\ UNCHANGED <<live, inMemory, factory, ran, database>>

\* At the end of a test, failed or not, its session is closed.
Close(c) ==
  /\ c \notin live /\ test[c] # None
  /\ test' = [test EXCEPT ![c] = None]
  /\ UNCHANGED <<live, inMemory, factory, ran, scratch, database>>

(***************************************************************************)
(* Live tests.                                                             *)
(***************************************************************************)
OpenLive(c) ==
  /\ c \in live /\ MayStart(c)
  /\ Started(c, "testing")
  /\ UNCHANGED <<live, inMemory, scratch, database>>

\* The transaction is rolled back.
DisposeLive(c) ==
  /\ c \in live /\ test[c] # None
  /\ test' = [test EXCEPT ![c] = None]
  /\ UNCHANGED <<live, inMemory, factory, ran, scratch, database>>

\* Not the code: the setup is disposed with each test.
DisposeEarly(c) ==
  /\ factory[c] = "built"
  /\ factory' = [factory EXCEPT ![c] = "disposed"]
  /\ UNCHANGED <<live, inMemory, test, ran, scratch, database>>

\* After the last test of its class.
DisposeSetup(c) ==
  /\ factory[c] = "built" /\ test[c] = None
  /\ factory' = [factory EXCEPT ![c] = "disposed"]
  /\ UNCHANGED <<live, inMemory, test, ran, scratch, database>>

Next ==
  \E c \in Classes :
    \/ InitializeSession(c) \/ InitializeSessionFails(c) \/ SaveAndEvict(c) \/ Close(c)
    \/ OpenLive(c) \/ DisposeLive(c)
    \/ DisposeSetup(c)

Spec == Init /\ [][Next]_vars

(***************************************************************************)
(* Properties.                                                             *)
(***************************************************************************)
\* A test sees what it has written, whatever the tests of its class and of
\* others wrote, and however they ended; a live test sees the developers'
\* rows besides, which are still all that is committed there.
TestsAreIsolated ==
  \A c \in Classes :
    test[c] # None =>
      Seen(c) \ (IF c \in live THEN {Developers} ELSE {}) =
        IF test[c].phase = "testing" /\ (c \in live => test[c].rows # {}) THEN {Row(c)} ELSE {}
=============================================================================
