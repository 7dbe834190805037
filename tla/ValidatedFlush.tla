---------------------------- MODULE ValidatedFlush --------------------------
(***************************************************************************)
(* A flush under the DataAnnotationsEventListener.  The listener judges    *)
(* the object as it is during the flush; a queued insert writes the        *)
(* object as it was when it was saved, and an update that follows in the   *)
(* same flush writes what has changed since.  So it takes both listeners,  *)
(* and the transaction around them, to keep invalid rows out.              *)
(*                                                                         *)
(* Deletes are not validated.  A session that has thrown is not used       *)
(* again, as NHibernate demands; the scope of the request drops it.        *)
(***************************************************************************)
EXTENDS Sequences

CONSTANTS
  Entities,      \* possible entities of one table
  Validatable,   \* those whose class derives from ValidatableObject
  UniqueSigned,  \* those whose class has a unique-signature attribute
  NoRow,
  Absent         \* the session does not know the entity

States == {"valid", "invalid"}   \* what the annotated properties are
Held == [now : States, loaded : States, deleted : BOOLEAN]

ValidationAssumption ==
  /\ UniqueSigned \subseteq Validatable
  /\ Validatable \subseteq Entities
  /\ NoRow \notin States /\ Absent \notin Held

VARIABLES
  committed,   \* the rows of the database
  rows,        \* the same as the open transaction sees them
  object,      \* what the session holds of an entity
  inserts,     \* queued inserts, in the order of the saves
  phase,       \* "work", "flush", "commit" (a flush before it) or "failed"
  refused      \* the entity and the reason, when a listener has thrown

vars == <<committed, rows, object, inserts, phase, refused>>

NoRefusal == <<>>
Insert == [entity : Entities, state : States]

TypeOK ==
  /\ committed \in [Entities -> States \cup {NoRow}]
  /\ rows \in [Entities -> States \cup {NoRow}]
  /\ object \in [Entities -> Held \cup {Absent}]
  /\ inserts \in Seq(Insert)
  /\ \A i \in DOMAIN inserts :
       /\ object[inserts[i].entity] # Absent
       /\ rows[inserts[i].entity] = NoRow
  /\ phase \in {"work", "flush", "commit", "failed"}
  /\ (phase = "failed") = (refused # NoRefusal)

\* Rows from before the listener was in use may be invalid.
Init ==
  /\ committed \in [Entities -> States \cup {NoRow}]
  /\ rows = committed
  /\ object = [e \in Entities |-> Absent]
  /\ inserts = <<>>
  /\ phase = "work"
  /\ refused = NoRefusal

(***************************************************************************)
(* What the program does with its session.                                 *)
(***************************************************************************)
Save(e, v) ==
  /\ phase = "work" /\ object[e] = Absent /\ rows[e] = NoRow
  /\ object' = [object EXCEPT ![e] = [now |-> v, loaded |-> v, deleted |-> FALSE]]
  /\ inserts' = Append(inserts, [entity |-> e, state |-> v])
  /\ UNCHANGED <<committed, rows, phase, refused>>

Get(e) ==
  /\ phase = "work" /\ object[e] = Absent /\ rows[e] # NoRow
  /\ object' = [object EXCEPT ![e] = [now |-> rows[e], loaded |-> rows[e], deleted |-> FALSE]]
  /\ UNCHANGED <<committed, rows, inserts, phase, refused>>

Change(e, v) ==
  /\ phase = "work" /\ object[e] # Absent /\ object[e].now # v
  /\ object' = [object EXCEPT ![e].now = v]
  /\ UNCHANGED <<committed, rows, inserts, phase, refused>>

Delete(e) ==
  /\ phase = "work" /\ object[e] # Absent /\ ~object[e].deleted
  /\ object' = [object EXCEPT ![e].deleted = TRUE]
  /\ UNCHANGED <<committed, rows, inserts, phase, refused>>

StartFlush(kind) ==
  /\ phase = "work"
  /\ phase' = kind
  /\ UNCHANGED <<committed, rows, object, inserts, refused>>

(***************************************************************************)
(* The flush: inserts, then updates, then deletes.                         *)
(***************************************************************************)
\* The validation context resolves the session and nothing else, so an
\* attribute that needs the duplicate checker throws as well; the properties
\* are judged before the attributes of the class.
Refusal(e) ==
  CASE object[e].now = "invalid" -> "ValidationException"
    [] object[e].now = "valid" /\ e \in UniqueSigned -> "InvalidOperationException"
    [] OTHER -> "none"

\* Not the code: what is inserted is judged, not the object.
JudgeSnapshot(e, write) ==
  LET judged == IF inserts # <<>> THEN Head(inserts).state ELSE object[e].now
  IN IF e \in Validatable /\ judged = "invalid"
     THEN /\ refused' = <<e, "ValidationException">>
          /\ phase' = "failed"
          /\ UNCHANGED <<committed, rows, object, inserts>>
     ELSE write /\ UNCHANGED <<committed, phase, refused>>

\* Either the listener throws and the flush ends, or the write goes ahead.
Judged(e, write) ==
  IF e \in Validatable /\ Refusal(e) # "none"
  THEN /\ refused' = <<e, Refusal(e)>>
       /\ phase' = "failed"
       /\ UNCHANGED <<committed, rows, object, inserts>>
  ELSE write /\ UNCHANGED <<committed, phase, refused>>

Flushing == phase \in {"flush", "commit"}

OnPreInsert(e) ==
  /\ Flushing /\ inserts # <<>> /\ Head(inserts).entity = e
  /\ Judged(e, /\ rows' = [rows EXCEPT ![e] = Head(inserts).state]
               /\ inserts' = Tail(inserts)
               /\ UNCHANGED object)

Dirty(e) == object[e] # Absent /\ ~object[e].deleted /\ object[e].now # object[e].loaded

\* Not the code: updates are not judged.
OnPreUpdateNothing(e) ==
  /\ Flushing /\ inserts = <<>> /\ Dirty(e)
  /\ rows' = [rows EXCEPT ![e] = object[e].now]
  /\ object' = [object EXCEPT ![e].loaded = object[e].now]
  /\ UNCHANGED <<committed, inserts, phase, refused>>

OnPreUpdate(e) ==
  /\ Flushing /\ inserts = <<>> /\ Dirty(e)
  /\ Judged(e, /\ rows' = [rows EXCEPT ![e] = object[e].now]
               /\ object' = [object EXCEPT ![e].loaded = object[e].now]
               /\ UNCHANGED inserts)

ExecuteDelete(e) ==
  /\ Flushing /\ inserts = <<>> /\ \A f \in Entities : ~Dirty(f)
  /\ object[e] # Absent /\ object[e].deleted
  /\ rows' = [rows EXCEPT ![e] = NoRow]
  /\ object' = [object EXCEPT ![e] = Absent]
  /\ UNCHANGED <<committed, inserts, phase, refused>>

EndFlush ==
  /\ Flushing /\ inserts = <<>>
  /\ \A e \in Entities : ~Dirty(e) /\ (object[e] # Absent => ~object[e].deleted)
  /\ committed' = IF phase = "commit" THEN rows ELSE committed
  /\ phase' = "work"
  /\ UNCHANGED <<rows, object, inserts, refused>>

\* Not the code: the session of the failed request is used again.
RollBackRows ==
  /\ phase \in {"work", "failed"}
  /\ rows' = committed
  /\ object' = [e \in Entities |-> Absent]
  /\ phase' = "work"
  /\ refused' = NoRefusal
  /\ UNCHANGED <<committed, inserts>>

\* After an exception of the flush, or of the action itself: the
\* transaction is rolled back and the next request has a new session.
RollBack ==
  /\ phase \in {"work", "failed"}
  /\ rows' = committed
  /\ object' = [e \in Entities |-> Absent]
  /\ inserts' = <<>>
  /\ phase' = "work"
  /\ refused' = NoRefusal
  /\ UNCHANGED committed

Next ==
  \/ \E e \in Entities, v \in States : Save(e, v) \/ Change(e, v)
  \/ \E e \in Entities : \/ Get(e) \/ Delete(e)
                         \/ OnPreInsert(e) \/ OnPreUpdate(e) \/ ExecuteDelete(e)
  \/ \E kind \in {"flush", "commit"} : StartFlush(kind)
  \/ EndFlush
  \/ RollBack

Spec == Init /\ [][Next]_vars

(***************************************************************************)
(* Properties.                                                             *)
(***************************************************************************)
\* No commit adds an invalid row of a ValidatableObject or makes one invalid,
\* although inserts may write an invalid state on the way.
CommittedRowsAreValid ==
  [][\A e \in Validatable : committed'[e] # committed[e] => committed'[e] \in {"valid", NoRow}]_vars

\* A flush is refused only for an object that is invalid when it is judged, or
\* whose class has an attribute that cannot be judged.
RefusedForAReason ==
  refused # NoRefusal => object[refused[1]].now = "invalid" \/ refused[1] \in UniqueSigned
=============================================================================
