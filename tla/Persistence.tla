----------------------------- MODULE Persistence ----------------------------
(***************************************************************************)
(* Five parts around entities and sessions that share no state: entity     *)
(* identity (extended here), the extensions of a session, the validating   *)
(* flush, the finders and the services a request resolves.  Which part     *)
(* moves is chosen at the start; the others rest in an initial state of    *)
(* theirs.                                                                 *)
(***************************************************************************)
EXTENDS EntityIdentity

CONSTANTS
  \* SessionEntities
  Sessions, RowValues, Unwritten, MaxVersion,
  \* ValidatedFlush
  Entities, Validatable, UniqueSigned, Absent,
  NoRow,  \* of SessionEntities and of ValidatedFlush
  \* Queries
  RowIds, Columns, ColumnValues, Null,
  \* Registration
  Scopes, Consumers, Root

VARIABLES
  moving,  \* the part that moves
  \* SessionEntities
  row, image, entry, saved, broken, touched, claims,
  \* ValidatedFlush
  committed, judgedRows, object, inserts, phase, refused,
  \* Queries
  table, answer,
  \* Registration
  scopes, objects, cache, holds

Session == INSTANCE SessionEntities WITH Values <- RowValues
Flush == INSTANCE ValidatedFlush WITH rows <- judgedRows
Finders == INSTANCE Queries WITH Ids <- RowIds, Values <- ColumnValues, rows <- table
Services == INSTANCE Registration

ASSUME PersistenceAssumption ==
  /\ Session!SessionAssumption
  /\ Flush!ValidationAssumption
  /\ Finders!QueriesAssumption
  /\ Services!RegistrationAssumption

identityVars == <<type, id, value, cached, target, rows, loaded, set>>
sessionVars == <<row, image, entry, saved, broken, touched, claims>>
flushVars == <<committed, judgedRows, object, inserts, phase, refused>>
finderVars == <<table, answer>>
serviceVars == <<scopes, objects, cache, holds>>

all == <<moving, identityVars, sessionVars, flushVars, finderVars, serviceVars>>

PersistenceInit ==
  /\ moving \in {"identity", "session", "flush", "finders", "services"}
  /\ Init
  /\ Session!Init /\ Flush!Init /\ Finders!Init /\ Services!Init
  /\ moving # "identity" => value = [o \in Objects |-> CHOOSE x \in Values : TRUE]
  /\ moving # "flush" => \A e \in DOMAIN committed : committed[e] = NoRow
  /\ moving # "finders" => DOMAIN table = {}

IdentityMoves ==
  /\ moving = "identity" /\ Next
  /\ UNCHANGED <<moving, sessionVars, flushVars, finderVars, serviceVars>>

SessionMoves ==
  /\ moving = "session" /\ Session!Next
  /\ UNCHANGED <<moving, identityVars, flushVars, finderVars, serviceVars>>

FlushMoves ==
  /\ moving = "flush" /\ Flush!Next
  /\ UNCHANGED <<moving, identityVars, sessionVars, finderVars, serviceVars>>

FindersMove ==
  /\ moving = "finders" /\ Finders!Next
  /\ UNCHANGED <<moving, identityVars, sessionVars, flushVars, serviceVars>>

ServicesMove ==
  /\ moving = "services" /\ Services!Next
  /\ UNCHANGED <<moving, identityVars, sessionVars, flushVars, finderVars>>

PersistenceNext == IdentityMoves \/ SessionMoves \/ FlushMoves \/ FindersMove \/ ServicesMove

PersistenceSpec == PersistenceInit /\ [][PersistenceNext]_all

(***************************************************************************)
(* What the parts promise; EntitiesAreIdentified and IdentityIsStable of   *)
(* EntityIdentity are in scope.                                            *)
(***************************************************************************)
\* What is saved or updated, flushed and evicted is in the row the transaction
\* sees (SaveAndEvict), IsModified says whether a flush would change the row,
\* and who commits a write or a forced version has read the row as it is.
SessionsKeepRows ==
  /\ []Session!TypeOK
  /\ []Session!ModifiedIsWhatFlushWrites
  /\ Session!EvictedIsStored
  /\ Session!WritersAreCurrent

\* No commit adds an invalid row or makes one invalid, and a flush is refused
\* only for an object that is invalid or cannot be judged
\* (DataAnnotationsEventListener).
FlushIsGuarded ==
  /\ [](Flush!TypeOK /\ Flush!RefusedForAReason)
  /\ Flush!CommittedRowsAreValid

\* A single entity by property values is the only one that has them all, and an
\* example without nulls finds what a predicate would
\* (NHibernateRepository.FindOne, FindAll).
FindersAreExact == Finders!FindOneIsExact /\ Finders!ExampleIsExact

\* However scopes come and go, every session is of one factory, all
\* repositories of a request and its manager work in one session, requests
\* share none, and one in use is open (AddNHibernateWithSingleDatabase).
ServicesBelongToScopes ==
  /\ Services!TypeOK /\ Services!OneFactory
  /\ Services!OneSessionPerScope /\ Services!SessionsAreTheirOwn
=============================================================================
