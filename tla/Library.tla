------------------------------- MODULE Library ------------------------------
(***************************************************************************)
(* Four parts of the library that share no state: the duplicate check      *)
(* (extended here), the cache of signature properties, the builder of      *)
(* session factories and the test database.  Which part moves is chosen at *)
(* the start; the others rest in an initial state of theirs, so a run      *)
(* explores the parts one after the other.                                 *)
(***************************************************************************)
EXTENDS DuplicateCheck, Naturals

CONSTANTS
  \* SignatureCache
  Threads, Types, Ambiguous, Descriptors, NoDescriptor,
  \* SessionFactoryBuilder
  Assemblies, Keys, Settings, Files, DefaultFile, DefaultName, FileSettings, FileListeners,
  Configurers, Caches, Models, Exposed, Validator, Nothing, NotBuilt, MaxCalls,
  \* TestDatabase
  Classes, Runs

VARIABLES
  moving,  \* the part that moves
  \* SignatureCache
  cache, stage, type, descriptor, overtaken, answers,
  \* SessionFactoryBuilder
  files, mappingAssemblies, properties, configFile, persistenceConfigurer, cacheSettings,
  autoPersistenceModel, useDataAnnotationValidators, exposeConfiguration, calls, factory,
  \* TestDatabase
  live, inMemory, testFactory, test, ran, scratch, database

Descriptor == INSTANCE SignatureCache
Builder == INSTANCE SessionFactoryBuilder
Database == INSTANCE TestDatabase WITH factory <- testFactory

ASSUME LibraryAssumption ==
  /\ Descriptor!SignatureAssumption
  /\ Builder!BuilderAssumption
  /\ Database!TestDatabaseAssumption

descriptorVars == <<cache, stage, type, descriptor, overtaken, answers>>
builderVars == <<files, mappingAssemblies, properties, configFile, persistenceConfigurer,
                 cacheSettings, autoPersistenceModel, useDataAnnotationValidators, exposeConfiguration,
                 calls, factory>>
databaseVars == <<live, inMemory, testFactory, test, ran, scratch, database>>

all == <<moving, vars, descriptorVars, builderVars, databaseVars>>

LibraryInit ==
  /\ moving \in {"check", "descriptor", "builder", "database"}
  /\ Init
  /\ Descriptor!Init /\ Builder!BuilderInit /\ Database!Init
  /\ moving # "check" => signature = CHOOSE choice \in [Sessions -> Signatures] : TRUE
  /\ moving # "descriptor" => type = CHOOSE choice \in [Threads -> Types] : TRUE
  /\ moving # "builder" => files = {}
  /\ moving # "database" => live = {} /\ inMemory

CheckMoves ==
  /\ moving = "check" /\ Next
  /\ UNCHANGED <<moving, descriptorVars, builderVars, databaseVars>>

DescriptorMoves ==
  /\ moving = "descriptor" /\ Descriptor!Next
  /\ UNCHANGED <<moving, vars, builderVars, databaseVars>>

BuilderMoves ==
  /\ moving = "builder" /\ Builder!BuilderNext
  /\ UNCHANGED <<moving, vars, descriptorVars, databaseVars>>

DatabaseMoves ==
  /\ moving = "database" /\ Database!Next
  /\ UNCHANGED <<moving, vars, descriptorVars, builderVars>>

LibraryNext == CheckMoves \/ DescriptorMoves \/ BuilderMoves \/ DatabaseMoves

LibrarySpec == LibraryInit /\ [][LibraryNext]_all

(***************************************************************************)
(* What the parts promise; CheckIsSafe and SignaturesUnique of             *)
(* DuplicateCheck are in scope.                                            *)
(***************************************************************************)
\* Of the threads that race to describe a type all return the same object, and
\* a value object with domain signatures is refused at every lookup
\* (TypePropertyDescriptorCache.GetOrAdd).
DescriptorsAgree ==
  Descriptor!TypeOK /\ Descriptor!OneDescriptorPerType /\ Descriptor!AmbiguousAlwaysRefused

\* A factory has the mappings, properties and listeners that the calls of its
\* builder and the configuration file add up to, the validating listener once,
\* and first, exactly when it was asked for last
\* (NHibernateSessionFactoryBuilder.BuildConfiguration).
FactoryIsAsSaid == Builder!FactoryHasWhatWasSaid /\ Builder!ListenersKeepTheirPlaces

\* A test sees what it has written and nothing of other tests
\* (TransientDatabaseTests, LiveDatabaseTests).
TestsAreIsolated == Database!TypeOK /\ Database!TestsAreIsolated
=============================================================================
