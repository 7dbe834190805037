------------------------ MODULE SessionFactoryBuilder -----------------------
(***************************************************************************)
(* The builder of session factories: which calls add to what was said      *)
(* before and which replace it, which configuration file is read and what  *)
(* it overrides, and in which order the listeners of the factory run.      *)
(***************************************************************************)
EXTENDS Naturals, Sequences, FiniteSetsExt

CONSTANTS
  Assemblies,   \* mapping assemblies
  Keys,         \* names of NHibernate properties
  Settings,     \* their values
  Files,         \* names of configuration files, DefaultNHibernateConfigFileName too
  DefaultFile,   \* DefaultNHibernateConfigFileName, hibernate.cfg.xml
  DefaultName,   \* DefaultConfigurationName, which names no file
  FileSettings,  \* FileSettings[f]: the properties in file f, a function
  FileListeners, \* FileListeners[f]: the listeners that file f registers, in order
  Configurers,  \* persistence configurers, each the function of properties it sets
  Caches,       \* cache settings, likewise
  Models,       \* auto-persistence models
  Exposed,      \* actions given to ExposeConfiguration; each adds a listener
  Validator,    \* the DataAnnotationsEventListener
  Nothing,      \* null: not given
  NotBuilt,
  MaxCalls      \* bound: calls of the builder

\* Nothing, which is null, is no setting.
BuilderAssumption ==
  /\ Validator \notin Exposed /\ Nothing \notin Exposed \cup Models \cup Settings
  /\ DefaultFile \in Files /\ DefaultName \notin Files /\ Nothing \notin Files \cup {DefaultName}
  /\ \A given \in Configurers \cup Caches \cup {FileSettings[f] : f \in Files} :
       DOMAIN given \subseteq Keys /\ \A k \in DOMAIN given : given[k] # Nothing
  /\ \A f \in Files : /\ FileListeners[f] = [i \in 1 .. Len(FileListeners[f]) |-> FileListeners[f][i]]
                      /\ Len(FileListeners[f]) \in Nat
                      /\ \A i \in 1 .. Len(FileListeners[f]) : FileListeners[f][i] # Validator
  /\ MaxCalls \in Nat

VARIABLES
  files,                      \* the configuration files there are; it never changes
  mappingAssemblies,
  properties,
  configFile,                 \* the name given to UseConfigFile
  persistenceConfigurer,
  cacheSettings,
  autoPersistenceModel,
  useDataAnnotationValidators,
  exposeConfiguration,
  calls,                      \* the calls so far (history)
  factory                     \* what the last call has built, if it was a build

accumulated == <<mappingAssemblies, properties>>
replaced == <<configFile, persistenceConfigurer, cacheSettings, autoPersistenceModel,
              useDataAnnotationValidators, exposeConfiguration>>
builder == <<files, accumulated, replaced>>
builderVars == <<builder, calls, factory>>

Empty == [k \in {} |-> k]

\* The entries of g override those of f.
Override(f, g) == [k \in DOMAIN f \cup DOMAIN g |-> IF k \in DOMAIN g THEN g[k] ELSE f[k]]

BuilderInit ==
  /\ files \in SUBSET Files
  /\ mappingAssemblies = <<>>
  /\ properties = Empty
  /\ configFile = Nothing
  /\ persistenceConfigurer = Empty
  /\ cacheSettings = Empty
  /\ autoPersistenceModel = Nothing
  /\ useDataAnnotationValidators = FALSE
  /\ exposeConfiguration = Nothing
  /\ calls = <<>>
  /\ factory = NotBuilt

Called(name, argument) ==
  /\ Len(calls) < MaxCalls
  /\ calls' = Append(calls, <<name, argument>>)
  /\ factory' = NotBuilt

AddMappingAssemblies(a) ==
  /\ Called("AddMappingAssemblies", a)
  /\ mappingAssemblies' = Append(mappingAssemblies, a)
  /\ UNCHANGED <<properties, replaced, files>>

UseProperties(k, v) ==
  /\ Called("UseProperties", <<k, v>>)
  /\ properties' = Override(properties, [x \in {k} |-> v])
  /\ UNCHANGED <<mappingAssemblies, replaced, files>>

UseConfigFile(name) ==
  /\ Called("UseConfigFile", name)
  /\ configFile' = name
  /\ UNCHANGED <<accumulated, persistenceConfigurer, cacheSettings, autoPersistenceModel,
                 useDataAnnotationValidators, exposeConfiguration, files>>

UsePersistenceConfigurer(configurer) ==
  /\ Called("UsePersistenceConfigurer", configurer)
  /\ persistenceConfigurer' = configurer
  /\ UNCHANGED <<accumulated, configFile, cacheSettings, autoPersistenceModel,
                 useDataAnnotationValidators, exposeConfiguration, files>>

\* UseCache(null), modelled as the empty settings, clears what was given.
UseCache(settings) ==
  /\ Called("UseCache", settings)
  /\ cacheSettings' = settings
  /\ UNCHANGED <<accumulated, configFile, persistenceConfigurer, autoPersistenceModel,
                 useDataAnnotationValidators, exposeConfiguration, files>>

UseAutoPersistenceModel(model) ==
  /\ Called("UseAutoPersistenceModel", model)
  /\ autoPersistenceModel' = model
  /\ UNCHANGED <<accumulated, configFile, persistenceConfigurer, cacheSettings,
                 useDataAnnotationValidators, exposeConfiguration, files>>

UseDataAnnotationValidators(use) ==
  /\ Called("UseDataAnnotationValidators", use)
  /\ useDataAnnotationValidators' = use
  /\ UNCHANGED <<accumulated, configFile, persistenceConfigurer, cacheSettings, autoPersistenceModel,
                 exposeConfiguration, files>>

ExposeConfiguration(action) ==
  /\ Called("ExposeConfiguration", action)
  /\ exposeConfiguration' = action
  /\ UNCHANGED <<accumulated, configFile, persistenceConfigurer, cacheSettings, autoPersistenceModel,
                 useDataAnnotationValidators, files>>

(***************************************************************************)
(* BuildConfiguration, which may be called again after further calls.      *)
(***************************************************************************)
\* Not the code: no file is read unless one was named.
NamedFileOnly == IF configFile = DefaultName THEN Nothing ELSE configFile

\* The file to be read: the one named, or else the default one if there is one.
ConfigurationFile ==
  IF configFile \notin {Nothing, DefaultName} THEN configFile
  ELSE IF DefaultFile \in files THEN DefaultFile ELSE Nothing

LoadExternalConfiguration ==
  IF ConfigurationFile = Nothing
    THEN [settings |-> properties, listeners |-> <<>>]
    ELSE [settings |-> Override(properties, FileSettings[ConfigurationFile]),
          listeners |-> FileListeners[ConfigurationFile]]

\* Not the code: the item goes to the end.
InsertLast(listeners, item) == Append(listeners, item)

InsertFirst(listeners, item) == <<item>> \o listeners

\* Not the code: the validators are added only when nothing is exposed.
AddValidatorsOrExpose(listeners) ==
  IF exposeConfiguration # Nothing THEN Append(listeners, exposeConfiguration)
  ELSE IF useDataAnnotationValidators THEN InsertFirst(listeners, Validator)
  ELSE listeners

AddValidatorsAndExposeConfiguration(listeners) ==
  LET validated == IF useDataAnnotationValidators THEN InsertFirst(listeners, Validator) ELSE listeners
  IN IF exposeConfiguration # Nothing THEN Append(validated, exposeConfiguration) ELSE validated

\* Not the code: the configurer is applied before the file is read.
ApplyConfigurerFirst ==
  [settings |-> Override(Override(persistenceConfigurer, LoadExternalConfiguration.settings), cacheSettings),
   mappings |-> IF autoPersistenceModel = Nothing THEN mappingAssemblies
                ELSE Append(mappingAssemblies, autoPersistenceModel)]

\* The configurer sets its properties at once, the cache when the mappings
\* have been applied: each overrides what the file or the caller said.
ApplyCustomSettings ==
  [settings |-> Override(Override(LoadExternalConfiguration.settings, persistenceConfigurer), cacheSettings),
   mappings |-> IF autoPersistenceModel = Nothing THEN mappingAssemblies
                ELSE Append(mappingAssemblies, autoPersistenceModel)]

\* A file that was named and does not exist throws; nothing has changed then.
BuildSessionFactory ==
  /\ ConfigurationFile \in files \cup {Nothing}
  /\ factory' = [settings |-> ApplyCustomSettings.settings,
                 mappings |-> ApplyCustomSettings.mappings,
                 listeners |-> AddValidatorsAndExposeConfiguration(LoadExternalConfiguration.listeners)]
  /\ UNCHANGED <<builder, calls>>

BuilderNext ==
  \/ \E a \in Assemblies : AddMappingAssemblies(a)
  \/ \E k \in Keys, v \in Settings : UseProperties(k, v)
  \/ \E name \in Files \cup {DefaultName} : UseConfigFile(name)
  \/ \E configurer \in Configurers : UsePersistenceConfigurer(configurer)
  \/ \E settings \in Caches \cup {Empty} : UseCache(settings)
  \/ \E model \in Models : UseAutoPersistenceModel(model)
  \/ \E use \in BOOLEAN : UseDataAnnotationValidators(use)
  \/ \E action \in Exposed : ExposeConfiguration(action)
  \/ BuildSessionFactory

BuilderSpec == BuilderInit /\ [][BuilderNext]_builderVars

(***************************************************************************)
(* Properties.                                                             *)
(***************************************************************************)
\* The calls of this name, by their place; the argument of the last of some.
Given(name) == {i \in DOMAIN calls : calls[i][1] = name}
LastOr(given, default) == IF given = {} THEN default ELSE calls[Max(given)][2]

\* The file that the factory must have read: a name that stands for none is
\* as good as none given.
FileToRead ==
  LET named == LastOr(Given("UseConfigFile"), DefaultName)
  IN IF named # DefaultName THEN {named} ELSE {DefaultFile} \cap files

\* What the factory must make of property k, from the calls alone: the cache
\* settings and the configurer given last come before the configuration file,
\* and this before the value given last.
Expected(k) ==
  LET database == LastOr(Given("UsePersistenceConfigurer"), Empty)
      cache    == LastOr(Given("UseCache"), Empty)
      inFile   == {FileSettings[f][k] : f \in {g \in FileToRead : k \in DOMAIN FileSettings[g]}}
      values   == {i \in Given("UseProperties") : calls[i][2][1] = k}
  IN CASE k \in DOMAIN cache -> cache[k]
       [] k \notin DOMAIN cache /\ k \in DOMAIN database -> database[k]
       [] k \notin DOMAIN cache \cup DOMAIN database /\ inFile # {} -> CHOOSE v \in inFile : TRUE
       [] OTHER -> LastOr(values, <<k, Nothing>>)[2]

\* The rank of call i among those named.
Place(named, i) == Cardinality({j \in named : j <= i})

MappedAsSaid ==
  LET model == LastOr(Given("UseAutoPersistenceModel"), Nothing)
      named == Given("AddMappingAssemblies")
      n == Cardinality(named)
  IN /\ Len(factory'.mappings) = IF model = Nothing THEN n ELSE n + 1
     /\ \A i \in named : factory'.mappings[Place(named, i)] = calls[i][2]
     /\ model # Nothing => factory'.mappings[n + 1] = model

SetAsSaid ==
  \A k \in Keys : IF Expected(k) = Nothing THEN k \notin DOMAIN factory'.settings
                  ELSE k \in DOMAIN factory'.settings /\ factory'.settings[k] = Expected(k)

ListenersAsSaid ==
  LET listeners == factory'.listeners
      first     == IF LastOr(Given("UseDataAnnotationValidators"), FALSE) THEN 1 ELSE 0
      exposed   == LastOr(Given("ExposeConfiguration"), Nothing)
      last      == IF exposed = Nothing THEN 0 ELSE 1
  IN /\ {i \in DOMAIN listeners : listeners[i] = Validator} = IF first = 1 THEN {1} ELSE {}
     /\ \A f \in FileToRead :
          /\ Len(listeners) = first + Len(FileListeners[f]) + last
          /\ \A i \in DOMAIN FileListeners[f] : listeners[first + i] = FileListeners[f][i]
     /\ FileToRead = {} => Len(listeners) = first + last
     /\ exposed # Nothing => listeners[Len(listeners)] = exposed

\* A factory maps every assembly that was named, in order, and then the model
\* given last; each of its properties is the one of the strongest source.
FactoryHasWhatWasSaid == [][BuildSessionFactory => MappedAsSaid /\ SetAsSaid]_builderVars

\* The validator runs once, and before any other listener, exactly when it was
\* asked for last; after it come the listeners of the configuration file, all
\* of them in their order, and then what the program adds, however often
\* factories are built.
ListenersKeepTheirPlaces == [][BuildSessionFactory => ListenersAsSaid]_builderVars
=============================================================================
