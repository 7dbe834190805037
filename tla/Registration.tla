---------------------------- MODULE Registration ----------------------------
(***************************************************************************)
(* The services that AddNHibernateWithSingleDatabase puts into a container *)
(* and what the container makes of them: which factory, session, stateless *)
(* session and transaction manager each consumer of a scope gets, and what *)
(* is still open when it uses them.                                        *)
(*                                                                         *)
(* The container resolves a service as one step, under its locks.          *)
(***************************************************************************)
EXTENDS Naturals, Sequences

CONSTANTS
  Scopes,     \* requests
  Consumers,  \* objects of a request that have a service injected
  Root        \* the container itself

RegistrationAssumption == Root \notin Scopes

VARIABLES
  scopes,   \* whether each scope, and the root, is open
  objects,  \* everything the container has made
  cache,    \* the instance that a service has in a scope, or 0
  holds     \* the object each consumer holds, or 0

vars == <<scopes, objects, cache, holds>>

Services == {"factory", "session", "stateless", "manager"}
Places == Scopes \cup {Root}

TypeOK ==
  /\ scopes \in [Places -> {"new", "open", "closed"}]
  /\ objects \in Seq([service : Services, owner : Places, uses : Nat, open : BOOLEAN])
  /\ cache \in [Services -> [Places -> 0 .. Len(objects)]]
  /\ holds \in [Scopes -> [Consumers -> 0 .. Len(objects)]]
  /\ \A i \in DOMAIN objects : objects[i].uses < i
  /\ \A v \in Services, p \in Places :
       cache[v][p] # 0 => objects[cache[v][p]].service = v /\ objects[cache[v][p]].owner = p

Init ==
  /\ scopes = [p \in Places |-> IF p = Root THEN "open" ELSE "new"]
  /\ objects = <<>>
  /\ cache = [v \in Services |-> [p \in Places |-> 0]]
  /\ holds = [s \in Scopes |-> [c \in Consumers |-> 0]]

\* Not the code: each scope builds a factory.
FactoryPerScope ==
  [factory |-> "scoped", session |-> "scoped", stateless |-> "scoped", manager |-> "scoped"]

\* Not the code: the session lives as long as the process.
SessionSingleton ==
  [factory |-> "singleton", session |-> "singleton", stateless |-> "scoped", manager |-> "scoped"]

\* Not the code: everybody gets a session of his own.
SessionTransient ==
  [factory |-> "singleton", session |-> "transient", stateless |-> "scoped", manager |-> "scoped"]

\* The interfaces of the manager are transient, but forward to the scoped class.
Lifetime ==
  [factory |-> "singleton", session |-> "scoped", stateless |-> "scoped", manager |-> "scoped"]

(***************************************************************************)
(* Resolution.  st is a state of the container: its objects, its cache and *)
(* the object resolved last.                                               *)
(***************************************************************************)
\* Not the code: a singleton is cached where it was asked for.
ProvideHere(st, service, s) ==
  LET old == st.cache[service][s]
      new == Len(st.objects) + 1
  IN  IF old # 0 THEN [st EXCEPT !.result = old]
      ELSE [objects |-> Append(st.objects,
              [service |-> service, owner |-> IF Lifetime[service] = "singleton" THEN Root ELSE s,
               uses |-> st.result, open |-> TRUE]),
            cache |-> [st.cache EXCEPT ![service][s] = new],
            result |-> new]

Provide(st, service, s) ==
  LET place == IF Lifetime[service] = "singleton" THEN Root ELSE s
      old == IF Lifetime[service] = "transient" THEN 0 ELSE st.cache[service][place]
      new == Len(st.objects) + 1
  IN  IF old # 0 THEN [st EXCEPT !.result = old]
      ELSE [objects |-> Append(st.objects, [service |-> service, owner |-> place,
                                            uses |-> st.result, open |-> TRUE]),
            cache |-> [st.cache EXCEPT ![service][place] = new],
            result |-> new]

Container == [objects |-> objects, cache |-> cache, result |-> 0]

\* Each factory method resolves what it needs first.
Resolved(service, s) ==
  LET factory == Provide(Container, "factory", s)
      session == Provide(factory, "session", s)
  IN  CASE service = "factory" -> factory
        [] service = "session" -> session
        [] service = "stateless" -> Provide(factory, "stateless", s)
        [] service = "manager" -> Provide(session, "manager", s)

OpenScope(s) ==
  /\ scopes[Root] = "open" /\ scopes[s] = "new"
  /\ scopes' = [scopes EXCEPT ![s] = "open"]
  /\ UNCHANGED <<objects, cache, holds>>

\* A repository needs the session, the filter the manager.
Resolve(s, c, service) ==
  /\ scopes[s] = "open" /\ holds[s][c] = 0
  /\ LET st == Resolved(service, s)
     IN  /\ objects' = st.objects
         /\ cache' = st.cache
         /\ holds' = [holds EXCEPT ![s][c] = st.result]
  /\ UNCHANGED scopes

\* A configurator throws: the factory stays, and the next attempt uses it.
ConfiguratorThrows(s, c) ==
  /\ scopes[s] = "open" /\ holds[s][c] = 0
  /\ LET st == Resolved("factory", s)
     IN  objects' = st.objects /\ cache' = st.cache
  /\ UNCHANGED <<scopes, holds>>

\* A consumer of a stateless session disposes it when it needs it no more,
\* as it is told to.
Release(s, c) ==
  /\ holds[s][c] # 0
  /\ holds' = [holds EXCEPT ![s][c] = 0]
  /\ objects' = [objects EXCEPT ![holds[s][c]].open = @ /\ objects[holds[s][c]].service # "stateless"]
  /\ UNCHANGED <<scopes, cache>>

Disposed(place) ==
  [i \in DOMAIN objects |->
     [objects[i] EXCEPT !.open = objects[i].open /\ objects[i].owner # place]]

CloseScope(s) ==
  /\ scopes[s] = "open" /\ \A c \in Consumers : holds[s][c] = 0
  /\ scopes' = [scopes EXCEPT ![s] = "closed"]
  /\ objects' = Disposed(s)
  /\ UNCHANGED <<cache, holds>>

\* The host stops when no request runs.
CloseRoot ==
  /\ scopes[Root] = "open" /\ \A s \in Scopes : scopes[s] # "open"
  /\ scopes' = [scopes EXCEPT ![Root] = "closed"]
  /\ objects' = Disposed(Root)
  /\ UNCHANGED <<cache, holds>>

Next ==
  \/ \E s \in Scopes :
       \/ OpenScope(s) \/ CloseScope(s)
       \/ \E c \in Consumers :
            \/ \E service \in Services \ {"factory"} : Resolve(s, c, service)
            \/ ConfiguratorThrows(s, c)
            \/ Release(s, c)
  \/ CloseRoot

Spec == Init /\ [][Next]_vars

(***************************************************************************)
(* Properties.                                                             *)
(***************************************************************************)
Held(s) == {holds[s][c] : c \in Consumers} \ {0}
Of(service, ids) == {i \in ids : objects[i].service = service}
SessionsIn(s) == Of("session", Held(s)) \cup {objects[i].uses : i \in Of("manager", Held(s))}

\* However scopes come and go, every session is of one factory, which is
\* closed only after all of them.
OneFactory ==
  \A i, j \in DOMAIN objects :
    /\ {objects[i].service, objects[j].service} \subseteq {"session", "stateless"}
         => objects[i].uses = objects[j].uses
    /\ objects[i].service = "session" /\ objects[i].open => objects[objects[i].uses].open

\* All repositories of a request and its transaction manager work in one
\* session, so that what the manager commits is what they have saved.
OneSessionPerScope == \A s \in Scopes : \A i, j \in SessionsIn(s) : i = j

\* Requests share no session, and one that is in use is open.
SessionsAreTheirOwn ==
  \A s \in Scopes :
    /\ \A i \in SessionsIn(s) : objects[i].open
    /\ \A t \in Scopes \ {s} : SessionsIn(s) \cap SessionsIn(t) = {}
=============================================================================
