------------------------------ MODULE MCLibrary -----------------------------
(***************************************************************************)
(* A small instance of each part of Library: two sessions that check;      *)
(* threads that race for an entity type and for one that is refused; a     *)
(* builder where each source of a property has a value of its own, and     *)
(* each of two files a listener of its own; two classes of two tests, each *)
(* live or transient, in memory or on a server.                            *)
(***************************************************************************)
EXTENDS Library, TLC

\* What the configuration files, the configurer and the cache settings set.
InFile == [f \in Files |-> [k \in {"dialect"} |-> f]]
OfFile == [f \in Files |-> IF f = "site" THEN <<"log", "count">> ELSE <<"check">>]
OfDatabase == {[k \in {"dialect", "batch"} |-> "database"]}
OfCache == {[k \in {"batch"} |-> "cache"]}

Symmetry == Permutations(Sessions)
=============================================================================
