------------------------- MODULE MCRavenUnitOfWork --------------------------
(***************************************************************************)
(* One request with the handler's manager and a repository's, two changes, *)
(* and an action without attribute, one that inherits an attribute         *)
(* tolerating model errors and one that overrides it.                      *)
(***************************************************************************)
EXTENDS RavenUnitOfWork, TLC

CONSTANTS m1, m2

Lenient == [isolation |-> "Unspecified", rollbackOnInvalid |-> FALSE]
Strict == [isolation |-> "ReadCommitted", rollbackOnInvalid |-> TRUE]

MCFilters ==
  [a \in Actions |->
     CASE a = "plain"     -> <<NoAttribute, NoAttribute, NoAttribute>>
       [] a = "inherits"  -> <<Lenient, NoAttribute, NoAttribute>>
       [] a = "overrides" -> <<Lenient, NoAttribute, Strict>>]

Symmetry == Permutations(Writes)

=============================================================================
