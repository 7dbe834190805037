-------------------------- MODULE MCAttributeCache --------------------------
(***************************************************************************)
(* Concurrent requests for an action without attribute, one that inherits  *)
(* a global attribute and one that overrides it.                           *)
(***************************************************************************)
EXTENDS AttributeCache

Lenient == [isolation |-> "Chaos", rollbackOnInvalid |-> FALSE]
Strict == [isolation |-> "ReadCommitted", rollbackOnInvalid |-> TRUE]

MCFilters ==
  [a \in Actions |->
     CASE a = "plain"     -> <<NoAttribute, NoAttribute, NoAttribute>>
       [] a = "inherits"  -> <<Lenient, NoAttribute, NoAttribute>>
       [] a = "overrides" -> <<Lenient, NoAttribute, Strict>>]

=============================================================================
