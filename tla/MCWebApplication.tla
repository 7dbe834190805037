-------------------------- MODULE MCWebApplication --------------------------
(***************************************************************************)
(* Two requests, of which one writes, for an action that inherits a global *)
(* attribute and one that overrides it: they meet in the cache in every    *)
(* order.  No action lacks an attribute, so that a request that runs       *)
(* without one is noticed.                                                 *)
(***************************************************************************)
EXTENDS WebApplication

CONSTANTS r1, r2, w1

MCOwner == [w \in Writes |-> r1]

Policy(rollback) == [isolation |-> "ReadCommitted", rollbackOnInvalid |-> rollback]

MCFilters ==
  [a \in Actions |-> <<Policy(FALSE), NoAttribute, IF a = "strict" THEN Policy(TRUE) ELSE NoAttribute>>]

=============================================================================
