----------------------- MODULE MCNHibernateUnitOfWork -----------------------
(***************************************************************************)
(* One or two requests against up to three actions: one without            *)
(* TransactionAttribute, one that inherits a global attribute tolerating   *)
(* model errors, and one whose own attribute overrides the global one.     *)
(* Request r1 has up to two queued writes and an identity insert, r2 a     *)
(* queued one.                                                             *)
(***************************************************************************)
EXTENDS NHibernateUnitOfWork, TLC

CONSTANTS r1, r2, w1, w2, w3, w4

MCIdentityWrites == Writes \cap {w2}
MCOwner == [w \in Writes |-> IF w = w3 THEN r2 ELSE r1]

Lenient == [isolation |-> "Chaos", rollbackOnInvalid |-> FALSE]
Strict == [isolation |-> "ReadCommitted", rollbackOnInvalid |-> TRUE]

MCFilters ==
  [a \in Actions |->
     CASE a = "plain"     -> <<NoAttribute, NoAttribute, NoAttribute>>
       [] a = "inherits"  -> <<Lenient, NoAttribute, NoAttribute>>
       [] a = "overrides" -> <<Lenient, NoAttribute, Strict>>
       [] a = "strict"    -> <<NoAttribute, NoAttribute, Strict>>]

=============================================================================
