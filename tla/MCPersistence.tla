---------------------------- MODULE MCPersistence ---------------------------
(***************************************************************************)
(* A small instance of each part of Persistence: three objects and a       *)
(* proxy; two sessions and the versions of one row; an entity that is      *)
(* validated and one with a unique-signature attribute, too; three rows   *)
(* with two nullable columns; two requests with two consumers each.        *)
(*                                                                         *)
(* The model values of the entities name other things in other parts, too, *)
(* so that one symmetry reduces them all.                                  *)
(***************************************************************************)
EXTENDS Persistence, TLC

Symmetry == Permutations(Objects) \cup Permutations(Ids) \cup Permutations(Values)
=============================================================================
