----------------------------- MODULE RollbackMC ------------------------------
(***************************************************************************)
(* Bounds for model checking Rollback.                                     *)
(***************************************************************************)
EXTENDS Rollback

MCHeroes == {"a", "b", "c"}
=============================================================================
