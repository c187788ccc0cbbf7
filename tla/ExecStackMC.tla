----------------------------- MODULE ExecStackMC -----------------------------
(***************************************************************************)
(* Bounds for model checking ExecStack.                                    *)
(***************************************************************************)
EXTENDS ExecStack

MCHeroes == {"a", "b"}
=============================================================================
