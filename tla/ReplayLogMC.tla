----------------------------- MODULE ReplayLogMC -----------------------------
(***************************************************************************)
(* ReplayLog as it is model-checked.                                       *)
(***************************************************************************)
EXTENDS ReplayLog
=============================================================================
