----------------------------- MODULE TurnCycleMC -----------------------------
(***************************************************************************)
(* An instance of TurnCycle for TLC: three heroes, three cards each.       *)
(***************************************************************************)
EXTENDS TurnCycle

\* Everybody's items agree, so equal cards tie.
NoItems == [h \in Heroes |-> 0]
=============================================================================
