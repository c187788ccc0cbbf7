----------------------------- MODULE MatchClockMC -----------------------------
(***************************************************************************)
(* Two-hero instances of MatchClock for TLC.                               *)
(***************************************************************************)
EXTENDS MatchClock, TLC

CONSTANTS h1, h2

OneTeam  == {{h1, h2}}
Swap     == Permutations({h1, h2})
=============================================================================
