------------------------------ MODULE BotDriveMC ------------------------------
(***************************************************************************)
(* One match with two bots and one human, for TLC.                         *)
(***************************************************************************)
EXTENDS BotDrive

CONSTANTS b1, b2, h1

BothTeams == {{b1, b2}, {b2, h1}}
=============================================================================
