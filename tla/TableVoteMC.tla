----------------------------- MODULE TableVoteMC -----------------------------
(***************************************************************************)
(* Bounds for model checking TableVote.                                    *)
(***************************************************************************)
EXTENDS TableVote

MCPlayers  == {"h1", "h2", "h3"}
MCFlaky    == {"h3"}
MCCallers  == {"table", "share"}
MCFamilies == {"patch", "pause", "rewind", "reveal_player"}
=============================================================================
