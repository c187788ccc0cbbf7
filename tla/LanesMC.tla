------------------------------- MODULE LanesMC -------------------------------
(***************************************************************************)
(* Maps of one lane and of two, four zones each.                           *)
(***************************************************************************)
EXTENDS Lanes, TokensMC

CONSTANTS r1, b1, b2, s1, s2

OneOrTwoLanes == {<<"lane_1">>, <<"lane_1", "lane_2">>}
Roster == {r1, b1, b2, s1, s2}
Side   == [m \in Roster |-> IF m \in {r1, s1} THEN "RED" ELSE "BLUE"]
Home   == [m \in Roster |-> IF m \in {s1, s2} THEN "lane_2" ELSE "lane_1"]
Heavy  == {r1}

\* Every zone between the thrones has a spawn point for each minion it may
\* fill; RED has one to spare next to its own throne.
Spots ==
    [l \in {"lane_1", "lane_2"} |-> [i \in 1 .. 4 |->
        {<<"RED", l = "lane_1", 1>>, <<"BLUE", FALSE, 1>>}
        \cup (IF l = "lane_1" THEN {<<"BLUE", FALSE, 2>>} ELSE {})
        \cup (IF i = 2 THEN {<<"RED", FALSE, 2>>} ELSE {})]]
=============================================================================
