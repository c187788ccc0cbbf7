-------------------------------- MODULE Paths --------------------------------
(***************************************************************************)
(* The searches over the board: where a unit may move, whether a move is   *)
(* legal, and the nearest free spaces of a zone.                           *)
(*                                                                         *)
(* A board, as one unit sees it, is a record:                              *)
(*   tiles     its spaces; whatever lies beyond counts as terrain          *)
(*   blocked   the spaces of terrain, units and tokens                     *)
(*   passable  the blocked spaces a unit may pass, but not enter           *)
(*   denied    the empty spaces closed to the unit, as [at, radius]        *)
(*   barriers  the enemy barriers the unit minds, as [at, radius]          *)
(*   unit      the space the barriers take the unit to be in, if any       *)
(*   cracks    the cracks of Hexes no unit of the query ignores            *)
(* Spaces that may be missing are sets of at most one.                     *)
(***************************************************************************)
EXTENDS Hexes, FiniteSets

Within(area, h, board) ==
    Distance(area.at, h) <= area.radius /\ Connected(area.at, h, board.cracks)

\* A space is also an obstacle if it is denied to the unit, or if a barrier
\* stands between the unit and it, whichever of the two is inside.
ObstacleForActor(board, h) ==
    \/ h \notin board.tiles \/ h \in board.blocked
    \/ \E area \in board.denied : Within(area, h, board)
    \/ \E area \in board.barriers, u \in board.unit :
            Within(area, u, board) # Within(area, h, board)

\* The steps from h in a move that began at start. Every space of a move must
\* be visible from its start, so that the crack is no bridge; end, if given,
\* may be an obstacle.
TraversableNeighbors(board, h, end, start, through) ==
    {n \in Neighbors(h) \cap board.tiles :
        /\ Connected(start, n, board.cracks) /\ Connected(h, n, board.cracks)
        /\ \/ through \/ n \in end \/ n \in board.passable
           \/ ~ObstacleForActor(board, n)}

\* What a breadth-first search that expands by Step has seen after each round.
Rounds(start, Step(_), max) ==
    LET seen[n \in 0 .. max] ==
            IF n = 0 THEN {start}
            ELSE LET before == seen[n - 1]
                 IN  before \cup UNION {Step(h) : h \in before}
    IN  seen

\* The spaces offered for a move of at most max steps.
FindReachableHexes(board, start, max, through) ==
    LET Step(h) == TraversableNeighbors(board, h, {}, start, through)
    IN  {start} \cup {h \in Rounds(start, Step, max)[max] :
                         through \/ ~ObstacleForActor(board, h)}

\* Is the move legal when it is carried out?
ValidateMovementPath(board, start, end, max, through) ==
    LET Step(h) == TraversableNeighbors(board, h, {end}, start, through)
    IN  /\ max > 0 /\ start # end
        /\ ~ObstacleForActor(board, end)
        /\ end \in Rounds(start, Step, max)[max]

\* The nearest free spaces of a zone. A walk minds obstacles; a displacement
\* minds the cracks only, and one at a time: it may go round by the crack.
FindNearestEmptyHexes(board, start, zone, walk, allowed) ==
    LET Step(h) == IF walk THEN TraversableNeighbors(board, h, {}, start, FALSE)
                   ELSE ConnectedNeighbors(h, board.cracks) \cap board.tiles
        rounds == Rounds(start, Step, Cardinality(board.tiles))
        Free(n) == ((rounds[n] \cap zone) \ ({start} \cup board.blocked)) \cap allowed
        found == {n \in DOMAIN rounds : Free(n) # {}}
    IN  IF found = {} THEN {} ELSE Free(CHOOSE n \in found : \A m \in found : n <= m)
=============================================================================
