------------------------------- MODULE MovesMC -------------------------------
(***************************************************************************)
(* Moves on a strip of ten spaces, with stones and mines.                  *)
(***************************************************************************)
EXTENDS Moves, PathsMC

Strip == {At(q, 0) : q \in -1 .. 4} \cup {At(q, 1) : q \in 0 .. 2} \cup {At(3, -1)}
Things == [{At(1, 0), At(2, 0), At(3, 0), At(1, 1)} -> {"nothing", "stone", "mine"}]
StripAreas == {<<{}, {}>>, <<{[at |-> At(0, 1), radius |-> 1]}, {}>>,
               <<{}, {[at |-> At(2, 1), radius |-> 1]}>>}
StripCracks == {{}, {Split("q", 2)}, {Split("s", -2)}, {Isolation("q", 2, At(4, 0))}}

\* The unit that moves stands at the start of the strip.
Start == At(0, 0)
Strips(cracks) ==
    {[tiles |-> Strip,
      blocked |-> {h \in DOMAIN things : things[h] # "nothing"} \cup {Start} \cup Centers(areas),
      passable |-> {h \in DOMAIN things : things[h] = "mine"},
      denied |-> areas[1], barriers |-> areas[2], unit |-> {Start}, cracks |-> cracks] :
        things \in Things, areas \in StripAreas}
AllStrips == UNION {Strips(cracks) : cracks \in StripCracks}

\* A push ends where a straight move may end, and as far away as one may: it stops
\* before the edge, a crack and an obstacle, and never on a mine.
ASSUME PushesAreStraightMoves ==
    \A board \in AllStrips, distance \in 0 .. 4, ignore \in BOOLEAN :
        LET push == PushUnit(board, At(-1, 0), Start, distance, ignore, {})
            Legal(n) == MoveUnit(board, board, Start, Ray(Start, 0, n), n, TRUE, ignore)
        IN  /\ push.to = Ray(Start, 0, push.pushed)
            /\ Legal(push.pushed)
            /\ \A n \in push.pushed + 1 .. distance : ~Legal(n)
            /\ push.collision <=> push.pushed < distance

\* A mirrored push goes as it was offered: the target and the actor end as far from
\* each other as the preview says. Not so across a crack, which stops the push
\* alone: the preview does not ask what is visible from where the push starts.
Razzle == At(1, 0)
Victim == At(2, 0)
MirrorBoards(cracks) ==
    {[tiles |-> Strip,
      blocked |-> {h \in DOMAIN things : things[h] # "nothing"}
                      \cup {Razzle, Victim} \cup Centers(areas),
      passable |-> {h \in DOMAIN things : things[h] = "mine"},
      denied |-> areas[1], barriers |-> areas[2], unit |-> {Razzle}, cracks |-> cracks] :
        things \in [{At(-1, 0), At(0, 0), At(3, 0), At(4, 0)} -> {"nothing", "stone", "mine"}],
        areas \in StripAreas}
AsOffered(board, n) ==
    LET m == PreviewPush(board, 0, Victim, n)
    IN  MirroredPush(board, 0, Razzle, Victim, n)
            = [target |-> Ray(Victim, 0, m), actor |-> Ray(Razzle, 3, m)]
ASSUME MirrorsMatch ==
    /\ \A board \in MirrorBoards({}), n \in 0 .. 3 :
          LegalDistance(board, 0, Razzle, Victim, n) => AsOffered(board, n)
    /\ \E board \in MirrorBoards({Split("q", 3)}) :
          LegalDistance(board, 0, Razzle, Victim, 2) /\ ~AsOffered(board, 2)

\* A pull ends next to the space it goes to, or moves nothing.
ASSUME PullsEndAdjacent ==
    \A board \in AllStrips, target \in Strip \ {Start} :
        LET to == MoveToward(board, board, Start, target)
        IN  to = Start \/ (Distance(to, target) = 1 /\ to \notin board.blocked)

\* On a board without cracks, a set of mines is offered for a destination exactly if
\* some legal move sets off these mines at most: nobody is made to run into a mine
\* it can walk around, and nobody walks around one it cannot.
Without(board, mines) == [board EXCEPT !.passable = @ \ mines]
Offers(board, end, max, mines) ==
    \E x \in MineOptions(board, Start, max, board.passable) : x.at = end /\ x.mines \subseteq mines
ASSUME MinesAreOnTheWay ==
    \A board \in Strips({}), max \in {2, 4}, end \in Strip :
        \A mines \in SUBSET board.passable :
            Offers(board, end, max, mines) <=>
                ValidateMovementPath(Without(board, board.passable \ mines), Start, end, max, FALSE)

\* On any board a legal move has its mines; but across a crack one may be offered a
\* way round the mines that no legal move goes, and a move through obstacles may
\* have no way on offer, so that no mine goes off.
ASSUME MinesAndCracks ==
    /\ \A board \in AllStrips, end \in Strip :
          ValidateMovementPath(board, Start, end, 3, FALSE) =>
              Offers(board, end, 3, board.passable)
    /\ \E board \in AllStrips, end \in Strip :
          /\ Offers(board, end, 5, {}) /\ ValidateMovementPath(board, Start, end, 5, FALSE)
          /\ ~ValidateMovementPath(Without(board, board.passable), Start, end, 5, FALSE)
    /\ \E board \in Strips({}), end \in Strip :
          /\ ValidateMovementPath(board, Start, end, 3, TRUE)
          /\ ~Offers(board, end, 3, board.passable) /\ board.passable # {}

\* Units that move together move as rows: a unit moves if the row before it ends at
\* a free space, and every space is within the unit's reach.
ASSUME RowsMoveTogether ==
    \A board \in AllStrips, d \in {0, 3, 4} :
        \A starts \in SUBSET (board.blocked \ board.passable) :
            LET moves == DirectionalMoves(board, starts, d)
                Steps(h) == Connected(h, Neighbor(h, d), board.cracks)
            IN  /\ DOMAIN moves =
                      {h \in starts : \E n \in 1 .. 4 :
                          /\ \A m \in 1 .. n - 1 : Ray(h, d, m) \in starts
                          /\ \A m \in 0 .. n - 1 : Steps(Ray(h, d, m))
                          /\ Ray(h, d, n) \notin starts
                          /\ ~ObstacleForActor(board, Ray(h, d, n))}
                /\ Values(moves) \cap (board.blocked \ DOMAIN moves) = {}

\* A unit is offered for a straight move exactly if it has a destination, and then
\* the move is accepted; not so if the unit and the actor see different obstacles.
Lengths == {<<1, 1>>, <<2, 2>>, <<2, 3>>}
ASSUME OfferedLinesLead ==
    \A board \in AllStrips, length \in Lengths, through \in BOOLEAN :
        LET Dests(actor) ==
                LineDestinations(board, actor, Start, length[1], length[2], through)
        IN  /\ \A areas \in StripAreas :
                  LET actor == [board EXCEPT !.denied = areas[1], !.barriers = areas[2]]
                  IN  HasStraightLineDestination(board, actor, Start, length[1], length[2], through)
                          <=> Dests(actor) # {}
            /\ \A e \in Dests(board) : MoveUnit(board, board, Start, e, length[2], TRUE, through)
ASSUME OfferedLinesMayNotLead ==
    \E actor \in Strips({}) :
        LET board == [actor EXCEPT !.denied = {}, !.barriers = {}]
        IN  \E e \in LineDestinations(board, actor, Start, 2, 2, FALSE) :
                ~MoveUnit(board, actor, Start, e, 2, TRUE, FALSE)

\* Two units dragged together both arrive, whichever stands before the other, if
\* nothing but stones and mines is in the way. A crack or a closed area the offer
\* does not look at leaves one of them behind.
Together(board, anchor, partner, dest, ignore) ==
    CoDirectionalDrag(board, anchor, partner, dest, ignore).blocked
        = (board.blocked \ {anchor, partner}) \cup {dest, Mirror(anchor, partner, dest)}
Dragged(board) ==
    {x \in {<<a, p, e>> : a, p \in board.blocked \ board.passable, e \in Strip} :
        x[1] # x[2] /\ InRange(board, x[1], x[3], 1, 3)}
ASSUME DragsArrive ==
    /\ \A board \in Strips({}), ignore \in BOOLEAN : \A x \in Dragged(board) :
          /\ board.denied = {} /\ board.barriers = {}
          /\ CoMoverValidHex(board, x[1], x[2], x[3], ignore)
          => Together(board, x[1], x[2], x[3], ignore)
    /\ \A cause \in {"crack", "area"} :
          \E board \in AllStrips : \E x \in Dragged(board) :
              /\ IF cause = "area" THEN board.cracks = {}
                 ELSE board.denied = {} /\ board.barriers = {}
              /\ CoMoverValidHex(board, x[1], x[2], x[3], FALSE)
              /\ InStraightLine(board, x[1], x[3])
              /\ ~Together(board, x[1], x[2], x[3], FALSE)
=============================================================================
