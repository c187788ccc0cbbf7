-------------------------------- MODULE Moves --------------------------------
(***************************************************************************)
(* Forced and straight moves: what a card offers for them, the steps that  *)
(* carry them out, and the mines they set off. Boards are those of Paths;  *)
(* the one who acts sees the board that forbids spaces, even if another    *)
(* unit is moved. A mine is a passable token of the enemy, known by its    *)
(* space.                                                                  *)
(***************************************************************************)
EXTENDS Paths

\* The spaces from h in a direction.
Ray(h, d, n) == Plus(h, Scale(Vector[d], n))

Open(board, h) == ~ObstacleForActor(board, h) \/ h \in board.passable

-----------------------------------------------------------------------------
(* Straight moves. *)

InStraightLine(board, a, b) == StraightLine(a, b) /\ Connected(a, b, board.cracks)

\* Are the spaces strictly between a and b on the board and clear?
StraightLinePath(board, a, b, through) ==
    LET line == LineTo(a, b)
    IN  \A n \in 1 .. Distance(a, b) - 1 :
            line[n] \in board.tiles /\ (through \/ Open(board, line[n]))

InRange(board, a, b, min, max) ==
    Connected(a, b, board.cracks) /\ Distance(a, b) \in min .. max

\* The destinations a card offers for a unit, as the unit and the actor see them.
LineDestinations(board, actor, h, min, max, through) ==
    {e \in board.tiles : /\ InRange(board, h, e, min, max)
                         /\ StraightLine(h, e) /\ StraightLinePath(board, h, e, through)
                         /\ ~ObstacleForActor(actor, e)}

\* Is a unit offered for such a move? A ray is searched outwards, until it leaves
\* the board or is blocked.
HasStraightLineDestination(board, actor, h, min, max, through) ==
    LET Reaches(e) == InRange(board, h, e, min, max)
        Stops(e)   == \/ e \notin board.tiles
                      \/ Reaches(e) /\ ~StraightLinePath(board, h, e, through)
    IN  \E d \in Directions, n \in min .. max :
            /\ \A m \in min .. n : ~Stops(Ray(h, d, m))
            /\ Reaches(Ray(h, d, n)) /\ ~ObstacleForActor(actor, Ray(h, d, n))

\* Does the step that moves a unit accept the move? The path is searched on the
\* actor's board, the straight line on the unit's own.
MoveUnit(board, actor, start, end, max, straight, through) ==
    /\ start = end \/ ValidateMovementPath(actor, start, end, max, through)
    /\ straight => /\ InStraightLine(board, start, end)
                   /\ StraightLinePath(board, start, end, through)

\* Where a unit that is pulled towards a space goes: next to it.
MoveToward(board, actor, start, target) ==
    LET n == Distance(start, target) - 1
        dest == IF InStraightLine(board, start, target) /\ n > 0
                THEN LineTo(start, target)[n] ELSE start
    IN  IF MoveUnit(board, actor, start, dest, n, TRUE, FALSE) THEN dest ELSE start

-----------------------------------------------------------------------------
(* Mines. *)

\* The destinations of a move with the mines on the way. The origin of the move
\* is not minded, nor is a leave to pass through obstacles.
MineOptions(board, start, max, mines) ==
    LET Steps(x) == {[at |-> n, mines |-> x.mines \cup ({n} \cap mines)] :
                        n \in {m \in Neighbors(x.at) \cap board.tiles :
                                  Connected(x.at, m, board.cracks) /\ Open(board, m)}}
    IN  {x \in Rounds([at |-> start, mines |-> {}], Steps, max)[max] :
            x.at # start /\ x.at \notin board.passable}

\* The mines of a move are one of these sets; if there are several, the actor
\* chooses, and if there is none, none goes off.
MineChoices(board, start, end, max, straight, mines) ==
    IF straight
    THEN LET line == LineTo(start, end)
         IN  {{line[n] : n \in 1 .. Distance(start, end) - 1} \cap mines}
    ELSE LET options == {x.mines : x \in {y \in MineOptions(board, start, max, mines) : y.at = end}}
         IN  IF options = {} THEN {{}} ELSE options

-----------------------------------------------------------------------------
(* Forced moves. *)

\* How far a unit slides that wants to go so far: until something stops it, and
\* then back to a space it may enter.
Slide(distance, Slides(_), Lands(_)) ==
    LET reach == CHOOSE n \in 0 .. distance :
                     /\ \A m \in 1 .. n : Slides(m)
                     /\ n = distance \/ ~Slides(n + 1)
    IN  CHOOSE n \in 0 .. reach :
            /\ n = 0 \/ Lands(n)
            /\ \A m \in n + 1 .. reach : ~Lands(m)

\* A push away from source. Every space must be visible from where it starts.
PushUnit(board, source, target, distance, ignore, mines) ==
    LET d == CHOOSE d \in DirectionTo(source, target) : TRUE
        Slides(n) ==
            LET to == Ray(target, d, n)
            IN  /\ to \in board.tiles
                /\ Connected(target, to, board.cracks)
                /\ Connected(Ray(target, d, n - 1), to, board.cracks)
                /\ ignore \/ Open(board, to)
        Lands(n) == LET to == Ray(target, d, n)
                    IN  to \notin board.passable /\ ~(ignore /\ ObstacleForActor(board, to))
        n == Slide(distance, Slides, Lands)
    IN  IF DirectionTo(source, target) = {}
        THEN [to |-> target, pushed |-> 0, collision |-> FALSE, mines |-> {}]
        ELSE [to |-> Ray(target, d, n), pushed |-> n, collision |-> n < distance,
              mines |-> {Ray(target, d, m) : m \in 1 .. n - 1} \cap mines]

\* A push in a direction whose actor moves as far the other way, as it is offered:
\* how far the target is taken to go, and whether the actor can.
PreviewPush(board, d, target, distance) ==
    LET Slides(n) ==
            LET to == Ray(target, d, n)
            IN  /\ to \in board.tiles /\ Open(board, to)
                /\ Connected(Ray(target, d, n - 1), to, board.cracks)
        Lands(n) == Ray(target, d, n) \notin board.passable
    IN  Slide(distance, Slides, Lands)

LegalDistance(board, d, actor, target, distance) ==
    \A n \in 1 .. PreviewPush(board, d, target, distance) :
        LET to == Ray(actor, (d + 3) % 6, n)
        IN  /\ to \in board.tiles /\ ~ObstacleForActor(board, to)
            /\ Connected(Ray(actor, (d + 3) % 6, n - 1), to, board.cracks)

\* The same push carried out.
MirroredPush(board, d, actor, target, distance) ==
    LET push == PushUnit(board, actor, target, distance, FALSE, {})
        after == [board EXCEPT !.blocked = (@ \ {target}) \cup {push.to}]
        n == PreviewPush(board, d, target, distance)
        dest == Ray(actor, (d + 3) % 6, n)
    IN  [target |-> push.to,
         actor |-> IF MoveUnit(after, after, actor, dest, n, FALSE, FALSE) THEN dest ELSE actor]

\* All units of starts move one space in a direction at once, the largest set of
\* them that can: none moves to a space whose unit stays.
DirectionalMoves(board, starts, d) ==
    LET Dest(h) == Neighbor(h, d)
        able == {h \in starts :
                    /\ Dest(h) \in board.tiles
                    /\ Connected(h, Dest(h), board.cracks)
                    /\ Dest(h) \in starts \/ ~ObstacleForActor(board, Dest(h))}
        Closed(set) == \A h \in set : Dest(h) \in starts => Dest(h) \in set
    IN  [h \in UNION {set \in SUBSET able : Closed(set)} |-> Dest(h)]

-----------------------------------------------------------------------------
(* Two units dragged by the same offset. *)

LandingOk(board, h, pair) ==
    /\ h \in board.tiles
    /\ IF h \in board.blocked THEN h \in pair ELSE ~ObstacleForActor(board, h)

PathClear(board, a, b, skip) ==
    LET line == LineTo(a, b)
    IN  \A n \in 1 .. Distance(a, b) - 1 :
            line[n] \in board.tiles /\ (line[n] = skip \/ Open(board, line[n]))

Mirror(anchor, partner, dest) == Plus(partner, Minus(dest, anchor))

\* Is dest offered to the anchor?
CoMoverValidHex(board, anchor, partner, dest, ignore) ==
    LET other == Mirror(anchor, partner, dest)
    IN  /\ StraightLine(anchor, dest) /\ dest # anchor
        /\ LandingOk(board, dest, {anchor, partner}) /\ LandingOk(board, other, {anchor, partner})
        /\ ignore \/ /\ PathClear(board, anchor, dest, partner)
                     /\ PathClear(board, partner, other, anchor)

\* The board after the unit at a tried to move to b.
Moved(board, a, b, ignore) ==
    IF MoveUnit(board, board, a, b, Distance(a, b), TRUE, ignore)
    THEN [board EXCEPT !.blocked = (@ \ {a}) \cup {b}, !.unit = IF a \in @ THEN {b} ELSE @]
    ELSE board

\* The partner goes first if it stands in the anchor's way.
CoDirectionalDrag(board, anchor, partner, dest, ignore) ==
    LET other == Mirror(anchor, partner, dest)
    IN  IF partner \in {LineTo(anchor, dest)[n] : n \in 1 .. Distance(anchor, dest)}
        THEN Moved(Moved(board, partner, other, ignore), anchor, dest, ignore)
        ELSE Moved(Moved(board, anchor, dest, ignore), partner, other, ignore)
=============================================================================
