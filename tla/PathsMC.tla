------------------------------- MODULE PathsMC -------------------------------
(***************************************************************************)
(* Hexes and Paths against reference definitions, over all small inputs.   *)
(***************************************************************************)
EXTENDS Paths

At(q, r) == [q |-> q, r |-> r, s |-> -q - r]
Around(n) == {h \in {At(q, r) : q, r \in -n .. n} : CubeLength(h) <= n}
Values(f) == {f[x] : x \in DOMAIN f}

\* A ring is the circle of its radius, each space once.
ASSUME RingsAreCircles ==
    \A h \in Around(1), n \in 0 .. 3 :
        /\ Values(Ring(h, n)) = {x \in Around(4) : Distance(h, x) = n}
        /\ Cardinality(DOMAIN Ring(h, n)) = Cardinality(Values(Ring(h, n)))

\* The distance is the number of steps of a shortest walk.
ASSUME DistanceIsWalked ==
    \A a \in Around(1), n \in 0 .. 3 :
        Rounds(a, Neighbors, n)[n] = {b \in Around(4) : Distance(a, b) <= n}

\* A line goes step by step, in the direction of its end, over its segment.
ASSUME LinesAreSegments ==
    \A a, b \in Around(2) :
        StraightLine(a, b) /\ a # b =>
            LET line == LineTo(a, b)
                n == Distance(a, b)
            IN  /\ line[n] = b
                /\ Values(line) = {h \in Around(4) : OnSegment(h, a, b, FALSE)} \ {a}
                /\ \A i \in 2 .. n : line[i] \in Neighbors(line[i - 1])
                /\ \E d \in Directions :
                      DirectionTo(a, b) = {d} /\ line[1] = Neighbor(a, d)

Split(axis, value) ==
    [axis |-> axis, value |-> value, isolates |-> FALSE, caster |-> {}]
Isolation(axis, value, h) == [Split(axis, value) EXCEPT !.isolates = TRUE, !.caster = {h}]
Cracks == {{}, {Split("q", 0)}, {Split("r", 1)}, {Split("q", 0), Split("r", 0)},
           {Isolation("q", 0, At(1, 0))}, {Isolation("s", 0, At(0, 0))}}

\* Splits treat both sides alike. An isolation does not: its caster acts on
\* everybody, and only those on the crack act on the caster.
ASSUME IsolationIsOneWay ==
    \A cracks \in Cracks, a, b \in Around(2) :
        /\ (\A c \in cracks : ~c.isolates) =>
               (Connected(a, b, cracks) <=> Connected(b, a, cracks))
        /\ \A c \in cracks :
               /\ cracks = {c} /\ a \in c.caster => Connected(a, b, cracks)
               /\ b \in c.caster /\ a # b /\ Connected(a, b, cracks) => Region(a, c) = 0

\* A flower of seven spaces and a tail of three, with a zone at its end.
Tiles == Around(1) \cup {At(2, 0), At(2, -1), At(3, -1)}
Zone  == {At(1, 0), At(2, 0), At(2, -1), At(3, -1)}
Areas == {<<{}, {}>>,
          <<{[at |-> At(0, -1), radius |-> 1]}, {}>>,
          <<{}, {[at |-> At(2, 0), radius |-> 1]}>>}
Centers(areas) == {area.at : area \in areas[1] \cup areas[2]}
Obstacles == {s \in SUBSET {At(0, 0), At(1, 0), At(1, -1), At(2, -1)} : Cardinality(s) <= 2}
\* The unit that moves stands on its start; somebody stands in the middle of an area.
BoardsFor(start) ==
    {[tiles |-> Tiles, blocked |-> blocked \cup {start} \cup Centers(areas),
      passable |-> passable \cap blocked, denied |-> areas[1],
      barriers |-> areas[2], unit |-> {start}, cracks |-> cracks] :
        blocked \in Obstacles, passable \in {{}, Tiles}, areas \in Areas, cracks \in Cracks}
Starts == {At(0, 1), At(-1, 0)}

\* The spaces offered for a move are those the move accepts when it is made; a
\* move through obstacles also offers the obstacles, which it then refuses.
ASSUME OffersAreLegal ==
    \A start \in Starts : \A board \in BoardsFor(start), n \in {0, 2, 4}, through \in BOOLEAN :
        LET offered == FindReachableHexes(board, start, n, through)
        IN  /\ {h \in Tiles : ValidateMovementPath(board, start, h, n, through)} =
                   {h \in offered \ {start} : ~ObstacleForActor(board, h)}
            /\ ~through => \A h \in offered \ {start} : ~ObstacleForActor(board, h)

\* A space is offered if some walk of at most n steps leads to it over spaces
\* that are free or may be passed, all visible from the start: no move crosses
\* a crack.
Walk(board, a, b, start) ==
    /\ b \in Neighbors(a) \cap Tiles
    /\ Connected(a, b, board.cracks) /\ Connected(start, b, board.cracks)
    /\ ~ObstacleForActor(board, b) \/ b \in board.passable
ASSUME OffersAreWalks ==
    \A start \in Starts : \A board \in BoardsFor(start), end \in Tiles :
        end # start =>
            (end \in FindReachableHexes(board, start, 3, FALSE) <=>
                /\ ~ObstacleForActor(board, end)
                /\ \/ Walk(board, start, end, start)
                   \/ \E x \in Tiles :
                         /\ Walk(board, start, x, start)
                         /\ \/ Walk(board, x, end, start)
                            \/ \E y \in Tiles : Walk(board, x, y, start)
                                             /\ Walk(board, y, end, start))

\* No move leads from one side of a split to the other.
ASSUME NoMoveCrosses ==
    \A start \in Starts : \A board \in BoardsFor(start), through \in BOOLEAN :
        \A h \in FindReachableHexes(board, start, 4, through), c \in board.cracks :
            ~c.isolates =>
                /\ start[c.axis] < c.value => h[c.axis] <= c.value
                /\ start[c.axis] > c.value => h[c.axis] >= c.value

\* A minion that walks home is given a space it can walk to, and is offered none
\* only if it can walk to none. Where nothing is cracked, a displaced minion gets
\* the free spaces at the least distance.
ASSUME NearestIsNearest ==
    \A start \in Starts : \A board \in BoardsFor(start) :
        LET walked == FindNearestEmptyHexes(board, start, Zone, TRUE, Tiles)
            placed == FindNearestEmptyHexes(board, start, Zone, FALSE, Tiles)
            free   == Zone \ board.blocked
            Legal(h) == ValidateMovementPath(board, start, h, Cardinality(Tiles), FALSE)
        IN  /\ \A h \in walked : Legal(h)
            /\ walked = {} => \A h \in free : ~Legal(h)
            /\ board.cracks = {} =>
                   placed = {h \in free : \A x \in free :
                                Distance(start, h) <= Distance(start, x)}
=============================================================================
