-------------------------------- MODULE Hexes --------------------------------
(***************************************************************************)
(* The spaces of the board in cube coordinates: distances, rings, straight *)
(* lines, and which spaces may act on which while reality is cracked.      *)
(*                                                                         *)
(* A crack (an effect of type TOPOLOGY_SPLIT or TOPOLOGY_ISOLATION that no *)
(* unit of the query ignores) is a record: its axis, the value that parts  *)
(* the board, whether it isolates its caster, and the caster's space, a    *)
(* set that is empty if the caster has none.                               *)
(***************************************************************************)
EXTENDS Integers

Hex == {h \in [q : Int, r : Int, s : Int] : h.q + h.r + h.s = 0}

Abs(n) == IF n < 0 THEN -n ELSE n

Plus(a, b)  == [q |-> a.q + b.q, r |-> a.r + b.r, s |-> a.s + b.s]
Minus(a, b) == [q |-> a.q - b.q, r |-> a.r - b.r, s |-> a.s - b.s]
Scale(h, k) == [q |-> h.q * k, r |-> h.r * k, s |-> h.s * k]

Larger(m, n) == IF m >= n THEN m ELSE n
CubeLength(h) == Larger(Abs(h.q), Larger(Abs(h.r), Abs(h.s)))
Distance(a, b) == CubeLength(Minus(a, b))

Directions == 0 .. 5

\* Clockwise from the top right.
Vector == [d \in Directions |->
    CASE d = 0 -> [q |-> 1, r |-> 0, s |-> -1]
      [] d = 1 -> [q |-> 1, r |-> -1, s |-> 0]
      [] d = 2 -> [q |-> 0, r |-> -1, s |-> 1]
      [] d = 3 -> [q |-> -1, r |-> 0, s |-> 1]
      [] d = 4 -> [q |-> -1, r |-> 1, s |-> 0]
      [] d = 5 -> [q |-> 0, r |-> 1, s |-> -1]]

Neighbor(h, d) == Plus(h, Vector[d % 6])
Neighbors(h)   == {Neighbor(h, d) : d \in Directions}

-----------------------------------------------------------------------------
(* Rings and lines. *)

\* The walk around h at a distance: it starts in direction 4 and goes so many
\* steps in each direction.
Ring(h, radius) ==
    LET walk[n \in 1 .. 6 * radius] ==
            IF n = 1 THEN Plus(h, Scale(Vector[4], radius))
                     ELSE Neighbor(walk[n - 1], (n - 2) \div radius)
    IN  IF radius = 0 THEN <<h>> ELSE [n \in 1 .. 6 * radius |-> walk[n]]

StraightLine(a, b) == a.q = b.q \/ a.r = b.r \/ a.s = b.s

OnSegment(h, start, end, exclusive) ==
    /\ StraightLine(start, end)
    /\ Distance(start, h) + Distance(h, end) = Distance(start, end)
    /\ exclusive => h # start /\ h # end

\* The step of length one from a towards b.
UnitStep(a, b) ==
    LET n == Distance(a, b)
    IN  [q |-> (b.q - a.q) \div n, r |-> (b.r - a.r) \div n, s |-> (b.s - a.s) \div n]

\* The spaces from a, excluded, to b, included; for a and b in a straight line.
LineTo(a, b) == [n \in 1 .. Distance(a, b) |-> Plus(a, Scale(UnitStep(a, b), n))]

\* The direction from a to b: none, if the set is empty.
DirectionTo(a, b) ==
    IF a = b \/ ~StraightLine(a, b) THEN {}
    ELSE {d \in Directions : Vector[d] = UnitStep(a, b)}

-----------------------------------------------------------------------------
(* Cracks in reality. *)

\* Which side of a crack a space lies on; zero is the crack, which joins them.
Region(h, crack) ==
    IF h[crack.axis] < crack.value THEN -1
    ELSE IF h[crack.axis] > crack.value THEN 1 ELSE 0

CheckSplit(origin, target, crack) ==
    Region(origin, crack) * Region(target, crack) # -1

\* The caster of an isolation sees no crack; to the others the crack is a split,
\* and they reach the caster from the crack itself only.
CheckIsolation(origin, target, crack) ==
    \/ origin \in crack.caster
    \/ /\ CheckSplit(origin, target, crack)
       /\ target \in crack.caster => Region(origin, crack) = 0

\* May origin act on target? Not symmetric.
Connected(origin, target, cracks) ==
    \A crack \in cracks :
        IF crack.isolates THEN CheckIsolation(origin, target, crack)
                          ELSE CheckSplit(origin, target, crack)

Adjacent(a, b, cracks) == Distance(a, b) = 1 /\ Connected(a, b, cracks)
ConnectedNeighbors(h, cracks) == {n \in Neighbors(h) : Connected(h, n, cracks)}
ConnectedRing(h, radius, cracks) ==
    LET ring == Ring(h, radius)
    IN  {ring[n] : n \in {m \in DOMAIN ring : Connected(h, ring[m], cracks)}}

\* Is target in the scope of an effect at origin? A zone does not mind cracks.
InScope(origin, target, shape, range, zoneOf, cracks) ==
    CASE shape = "GLOBAL"   -> Connected(origin, target, cracks)
      [] shape = "POINT"    -> origin = target
      [] shape = "ADJACENT" -> Adjacent(origin, target, cracks)
      [] shape = "RADIUS"   -> /\ Connected(origin, target, cracks)
                               /\ Distance(origin, target) <= range
      [] shape = "LINE"     -> /\ StraightLine(origin, target)
                               /\ Connected(origin, target, cracks)
                               /\ Distance(origin, target) <= range
      [] shape = "ZONE"     -> zoneOf[origin] = zoneOf[target]
=============================================================================
