CONSTANTS
    r1 = r1
    b1 = b1
    b2 = b2
    s1 = s1
    s2 = s2
    Boards <- OneOrTwoLanes
    Length = 4
    Minions <- Roster
    TeamOf <- Side
    LaneOf <- Home
    Heavies <- Heavy
    Points <- Spots
    Waves = 2
    Lives = 2
    MaxPenalty = 2
    MaxAstray = 1
    MaxBlocked = 1
    Edges = {0, 1}
    MaxPatches = 1
SPECIFICATION Spec
INVARIANTS
    VerdictDue
    PushStaysDue
PROPERTIES
    PushFillsTheZone
    HeldByBoth
CHECK_DEADLOCK FALSE
