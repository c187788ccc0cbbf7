CONSTANTS
    MaxDecisions = 2
    MaxRewinds = 2
    MaxClock = 1
    Positions = {1, 4}
    MaxRequests = 2
    MaxFaults = 1
    MaxStops = 1
SPECIFICATION LogSpec
INVARIANTS
    LogIsTheGame
    ViewsShowThePast
CHECK_DEADLOCK FALSE
