CONSTANTS
    MaxPlayers = 3
    Totals = {2, 3}
    Roster <- MCRoster
    FullStars = 2
    ChaosMin = 1
    ChaosUnused = 1
    NoHero = "none"
SPECIFICATION DraftSpec
INVARIANTS
    DraftFits
    DraftGoesOn
CHECK_DEADLOCK FALSE
