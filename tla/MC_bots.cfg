CONSTANTS
    b1 = b1
    b2 = b2
    h1 = h1
    Nobody = Nobody
    Games = {g1}
    Bots = {b1, b2}
    Humans = {h1}
    Searchers = {b1}
    Teams <- BothTeams
    Futures = {f1, f2}
    Concurrency = 1
    MaxTurn = 2
    MaxRequests = 2

SPECIFICATION FairSpec

INVARIANTS
    PermitsKept
    StrandedOnlyIfMissed

PROPERTIES
    AnswersItsTurn
    BotsAct

CHECK_DEADLOCK FALSE
