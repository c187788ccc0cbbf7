CONSTANTS
    h1 = h1
    h2 = h2
    NoHero = NoHero
    Heroes = {h1, h2}
    Teams <- OneTeam
    TwoCard = {}
    Bots = {}
    Families = {}
    PlanningAllowance = 1
    ResolutionAllowance = 1
    InitiativeBonus = 1
    ResponseGrant = 1
    InitialBank = 0
    BankIncrement = 1
    MaxBank = 1
    UpgradeAllowance = 0
    AutomaticTurnLimit = 1
    EnforceTimeouts = TRUE
    MaxTurn = 2
    MaxRequests = 2
    MaxLag = 3
    MaxOver = 0
    MaxCrashes = 1
SYMMETRY Swap
SPECIFICATION Spec
INVARIANTS
    TypeOK
    ClockAgrees
    DeadlineArmed
PROPERTIES
    ElapsedIsCharged
    AcceptedDecisionIsFree
    NoRefund
    RestartKeepsDecisions
    SuspendedOnlyIfAbandoned
