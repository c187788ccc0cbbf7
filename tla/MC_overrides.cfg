CONSTANTS
    h1 = h1
    h2 = h2
    NoHero = NoHero
    Heroes = {h1, h2}
    Teams <- OneTeam
    TwoCard = {h1}
    Bots = {h2}
    Families = {"pause", "patch", "rewind", "reveal_player"}
    PlanningAllowance = 1
    ResolutionAllowance = 0
    InitiativeBonus = 0
    ResponseGrant = 1
    InitialBank = 0
    BankIncrement = 0
    MaxBank = 0
    UpgradeAllowance = 0
    AutomaticTurnLimit = 1
    EnforceTimeouts = TRUE
    MaxTurn = 1
    MaxRequests = 1
    MaxLag = 1
    MaxOver = 0
    MaxCrashes = 1

SPECIFICATION Spec
PROPERTIES
    PauseHolds
