CONSTANTS
    h1 = h1
    h2 = h2
    NoHero = NoHero
    Heroes = {h1, h2}
    Teams <- OneTeam
    TwoCard = {}
    Bots = {}
    Families = {}
    PlanningAllowance = 1
    ResolutionAllowance = 0
    InitiativeBonus = 0
    ResponseGrant = 1
    InitialBank = 0
    BankIncrement = 0
    MaxBank = 0
    UpgradeAllowance = 0
    AutomaticTurnLimit = 1
    EnforceTimeouts = TRUE
    MaxTurn = 2
    MaxRequests = 1
    MaxLag = 1
    MaxOver = 0
    MaxCrashes = 0
SPECIFICATION FairSpec
PROPERTIES
    SilenceIsOvertaken
