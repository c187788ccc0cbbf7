CONSTANTS
    Heroes <- MCHeroes
    MaxEvents = 3
    MaxPayloads = 2
    MaxTurns = 3
SPECIFICATION Spec
INVARIANTS
    OwnChoicesOnly
    OfferIsHonoured
CHECK_DEADLOCK FALSE
