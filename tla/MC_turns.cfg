CONSTANTS
    Red = {"a", "c"}
    Blue = {"b"}
    TwoCard = {"a"}
    Cards = {1, 2, 3}
    Reserve = {3}
    Bonus <- NoItems
    LastTurn = 3
    Effects = {"defeat", "discard", "retrieve", "swap", "nested", "schedule", "flip"}
    MaxEffects = 2
    MaxUndo = 1
    Growing = {"b"}
SPECIFICATION FairSpec
INVARIANTS
    NeverStuck
    CardsConserved
    SlotPerTurn
    CommitsAreHonoured
PROPERTIES
    RoundsEnd
CHECK_DEADLOCK FALSE
