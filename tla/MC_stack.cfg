CONSTANTS
    Heroes <- MCHeroes
    MaxAttacks = 3
    MaxNested = 4
    MaxPayloads = 2
SPECIFICATION Spec
INVARIANTS
    RunsToTheEnd
    ContextsUnwound
    DefendedAttackIsFought
CHECK_DEADLOCK FALSE
