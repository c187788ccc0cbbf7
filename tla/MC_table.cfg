CONSTANTS
    Players <- MCPlayers
    Flaky <- MCFlaky
    Callers <- MCCallers
    Rewind = "table"
    Workers = 1
    MaxFaults = 2
    Families <- MCFamilies
    MaxProposals = 2
SPECIFICATION FairSpec
INVARIANTS
    TimerPerProposal
    ToldUnlessLost
PROPERTIES
    IsBallot
    ReplacementKept
    ProposalsEnd
CHECK_DEADLOCK FALSE
