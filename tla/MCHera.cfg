CONSTANTS
    N = 3
    CommitIds <- MCIds
    START_ID = 0
    CommitLen = 2
    MaxRound = 3
    LeaderOf <- MCLeaderOf
    MaxBlocks = 2
    MaxOutstanding = 2
    MaxBlames = 2
    Lagging <- MCLagging
    MaxLate = 1
    Budget <- MCBudget
SPECIFICATION MCSpec
INVARIANTS
    TypeOK
    SkipsEarned
    AdoptedBacked
    ParkedIsFetchable
    EmissionDetermined
CHECK_DEADLOCK FALSE
