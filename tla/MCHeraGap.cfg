CONSTANTS
    N = 3
    CommitIds <- MCIds
    START_ID = 0
    CommitLen = 2
    MaxRound = 3
    LeaderOf <- MCLeaderOf
    MaxBlocks = 0
    MaxOutstanding = 2
    MaxBlames = 2
    Lagging <- MCLagging
    MaxLate = 1
    Budget <- NoBudget
SPECIFICATION Spec
INVARIANT CommittedWithoutGap
CHECK_DEADLOCK FALSE
