CONSTANTS
    Ids = {0, 1, 2}
    NumFaults = 1
    CommitLen = 2
    LeaderOf <- MCLeaderOf
    MaxRound = 3
    MaxEpoch = 3
    MaxBatches = 4
SPECIFICATION ForkSpec
INVARIANT OneBlockPerHeight
CHECK_DEADLOCK FALSE
