CONSTANTS
    Ids = {0, 1, 2}
    NumFaults = 1
    CommitLen = 2
    LeaderOf <- MCLeaderOf
    MaxRound = 2
    MaxEpoch = 2
    MaxBatches = 2
SPECIFICATION Spec
INVARIANTS
    TypeOK
    StoreChained
    EpochFollowsQCs
    EpochsEarned
    SingleChainAgreement
PROPERTY HeadMoves
CHECK_DEADLOCK FALSE
