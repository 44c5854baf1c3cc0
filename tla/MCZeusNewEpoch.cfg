CONSTANTS
    Ids = {0, 1, 2}
    NumFaults = 1
    CommitLen = 2
    LeaderOf <- MCLeaderOf
    MaxRound = 1
    MaxEpoch = 2
    MaxBatches = 2
SPECIFICATION Spec
INVARIANT OwnBlockAdmitted
CHECK_DEADLOCK FALSE
