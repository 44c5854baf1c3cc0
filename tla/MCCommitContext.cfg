CONSTANTS
    N = 4
    CommitIds <- MCIds
    START_ID = 0
    CommitLen = 3
    MaxRound = 6
    LeaderOf <- MCLeaderOf
SPECIFICATION Spec
INVARIANTS
    CountsCoverQueue
    HighestKept
    InOrderOneChain
PROPERTY InOrderCommitRule
CHECK_DEADLOCK FALSE
