CONSTANTS
    N = 3
    Clients = {1}
    MaxNonce = 2
    Rounds <- MCRounds
    Sizes = {1}
    BatchSize = 1
    my_id = 0
    INITIAL_LEADER = 0
    CommitIds <- MCIds
    START_ID = 0
    CommitLen = 2
    MaxRound = 5
    LeaderOf <- MCLeaderOf
SPECIFICATION NodeSpec
INVARIANTS
    MarksFollowCommits
PROPERTIES
    NeverSealsCommitted
    OwnRoundsEnd
CHECK_DEADLOCK FALSE
