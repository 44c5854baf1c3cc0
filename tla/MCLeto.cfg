CONSTANTS
    Ids = {0, 1, 2}
    QcLen = 2
    MaxRound = 3
    LeaderOf <- MCLeaderOf
    MaxCrash = 0
SPECIFICATION Spec
INVARIANTS
    TypeOK
    OneProposalPerRound
    QCForEverySkippedRound
    ParentsStored
    QCsAreEarned
    ForkNeedsQuorumBlame
PROPERTY RoundsAdvance
CHECK_DEADLOCK FALSE
