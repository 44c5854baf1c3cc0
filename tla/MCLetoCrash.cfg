CONSTANTS
    Ids = {0, 1, 2, 3}
    QcLen = 3
    MaxRound = 2
    LeaderOf <- MCLeaderOf
    MaxCrash = 1
SPECIFICATION CrashSpec
PROPERTY RoundsAdvance
CHECK_DEADLOCK FALSE
