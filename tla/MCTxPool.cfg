CONSTANTS
    Clients = {1, 2}
    MaxNonce = 2
    Rounds = {1, 2}
    Sizes = {1, 2}
    BatchSize = 2
SPECIFICATION PoolSpec
INVARIANTS
    PoolTypeOK
    KeySetsDisjoint
    MineableAboveHigh
    RoundIndexExact
    ByteCountExact
PROPERTY HeldUntilSuperseded
