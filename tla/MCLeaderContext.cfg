CONSTANTS
    Ids = {0, 1, 2, 3, 4}
    START_ID = 0
    Limit = 3
SPECIFICATION Spec
INVARIANTS
    NeverTwiceInARow
    EveryoneRotates
    LeadersSpaced
    ElligibleCount
