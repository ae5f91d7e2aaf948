SPECIFICATION RecommitSpec
CONSTANTS
    minRecommitInterval = 50
    maxRecommitInterval = 750
    intervalAdjustBias = 10
    Intervals <- MCIntervals
INVARIANTS
    UserMinimumKept
    LimitReachable
