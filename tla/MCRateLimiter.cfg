\* A pipeline of two ticks and a bucket of five; the clock stops at MaxTime.
CONSTANTS
    Need = 2
    Burst = 5
    MaxTime = 14
SPECIFICATION LimiterSpec
CHECK_DEADLOCK FALSE
INVARIANTS
    AtMostTwiceTheRate
    BurstIsBounded
