\* The counter may pass the limit by as many claims as there are workers, twice.
CONSTANTS
    w1 = w1
    w2 = w2
    w3 = w3
    Workers <- MCWorkers
    MaxId = 5
    Skipped <- MCSkipped
    MaxCounter = 9
SPECIFICATION PoolFairSpec
PROPERTIES
    EverySearchEnds
    ImplementsDispenser
