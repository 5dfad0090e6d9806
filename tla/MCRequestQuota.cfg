\* Five requests in batches of two, so that the last batch overshoots; or at most three batches on the clock.
CONSTANTS
    w1 = w1
    w2 = w2
    w3 = w3
    Workers <- MCWorkers
    Batch = 2
    Total = 5
    MaxClaims = 3
SPECIFICATION Spec
INVARIANTS
    FewLateGrants
PROPERTIES
    CompleteIsStable
    ImplementsAtomicQuota
