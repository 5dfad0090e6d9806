\* Sequential keys, random subsets, two nodes, migrating slots.
CONSTANTS
    c1 = c1
    c2 = c2
    c3 = c3
    n1 = n1
    n2 = n2
    r1 = r1
    tagA = tagA
    tagB = tagB
    tagC = tagC
    s1 = s1
    s2 = s2
    s3 = s3
    Mix <- MCMix
    Clients = {c1, c2, c3}
    Primaries = {n1, n2}
    SlotOf <- MCSlotOf
    Fallback = tagA
    Attempts = 2
    Candidate <- MCCandidate
    Keyspace = 3
    Setups <- MCSetups
SPECIFICATION Spec
CHECK_DEADLOCK FALSE
INVARIANTS
    GetsHitWhenAlike
    SequentialCoversKeyspace
PROPERTY
    CountedIsExecuted
