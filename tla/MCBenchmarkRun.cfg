\* Either mode, cluster of a replica and a primary: five requests in batches of two, broken connections, workers that may not connect.
CONSTANTS
    w1 = w1
    w2 = w2
    c1 = c1
    c2 = c2
    c3 = c3
    n1 = n1
    n2 = n2
    NoClient = NoClient
    Workers <- MCWorkers
    ClientsOf <- MCClientsOf
    NodeOf <- MCNodeOf
    Cluster = TRUE
    SlotOwners = {c2}
    Flaky = {c2, c3}
    NoConnect = {w1, w2}
    Batch = 2
    Total = 5
    MaxClaims = 2
    ReportTotal = 7
SPECIFICATION FairSpec
CHECK_DEADLOCK FALSE
INVARIANTS
    ClientsKeepTheirPlace
PROPERTIES
    ImplementsLoadRun
    RunTerminates
