\* Outages at any time; tests of at most one hit; waits of three polls.
CONSTANTS
    n1 = n1
    n2 = n2
    n3 = n3
    NoNode = NoNode
    Nodes = {n1, n2, n3}
    Setups <- MCSetups
    MaxOutages = 2
    MaxPolls = 3
    MaxHits = 1
SPECIFICATION FairSpec
CHECK_DEADLOCK FALSE
INVARIANTS
    TestsRunConfigured
    NoWarningMeansInForce
    IndexIsRight
    HitsAreOfThisTest

    
