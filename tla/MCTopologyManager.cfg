SPECIFICATION FairSpec
CONSTANTS
    Threads <- MCThreads
    Nodes <- MCNodes
    Slots <- MCSlots
    Replies <- MCReplies
    SeedLists <- MCSeedLists
    CutOffs <- MCCutOffs
    MaxOutages = 1
    MaxVersion = 2
INVARIANTS
    OneRefreshAtATime
    FailsOnlyWhenCutOff
PROPERTY
    RoutingIsRepaired
CHECK_DEADLOCK FALSE
