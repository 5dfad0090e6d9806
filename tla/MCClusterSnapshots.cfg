SPECIFICATION SnapshotSpec
CONSTANTS
    Nodes <- MCNodes
    Slots <- MCSlots
    Setups <- MCSetups
    MaxExecuted = 1
    MaxDisconnects = 1
INVARIANTS
    MatrixIsTraffic
    PrimariesStay
    TitlesTellNodes
CHECK_DEADLOCK FALSE
