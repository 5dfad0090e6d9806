\* One server, a cluster, and a run for a time; see MCSetups.
CONSTANTS
    c1 = c1
    c2 = c2
    c3 = c3
    n1 = n1
    n2 = n2
    Clients = {c1, c2, c3}
    Datasets <- MCDatasets
    Setups <- MCSetups
    MaxBatches = 5
SPECIFICATION Spec
CHECK_DEADLOCK FALSE
INVARIANTS
    EachVectorLoadedOnce
    LoadCompletes
    DeleteCompletes
    StoredIsItsVector
    BytesAsMeant
    RecallSurvivesDeletes
PROPERTIES
    ProtectedSurvive
