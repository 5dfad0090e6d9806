\* Three pipelines of two queries, written and read in pieces.
CONSTANTS
    q1 = q1
    q2 = q2
    Queries = {q1, q2}
    Truth <- MCTruth
    AnswerTo <- MCAnswerTo
    K = 2
    Pipeline = 2
    Pieces = 2
    MaxRequests = 3
SPECIFICATION FairSpec
CHECK_DEADLOCK FALSE
INVARIANTS
    RecallIsOfItsQueries
PROPERTIES
    RequestEnds
