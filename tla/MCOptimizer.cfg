\* One long parameter, two parameters, two goals and few iterations, two goals with a tolerance.
CONSTANTS
    Setups <- MCSetups
SPECIFICATION FairSpec
CHECK_DEADLOCK FALSE
INVARIANTS
    NeverRepeats
    BestIsBest
    ConvergedIsLocalOptimum
PROPERTIES
    SearchEnds
