SPECIFICATION ControlFairSpec
CONSTANTS
    Setups <- MCSetups
    StrayCounts = {1, 2}
INVARIANTS
    OnlyFailuresConfuse
    HandedOutReady
PROPERTY
    CommandsReturn
CHECK_DEADLOCK FALSE
