CONSTANTS
    NULL = NULL
    Scenarios <- MCScenarios
SPECIFICATION ValidationSpec
INVARIANTS GateHolds
CHECK_DEADLOCK FALSE
