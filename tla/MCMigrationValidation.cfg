CONSTANTS
    NULL = NULL
    Scenarios <- MCScenarios
SPECIFICATION ValidationSpec
INVARIANTS CleanReportCopies OrderSound
CHECK_DEADLOCK FALSE
