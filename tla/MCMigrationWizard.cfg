CONSTANTS
    NONE = NONE
    c1 = c1
    c2 = c2
    c3 = c3
    t1 = t1
    t2 = t2
    Connections <- MCConnections
    Engine <- MCEngine
    BaseTables <- MCTables
    MaxEdits = 2
    MaxRuns = 2
SPECIFICATION WizardSpec
SYMMETRY Targets
INVARIANTS OutcomeOfLastRun
PROPERTIES RunWasValidated
CHECK_DEADLOCK FALSE
