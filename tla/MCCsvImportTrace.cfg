SPECIFICATION Spec
CONSTANTS
    Imports = {i1}
    None = None
    Absent = Absent
    Null = Null
    PreCols <- MCPreCols
    Required <- MCRequired
    Cases <- MCCases
    Canon <- Numbers
    ChunkSize = 2
    MySql = TRUE
    Deadlocks = FALSE
INVARIANTS
    FailedImportLeavesNoTrace
