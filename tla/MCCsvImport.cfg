SPECIFICATION FairSpec
CONSTANTS
    Imports = {i1, i2}
    None = None
    Absent = Absent
    Null = Null
    PreCols <- MCPreCols
    Required <- MCRequired
    Cases <- MCCases
    Canon <- Numbers
    ChunkSize = 2
    MySql = TRUE
    Deadlocks = TRUE
INVARIANTS
    AllOrNothing
    PreparedFailureUndone
    OnlyDuplicatesSkipped
    DedupedKeysUnique
PROPERTIES
    ImportEnds
