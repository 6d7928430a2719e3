SPECIFICATION Spec
CONSTANTS
    Tables <- MCTables
    Rows = {1, 2, 3, 4}
    SourceRows <- MCSourceRows
    OldRows <- MCOldRows
    Jobs <- AllJobs
    Batch = 2
    MaxWrites = 1
INVARIANTS
    ReportHolds
    FailedCopyAtomic
    ExistingRowsKept
    TablesInOrder
