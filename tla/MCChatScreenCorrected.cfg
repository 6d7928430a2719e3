SPECIFICATION Spec
CONSTANTS
    Sqls <- MCSqls
    Facts <- MCFacts
    Lower <- MCLower
    Replies <- MCReplies
    Edited <- MCEdited
    NoReply = NoReply
    NoSql = NoSql
    None = None
    MaxDepth = 2
    MaxEstimated = 6
    MaxPageSize = 4
    PageSize = 2
    MaxAsks = 1
    MaxRuns = 2
    MaxMounts = 2
INVARIANTS
    CorrectedSqlShown
CHECK_DEADLOCK FALSE
