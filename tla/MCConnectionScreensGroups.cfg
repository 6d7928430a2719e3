SPECIFICATION ScreenSpec
CONSTANTS
    Sqls = {}
    Facts = {}
    NoSql = NoSql
    MaxDepth = 0
    MaxEstimated = 0
    NoReply = NoReply
    None = None
    Lower <- MCLower
    Class <- MCClass
    RefersTo <- MCRefersTo
    Visits <- MCVisits
    ModuleNames <- MCNames
    Suggestions <- MCSuggestions
    Reviews <- MCReviews
PROPERTIES
    ManualEditsPreserved
CHECK_DEADLOCK FALSE
