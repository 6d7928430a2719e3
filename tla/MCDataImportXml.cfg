SPECIFICATION MCSpec
CONSTANTS
    Null = Null
    NoTable = NoTable
    NONE = NONE
    NoReply = NoReply
    NoSql = NoSql
    Sqls = {}
    Facts = 0
    MaxDepth = 0
    MaxEstimated = 0
    WordToken <- MCWordToken
    DigitTokens = {"1", "2"}
    Shape <- MCShape
    Number <- MCNumber
    Norm <- MCNorm
    Includes <- MCIncludes
    Lower <- MCLower
    Files <- MCFiles
    OnlyRead <- MCSingleRecord
    Pasted <- MCPasted
    Sheets <- MCSheets
    Connections <- MCConnections
    Schema0 <- MCSchema0
    Instructions = {"late ones"}
    FilterReplies <- MCReplies
    TypedNames <- MCTypedNames
    BadNames = {}
    MaxUploads = 2
    MaxEdits = 2
    MaxImports = 2
INVARIANTS
    SingleRecordRead
CHECK_DEADLOCK FALSE
