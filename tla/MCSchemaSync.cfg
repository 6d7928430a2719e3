SPECIFICATION MCSpec
CONSTANTS
    Tables = {t1}
    ColNames = {a, b}
    Syncs = {s1, s2}
    Describers = {d1}
    Editors = {h1}
    Initial = s0
    Null = Null
    MaxDdl = 1
    Readings <- MCReadings
    NoReference = NoReference
    RowOrder <- MCRowOrder
    WordScores = {0, 1, 2}
    MaxTables = 2
    AlwaysAllUnder = 2
    MoreTables = 1
SYMMETRY Symmetry
INVARIANTS
    DescriptionsSurvive
    OneRowPerColumn
    PromptTellsSchema
PROPERTIES
    SyncStoresFound
    NeverClobber
