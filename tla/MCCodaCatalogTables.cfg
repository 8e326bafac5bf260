SPECIFICATION Spec
CONSTANTS
    NTables = 2
    NColumns = 1
    Docs <- EditedDocs
    Lower <- SomeStems
    TableNames <- TwoSpellings
    ColumnNames <- OneName
    IncludeSystem = FALSE
    Absent = Absent
INVARIANTS
    EveryTableIsExposed
