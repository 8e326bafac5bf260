SPECIFICATION Spec
CONSTANTS
    NTables = 2
    NColumns = 4
    Docs <- AllDocs
    Lower <- SomeStems
    TableNames <- TwoSpellings
    ColumnNames <- OneName
    IncludeSystem = TRUE
    Absent = Absent
INVARIANTS
    TypeOK
    CatalogIsComplete
    UnambiguousTablesAreFound
    ColumnNamesDistinct
