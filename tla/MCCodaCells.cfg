SPECIFICATION Spec
CONSTANTS
    NColumns = 2
    NRows = 2
    MaxWrites = 2
    Texts <- SomeTexts
    ColumnKinds <- SomeKinds
    Values <- SomeValues
    UserCells <- SomeCells
    Numbers <- SomeNumbers
    Parsings <- SomeParsings
    Reread <- SomeRereads
    CastText <- SomeCasts
    Null = Null
INVARIANTS
    TypeOK
    ReadsWhatWasWritten
