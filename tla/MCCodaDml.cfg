SPECIFICATION Spec
CONSTANTS
    Connections = {c1, c2}
    Statements <- SomeStatements
    VectorSize = 2
SYMMETRY ConnectionSymmetry
INVARIANTS
    TypeOK
    SuccessMeansAll
    QuietRollbackLeavesOneChunk
    NoTransactionLeft
PROPERTIES
    NoWriteInExplicitTransaction
    ImplementsWriteReport
