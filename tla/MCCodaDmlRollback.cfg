SPECIFICATION Spec
CONSTANTS
    Connections = {c1}
    Statements <- SomeStatements
    VectorSize = 2
INVARIANTS
    QuietRollbackMeansNoWrite
