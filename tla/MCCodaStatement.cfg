\* Three rows, two vectors; one change by another user.  MaxChanges leaves room
\* for every write of the statement.
CONSTANTS
    NRows = 3
    MaxChanges = 7
    PageCap = 2
    VectorSize = 2
    PushedLimit = 0
    SyncFromListing = TRUE
    OffersSync <- AlwaysOffered
    NoToken = NoToken
    Kinds <- AllKinds
    MaxEdits = 1
SPECIFICATION FairStatement
INVARIANTS
    StatementTypeOK
    EmittedWasLive
    NoLostRow
    FreshAtSync
    CopiesOnlyOfChanged
    DeletesOnce
    NeverReadsOwnWrites
    EveryRowIsWritten
PROPERTIES
    StatementEnds
