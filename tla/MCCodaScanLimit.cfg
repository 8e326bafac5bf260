SPECIFICATION FairSpec
CONSTANTS
    NRows = 4
    MaxChanges = 2
    PageCap = 2
    VectorSize = 2
    PushedLimit = 3
    SyncFromListing = FALSE
    OffersSync <- SometimesOffered
    NoToken = NoToken
INVARIANTS
    BoundedOvershoot
    LimitedAnswer
    NoVersionTwice
PROPERTIES
    ImplementsRowStream
    Terminates
