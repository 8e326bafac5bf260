\* Chunks of up to three rows and two columns: a reservation for one row, or for
\* one column, is exceeded, and by more than one string.
CONSTANTS
    MaxRows = 3
    MaxColumns = 2
SPECIFICATION Spec
INVARIANTS
    TypeOK
    BorrowsHold
    SlicesMatchRows
