\* Two rows; up to two filters, one of which may be left above the scan; every
\* order of the rows in the column that can be sorted by.
CONSTANTS
    NRows = 2
    Columns = {name, createdAt}
    Filterable = {name}
    Sortable = {createdAt}
    Finite = {a, b}
    NonFinite = {nan}
    Blank = Blank
    MaxFilters = 2
    NoQuery = NoQuery
    NoOrder = NoOrder
SPECIFICATION Spec
INVARIANTS
    TypeOK
    AnswerIsRight
\* The plan is executed once: no deadlock check.
CHECK_DEADLOCK FALSE
