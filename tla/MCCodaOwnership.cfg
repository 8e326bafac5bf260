\* Two queries; as many addresses as there are owners that can be filled at once,
\* and one more for what a failing call loses.
CONSTANTS
    Addresses = {a1, a2, a3, a4, a5, a6, a7, a8}
    Queries = {q1, q2}
    MaxLost = 1
    Null = Null
SPECIFICATION Spec
INVARIANTS
    TypeOK
    OneOwner
    BorrowsAreValid
    NothingLeft
