SPECIFICATION MCSpec
CONSTANTS
    Employees = {e1}
    Categories = {c1}
    Balances = {b1, b2}
    Calls = {h1, h2, h3}
    Few = 2
SYMMETRY Symmetry
INVARIANTS
    HistoryIsThere
    BooksBalance
    TotalIsExplained
    HistoryAgrees
PROPERTIES
    ChargedOnceRefundedOnce
CHECK_DEADLOCK FALSE
