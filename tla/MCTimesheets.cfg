SPECIFICATION Spec
CONSTANTS
    Entries = {n1, n2}
    Data = {d1, d2}
    Calls = {h1, h2, h3}
SYMMETRY Symmetry
INVARIANTS
    CopiesAgree
PROPERTIES
    NothingIsUndone
CHECK_DEADLOCK FALSE
