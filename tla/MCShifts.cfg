SPECIFICATION Spec
CONSTANTS
    Employees = {e1, e2}
    Nobody = Nobody
    Shifts = {s1}
    Calls = {h1, h2, h3, h4}
SYMMETRY Symmetry
INVARIANTS
    OpenMeansUnassigned
    OpenIsOffered
PROPERTIES
    NothingForgotten
    AnsweredIsDone
CHECK_DEADLOCK FALSE
