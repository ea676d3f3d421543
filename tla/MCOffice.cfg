SPECIFICATION MCSpec
CONSTANTS
    Requests = {h1, h2}
    Known = {k1, k2}
    Employees = {k1, k2}
    Tasks = {t1}
    Given = {r1}
    Category = c1
    Calls = {a1, a2, a3}
    Trainings = {u1}
SYMMETRY Symmetry
INVARIANTS
    LinksWork
    GivenTasksAreStored
    
PROPERTIES
    OnlyTheNamedGo
    GivenStays
    AnswersStay
CHECK_DEADLOCK FALSE
