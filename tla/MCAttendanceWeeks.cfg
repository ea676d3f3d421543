SPECIFICATION MCSpec
CONSTANTS
    e1 = e1
    e2 = e2
    d1 = d1
    d2 = d2
    k1 = k1
    k2 = k2
    Employees = {e1, e2}
    Days = {d1, d2}
    Known = {k1, k2}
    Of <- MCOf
    On <- MCOn
    Calls = {h1, h2, h3, h4}
    Day = 1
    Instants = {0}
    WorkStart = 0
    WorkEnd = 0
    Policies = {}
    Rosters = {}
    Claims = {}
SYMMETRY Symmetry
INVARIANTS
    TimeStays
    SummaryAgrees
    OneOfEach
CHECK_DEADLOCK FALSE
