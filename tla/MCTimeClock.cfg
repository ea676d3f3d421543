SPECIFICATION MCSpec
CONSTANTS
    Day = 24
    Instants = {7, 20, 31, 44}
    WorkStart = 8
    WorkEnd = 17
    Policies <- MCPolicies
    Rosters <- MCRosters
    Claims <- MCClaims
    Calls = {h1, h2, h3, h4}
    Employees = {}
    Days = {}
    Known = {}
    Of <- NoRows
    On <- NoRows
SYMMETRY Symmetry
INVARIANTS
    EntriesDisjoint
PROPERTIES
    WorkIsKept
CHECK_DEADLOCK FALSE
