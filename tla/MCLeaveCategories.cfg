SPECIFICATION MCSpec
CONSTANTS
    Employees = {e1, e2}
    Categories = {c1}
    Calls = {h1, h2, h3}
    TimeUnits = {"DAYS", "HOURS"}
    Nobody = Nobody
SYMMETRY Symmetry
INVARIANTS
    OneBalanceRow
PROPERTIES
    NothingIsUndone
    IsEnvironmentOfRequests
CHECK_DEADLOCK FALSE
