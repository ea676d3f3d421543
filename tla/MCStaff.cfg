SPECIFICATION MCSpec
CONSTANTS
    Calls = {h1, h2}
    Known = {k1, k2}
    Early = {j1, j2}
    MaxSeats = 2
    MaxBought = 1
    DefaultUsers = 1
INVARIANTS
    OneOwner
    SeatsKept
    SupervisorsManage
    OneCurrentJob
CHECK_DEADLOCK FALSE
