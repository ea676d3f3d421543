SPECIFICATION TrackSpec
CONSTANTS
    Projects = {p1}
    Tasks = {t1, t2}
    Employees = {m1}
    Calls = {h1, h2, h3}
    Instants = {0, 3661, 86399, 86430}
    Zones = {0, 3600}
    Durations = {3599}
CONSTRAINT Reliable
SYMMETRY Symmetry
INVARIANTS
    EntriesHaveParents
    DurationIsWorked
CHECK_DEADLOCK FALSE
