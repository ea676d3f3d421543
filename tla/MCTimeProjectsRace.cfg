SPECIFICATION Spec
CONSTANTS
    Projects = {p1}
    Tasks = {t1}
    Employees = {e1}
    Calls = {h1, h2}
PROPERTIES
    ProjectsWithEntriesStay
CHECK_DEADLOCK FALSE
