SPECIFICATION MCSpec
CONSTANTS
    Calls = {h1, h2, h3}
    Known = {k1, k2}
    Resumes = {r1}
INVARIANTS
    PoolsNameCandidates
    ApplicantsStay
    HireIsRecorded
    AcceptanceStands
PROPERTIES
    SummaryArrives
CHECK_DEADLOCK FALSE
