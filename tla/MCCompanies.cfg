SPECIFICATION MCSpec
CONSTANTS
    Calls = {h1, h2, h3}
SYMMETRY Symmetry
INVARIANTS
    TenantsApart
    SignUpIsWhole
    NothingIsLeft
    FlagsStick
CHECK_DEADLOCK FALSE
