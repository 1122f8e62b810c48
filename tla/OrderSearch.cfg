SPECIFICATION SearchSpec
CONSTANTS
    k1 = k1
    k2 = k2
    NULL = NULL
    Tables <- MCTables
    Attempts = 2
INVARIANTS
    RepeatsOutweighClubs
    ByesAreSpread
PROPERTIES
    EndsWithAnOrder
CHECK_DEADLOCK FALSE
