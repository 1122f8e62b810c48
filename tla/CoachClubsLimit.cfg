SPECIFICATION Spec
CONSTANTS
    k1 = k1
    k2 = k2
    k3 = k3
    k4 = k4
    t1 = t1
    t2 = t2
    NULL = NULL
    Limit = 3
    Coaches = {c1}
    Clubs = {k1, k2, k3, k4}
    Askers = {k1, k2}
    Tabs = {t1, t2}
SYMMETRY Symmetry
INVARIANTS
    AtMostThree
