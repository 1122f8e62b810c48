SPECIFICATION PagesSpec
CONSTANTS
    k1 = k1
    k2 = k2
    k3 = k3
    t1 = t1
    t2 = t2
    NULL = NULL
    Limit = 2
    c1 = c1
    Coaches = {c1}
    Clubs = {k1, k2, k3}
    Askers = {k1}
    MyCoach = c1
    MyClub = k1
    MaxCalls = 1
    Tabs = {t1, t2}
SYMMETRY Symmetry
INVARIANTS
    TypeOK
    LimitWithoutRequests
    RefusedOnlyByAsked
PROPERTIES
    AnswersAreFinal
