SPECIFICATION Spec
CONSTANTS
    g1 = g1
    g2 = g2
    p1 = p1
    p2 = p2
    p3 = p3
    p4 = p4
    p5 = p5
    NULL = NULL
    same = same
    NameOf <- MCNameOf
    Rest = Rest
    Groups = {g1, g2}
    WeightOf <- MCWeightOf
    Players = {p1, p2, p3, p4, p5}
    Pool <- MCPool
    Mats = {1, 2}
    Assignments = {{1, 2}, {2}}
    Overrides = {3, 8}
    MaxEntrants = 3
    MaxDraws = 2
SYMMETRY Symmetry
INVARIANTS
    TypeOK
    BoutsInOrder
    PairsRemembered
    BoardShowsTheDraw
    BoutsWearTheirNumbers
PROPERTIES
    WholeScheduleInOrder
    EveryoneSeatedOnce
