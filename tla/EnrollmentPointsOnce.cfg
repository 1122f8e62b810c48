SPECIFICATION Spec
CONSTANTS
    p1 = p1
    p2 = p2
    k1 = k1
    b1 = b1
    NULL = NULL
    Players = {p1, p2}
    Coaches = {p2}
    Clubs = {k1}
    Boards = {b1}
    PlainPlayers = {p1}
    ClubOf <- MCClubOf
    BoardOf <- MCBoardOf
    ClubBoard <- MCClubBoard
    Workers = {w1, w2}
    SimulatePaid = {TRUE}
    MaxEnrollments = 2
    MaxItems = 2
    MaxPodium = 0
    MaxCrashes = 0
INVARIANTS
    PointsOncePerEnrollment
