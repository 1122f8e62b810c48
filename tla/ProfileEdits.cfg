SPECIFICATION FormSpec
CONSTANTS
    p1 = p1
    p2 = p2
    k1 = k1
    b1 = b1
    e1 = e1
    e2 = e2
    e3 = e3
    r1 = r1
    r2 = r2
    NULL = NULL
    Players = {p1, p2}
    Coaches = {p2}
    Clubs = {k1}
    Boards = {b1}
    Enrollments = {e1, e2, e3}
    Snapshot <- MCSnapshot
    Results = {r1, r2}
    ResultOf <- MCResultOf
    Podiums <- MCPodiums
    Staff = {a1}
    MaxApprovals = 1
    Members = {p1, p2}
    Tries <- MCTries
    MaxCalls = 2
INVARIANTS
    TypeOK
    StandingsFollowPodiums
    AcknowledgedEditIsKept
    NothingLooksSubmitted
    ProfileIsSound
PROPERTIES
    DriftOnlyByApproval
