SPECIFICATION FairSpec
CONSTANTS
    Codes = {1, 2}
    Roles = {"player", "coach", "club"}
    Asking = {"coach", "club"}
    MaxPosts = 1
    Window = 2
    MaxTexts = 2
    MaxCalls = 2
    People = {"p1", "p2"}
    Tabs = {"register", "reset", "pages"}
    Staff = {"e1"}
INVARIANTS
    TypeOK
    AcknowledgedIsKept
PROPERTIES
    ResendIsOffered
