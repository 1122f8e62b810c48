SPECIFICATION FairSpec
CONSTANTS
    ali = ali
    sara = sara
    Accounts = {ali, sara}
    RoleOf <- MCRoleOf
    None = None
    Sections = {"matches", "students"}
    MaxLogins = 2
    MaxHistory = 3
INVARIANTS
    TokensOfTheirRole
    SignedOutMeansNoToken
    ShowsItsAddress
PROPERTIES
    SessionEndsForAReason
    AddressSettles
